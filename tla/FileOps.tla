-------------------------------- MODULE FileOps --------------------------------
(***************************************************************************)
(* The file commands of lab3/lab_second.c: one program, installed under    *)
(* fourteen names by hard links, that does what the name it is called by   *)
(* says.  Any number of commands run at the same time, of those that read  *)
(* a file, print_file and print_symlink_target, one: they make several     *)
(* calls, the others touch the file system in one.                         *)
(*                                                                         *)
(* The file system is modelled as the commands use it: nodes with names in *)
(* directories, and symbolic links that hold a path.  A call that fails    *)
(* changes nothing (the program prints the error and returns 0), and the   *)
(* commands that print what one call returns are left out: list_directory, *)
(* print_symlink and print_file_info.  A file is small enough for one read *)
(* of stdio.                                                               *)
(***************************************************************************)
EXTENDS Integers, SequencesExt

CONSTANTS
  Names,    (* the names files may have                                    *)
  Paths,    (* the paths the commands are given                            *)
  MaxNodes, (* bound: files, directories and links at a time               *)
  Modes,    (* the permissions change_permissions is asked to give         *)
  MaxLinks  (* bound: symbolic links followed in one path (the kernel: 40) *)

ASSUME FileOpsConstants ==
  /\ Paths \subseteq {<<a>> : a \in Names} \cup (Names \X Names)
  /\ MaxNodes \in Nat \ {0}
  /\ MaxLinks \in Nat
  /\ Modes \subseteq SUBSET {"r", "w"}

VARIABLES
  node,    (* what each node is: its kind, what it holds (a file: "text" or*)
           (* "empty"; a link: a path), what its owner may do with it      *)
  entry,   (* <<directory, name>> -> the node of that name, 0 if none      *)
  pending, (* the reading command between its calls: <<"open", path>> with *)
           (* what readlink has returned, <<"read", n>> and <<"close", n>> *)
           (* with the file n open, or Idle                                *)
  shown    (* what the last step has printed                               *)

vars == <<node, entry, pending, shown>>

Node == 1 .. MaxNodes
Root == 1                                  (* the working directory        *)
Place == Node \X Names
Path == {<<a>> : a \in Names} \cup Paths
Free == [kind |-> "free", holds |-> "empty", mode |-> {}]
NoPlace == <<0>>
Idle == <<>>

Init ==
  /\ node = [n \in Node |-> IF n = Root THEN [Free EXCEPT !.kind = "dir"] ELSE Free]
  /\ entry = [pl \in Place |-> 0]
  /\ pending = Idle
  /\ shown = "nothing"

-----------------------------------------------------------------------------
(* Where the last name of path p is, seen from directory d; with follow,   *)
(* where the symbolic link there leads in the end.                         *)
Walk[d \in Node, p \in Path, k \in 0 .. MaxLinks, follow \in BOOLEAN] ==
  LET up == Walk[d, <<p[1]>>, k, TRUE]
      dir == IF Len(p) = 1 THEN d ELSE IF up = NoPlace THEN 0 ELSE entry[up]
      last == <<dir, p[Len(p)]>>
  IN IF dir = 0 \/ node[dir].kind # "dir"
     THEN NoPlace
     ELSE IF follow /\ entry[last] # 0 /\ node[entry[last]].kind = "link"
     THEN IF k = 0 THEN NoPlace ELSE Walk[dir, node[entry[last]].holds, k - 1, TRUE]
     ELSE last

Named(p) == Walk[Root, p, MaxLinks, FALSE]
Meant(p) == Walk[Root, p, MaxLinks, TRUE]
At(place) == IF place = NoPlace THEN 0 ELSE entry[place]
Is(place, kind) == At(place) # 0 /\ node[At(place)].kind = kind
Vacant(place) == place # NoPlace /\ entry[place] = 0

(* The file that is open: it stays while it is, also without a name.       *)
Reading == {n \in Node : pending \in {<<"read", n>>, <<"close", n>>}}

Fresh == {n \in Node : node[n].kind = "free" /\ \A m \in 1 .. n - 1 : node[m].kind # "free"}
Create(place, new) ==
  \E n \in Fresh :
    /\ node' = [node EXCEPT ![n] = new]
    /\ entry' = [entry EXCEPT ![place] = n]

(* A node without a name that nobody has open is freed.                    *)
RemoveName(place) ==
  /\ entry' = [entry EXCEPT ![place] = 0]
  /\ node' = IF \/ \E pl \in Place \ {place} : entry[pl] = entry[place]
                \/ entry[place] \in Reading
             THEN node ELSE [node EXCEPT ![entry[place]] = Free]

NotPrinting == shown' = "nothing" /\ UNCHANGED pending

-----------------------------------------------------------------------------
(* The commands.  args is argv[1], argv[2], ...: argv[1] is counted but not*)
(* used, so that a command called as its usage line says does nothing.     *)
CreateDirectory(args) ==
  LET place == Named(args[2]) IN
  /\ Len(args) = 2
  /\ Vacant(place)
  /\ Create(place, [kind |-> "dir", holds |-> "empty", mode |-> {}])
  /\ NotPrinting

RemoveDirectory(args) ==
  LET place == Named(args[2]) IN
  /\ Len(args) = 2
  /\ Is(place, "dir")
  /\ \A name \in Names : entry[At(place), name] = 0
  /\ RemoveName(place)
  /\ NotPrinting

(* Mutant of Truncate: the old file is replaced by a new one.              *)
TruncateByReplacing(place) == Create(place, [node[At(place)] EXCEPT !.holds = "empty"])

Truncate(place) ==
  /\ node' = [node EXCEPT ![At(place)].holds = "empty"]
  /\ UNCHANGED entry

(* open with O_CREAT and O_TRUNC, which follows links, also to a file that *)
(* does not exist.                                                         *)
CreateFile(args) ==
  LET place == Meant(args[2]) IN
  /\ Len(args) = 2
  /\ \/ /\ Is(place, "file") /\ "w" \in node[At(place)].mode
        /\ Truncate(place)
     \/ /\ Vacant(place)
        /\ Create(place, [kind |-> "file", holds |-> "empty", mode |-> {"r", "w"}])
  /\ NotPrinting

(* Mutant of Unlink: what is removed is emptied first.                     *)
UnlinkErases(args) ==
  LET place == Named(args[2]) IN
  /\ Len(args) = 2
  /\ Is(place, "file")
  /\ entry' = [entry EXCEPT ![place] = 0]
  /\ node' = [node EXCEPT ![At(place)].holds = "empty"]
  /\ NotPrinting

(* remove_file, remove_symlink and remove_hardlink are one call, which     *)
(* does not look at what it removes.                                       *)
Unlink(args) ==
  LET place == Named(args[2]) IN
  /\ Len(args) = 2
  /\ Is(place, "file") \/ Is(place, "link")
  /\ RemoveName(place)
  /\ NotPrinting

CreateSymlink(args) ==
  LET place == Named(args[3]) IN
  /\ Len(args) = 3
  /\ Vacant(place)
  /\ Create(place, [kind |-> "link", holds |-> args[2], mode |-> {}])
  /\ NotPrinting

CreateHardlink(args) ==
  LET old == Named(args[2])
      new == Named(args[3])
  IN
  /\ Len(args) = 3
  /\ Is(old, "file") \/ Is(old, "link")
  /\ Vacant(new)
  /\ entry' = [entry EXCEPT ![new] = At(old)]
  /\ UNCHANGED node
  /\ NotPrinting

(* mode is argv[3] read by strtol, which takes what is no octal number for *)
(* 0: no permissions at all.  chmod follows links.                         *)
ChangePermissions(args, mode) ==
  LET place == Meant(args[2]) IN
  /\ Len(args) = 2
  /\ Is(place, "file")
  /\ node' = [node EXCEPT ![At(place)].mode = mode]
  /\ UNCHANGED entry
  /\ NotPrinting

(* print_symlink_target reads the link ...                                 *)
ReadLink(args) ==
  LET place == Named(args[2]) IN
  /\ Len(args) = 2
  /\ pending = Idle
  /\ Is(place, "link")
  /\ pending' = <<"open", node[At(place)].holds>>
  /\ shown' = "nothing"
  /\ UNCHANGED <<node, entry>>

(* What fopen(path, "r") opens: a file that may be read, or nothing.       *)
Readable(path) ==
  {n \in Node : n = At(Meant(path)) /\ node[n].kind = "file" /\ "r" \in node[n].mode}

Opens(path) ==
  /\ \/ \E n \in Readable(path) : pending' = <<"read", n>>
     \/ Readable(path) = {} /\ pending' = Idle
  /\ shown' = "nothing"
  /\ UNCHANGED <<node, entry>>

(* ... and then has print_file open the path it has read, from its own     *)
(* directory.                                                              *)
OpenTarget == pending # Idle /\ pending[1] = "open" /\ Opens(pending[2])

(* print_file begins with the path it is given.                            *)
OpenFile(args) == Len(args) = 2 /\ pending = Idle /\ Opens(args[2])

(* The fgets loop, to the end of the file.                                 *)
ReadFile(n) ==
  /\ pending = <<"read", n>>
  /\ shown' = node[n].holds
  /\ pending' = <<"close", n>>
  /\ UNCHANGED <<node, entry>>

(* fclose: a file that has lost its last name meanwhile is freed.          *)
CloseFile(n) ==
  /\ pending = <<"close", n>>
  /\ pending' = Idle
  /\ node' = IF \E pl \in Place : entry[pl] = n THEN node ELSE [node EXCEPT ![n] = Free]
  /\ shown' = "nothing"
  /\ UNCHANGED entry

(* Somebody writes a text into a file.                                     *)
Edit(n) ==
  /\ node[n].kind = "file" /\ "w" \in node[n].mode
  /\ node' = [node EXCEPT ![n].holds = "text"]
  /\ UNCHANGED entry
  /\ NotPrinting

(* The arguments a command may be called with.                             *)
Arguments == {<<p>> : p \in Paths} \cup {<<"unused", p>> : p \in Paths}
               \cup {<<"unused", p, q>> : p, q \in Paths}

Next ==
  \/ \E args \in Arguments :
       \/ CreateDirectory(args) \/ RemoveDirectory(args)
       \/ CreateFile(args) \/ Unlink(args)
       \/ CreateSymlink(args) \/ CreateHardlink(args)
       \/ \E mode \in Modes : ChangePermissions(args, mode)
       \/ ReadLink(args) \/ OpenFile(args)
  \/ OpenTarget
  \/ \E n \in Node : ReadFile(n) \/ CloseFile(n) \/ Edit(n)

Spec == Init /\ [][Next]_vars

-----------------------------------------------------------------------------
(* The type invariant: what each variable may hold.                        *)
TypeOK ==
  /\ \A n \in Node :
       /\ node[n].kind \in {"free", "dir", "file", "link"}
       /\ node[n].holds \in IF node[n].kind = "link" THEN Path ELSE {"empty", "text"}
       /\ node[n].mode \subseteq {"r", "w"}
  /\ DOMAIN node = Node
  /\ entry \in [Place -> 0 .. MaxNodes]
  /\ pending \in {Idle} \cup ({"open"} \X Path) \cup ({"read", "close"} \X Node)
  /\ shown \in {"nothing", "empty", "text"}

(* Names of one node that outlive a step are names of one node after it.   *)
Together ==
  LET both == {p \in Place : entry[p] # 0 /\ entry'[p] # 0}
  IN \A p, q \in both : entry[p] = entry[q] => entry'[p] = entry'[q]

(* The hard links of a file stay links to one file: no command makes one   *)
(* name mean another file while both names exist.                          *)
LinksTogether == [][Together]_vars

(* A text is lost only where somebody who may write empties its file, or   *)
(* with its last name and its last reader: never because one of several    *)
(* hard links is removed, nor while print_file has the file open.          *)
Kept(n) ==
  /\ node[n].kind = "file" /\ node[n].holds = "text"
  /\ ~(node'[n].kind = "file" /\ node'[n].holds = "text")
  => \/ /\ "w" \in node[n].mode /\ UNCHANGED entry
        /\ node'[n] = [node[n] EXCEPT !.holds = "empty"]
     \/ n \notin Reading' /\ \A pl \in Place : entry'[pl] # n
TextKept == [][\A n \in Node : Kept(n)]_vars

=============================================================================
