------------------------------- MODULE DirCopy -------------------------------
(***************************************************************************)
(* lab3/lab_first.c: a directory is copied back to front.  Other programs  *)
(* use the directory meanwhile, and every call may fail.                   *)
(*                                                                         *)
(* An entry of the copy is named by the entry it is made from: names are   *)
(* reversed one to one.  A file that is deleted keeps its data, which the  *)
(* program still reads if it has the file open.                            *)
(***************************************************************************)
EXTENDS Integers, SequencesExt

CONSTANTS
  Names,   (* the entries of the directory                                 *)
  Bytes,   (* what a file is made of                                       *)
  None,    (* no copy, no buffer                                           *)
  MaxLen,  (* bound: length of a file                                      *)
  MaxEdits (* bound: changes other programs make                           *)

ASSUME DirCopyConstants ==
  MaxLen \in Nat /\ MaxEdits \in Nat /\ None \notin BoundedSeq(Bytes, MaxLen)

VARIABLES
  src,   (* entry -> its kind, "file", "other" or "none", and its data     *)
  past,  (* entry -> every content it has had                              *)
  edits, (* how many changes there have been                               *)
  dst,   (* entry -> its copy, or None                                     *)
  pc,    (* "mkdir", "opendir", "readdir", "open", "fstat", "read",        *)
         (* "reverse", "create", "write", "done" or "failed"               *)
  todo,  (* entries readdir has not returned yet                           *)
  entry, (* the entry in hand                                              *)
  size,  (* file_size                                                      *)
  buffer,(* what malloc returned and read filled, or None                  *)
  i,     (* the index of the loop that reverses the buffer                 *)
  fds    (* the descriptors open: of "dir", "src", "dst"                   *)

files == <<src, past, edits>>
vars == <<files, dst, pc, todo, entry, size, buffer, i, fds>>

Content == BoundedSeq(Bytes, MaxLen)

(* Mutant of Turns: the loop runs to the end of the string.                *)
TurnsWhole(n) == n

(* How often the loops of reverse_string and reverse_file_content turn.    *)
Turns(n) == n \div 2

-----------------------------------------------------------------------------
Init ==
  /\ src \in [Names -> [kind : {"file", "other"}, data : Content]]
  /\ past = [n \in Names |-> {src[n].data}]
  /\ edits = 0
  /\ dst = [n \in Names |-> None]
  /\ pc = "mkdir"
  /\ todo = {}
  /\ entry \in Names
  /\ size = 0
  /\ buffer = None
  /\ i = 0
  /\ fds = {}

(* mkdir fails, for one when the name is taken.                            *)
Mkdir ==
  /\ pc = "mkdir"
  /\ pc' \in {"opendir", "failed"}
  /\ UNCHANGED <<files, dst, todo, entry, size, buffer, i, fds>>

Opendir ==
  /\ pc = "opendir"
  /\ \/ /\ pc' = "readdir"
        /\ todo' = {n \in Names : src[n].kind # "none"}
        /\ fds' = {"dir"}
     \/ /\ pc' = "failed"
        /\ UNCHANGED <<todo, fds>>
  /\ UNCHANGED <<files, dst, entry, size, buffer, i>>

(* readdir and stat: only what is a regular file by then is copied.        *)
Readdir ==
  /\ pc = "readdir"
  /\ \E n \in todo :
       /\ entry' = n
       /\ todo' = todo \ {n}
       /\ pc' \in IF src[n].kind = "file" THEN {"open", "readdir"} ELSE {"readdir"}
  /\ UNCHANGED <<files, dst, size, buffer, i, fds>>

(* closedir, and "Directory copied successfully".                          *)
Finish ==
  /\ pc = "readdir"
  /\ todo = {}
  /\ fds' = fds \ {"dir"}
  /\ pc' = "done"
  /\ UNCHANGED <<files, dst, todo, entry, size, buffer, i>>

OpenSource ==
  /\ pc = "open"
  /\ src[entry].kind = "file"
  /\ fds' = fds \cup {"src"}
  /\ pc' = "fstat"
  /\ UNCHANGED <<files, dst, todo, entry, size, buffer, i>>

OpenSourceFails ==
  /\ pc = "open"
  /\ pc' = "readdir"
  /\ UNCHANGED <<files, dst, todo, entry, size, buffer, i, fds>>

(* Mutant of CloseSource: it is forgotten.                                 *)
KeepSource == UNCHANGED fds
CloseSource == fds' = fds \ {"src"}

(* fstat tells the length, and malloc returns a buffer of it.              *)
Fstat ==
  /\ pc = "fstat"
  /\ size' = Len(src[entry].data)
  /\ buffer' = <<>>
  /\ pc' = "read"
  /\ UNCHANGED <<files, dst, todo, entry, i, fds>>

FstatFails ==
  /\ pc = "fstat"
  /\ CloseSource
  /\ pc' = "readdir"
  /\ UNCHANGED <<files, dst, todo, entry, size, buffer, i>>

(* The file is read as far as it reached at fstat, and closed.             *)
Read ==
  /\ pc = "read"
  /\ Len(src[entry].data) >= size
  /\ buffer' = SubSeq(src[entry].data, 1, size)
  /\ CloseSource
  /\ pc' = "reverse"
  /\ i' = 0
  /\ UNCHANGED <<files, dst, todo, entry, size>>

(* One turn of the loop: buffer[i] and buffer[file_size - i - 1] change    *)
(* places.                                                                 *)
Swap ==
  /\ pc = "reverse"
  /\ i < Turns(size)
  /\ buffer' = [buffer EXCEPT ![i + 1] = buffer[size - i], ![size - i] = buffer[i + 1]]
  /\ i' = i + 1
  /\ UNCHANGED <<files, dst, pc, todo, entry, size, fds>>

SwapDone ==
  /\ pc = "reverse"
  /\ i >= Turns(size)
  /\ i' = 0
  /\ pc' = "create"
  /\ UNCHANGED <<files, dst, todo, entry, size, buffer, fds>>

(* read fails, or returns less than the file had at fstat.                 *)
ReadFails ==
  /\ pc = "read"
  /\ buffer' = None
  /\ CloseSource
  /\ pc' = "readdir"
  /\ UNCHANGED <<files, dst, todo, entry, size, i>>

Create ==
  /\ pc = "create"
  /\ dst' = [dst EXCEPT ![entry] = <<>>]
  /\ fds' = fds \cup {"dst"}
  /\ pc' = "write"
  /\ UNCHANGED <<files, todo, entry, size, buffer, i>>

CreateFails ==
  /\ pc = "create"
  /\ buffer' = None
  /\ pc' = "readdir"
  /\ UNCHANGED <<files, dst, todo, entry, size, i, fds>>

(* write stores all bytes or, with an error printed, only the first ones.  *)
Write ==
  /\ pc = "write"
  /\ \E k \in 0 .. size : dst' = [dst EXCEPT ![entry] = SubSeq(buffer, 1, k)]
  /\ buffer' = None
  /\ fds' = fds \ {"dst"}
  /\ pc' = "readdir"
  /\ UNCHANGED <<files, todo, entry, size, i>>

(* Another program changes what a file holds, or deletes the file.         *)
Edit(n) ==
  /\ edits < MaxEdits
  /\ src[n].kind = "file"
  /\ \/ \E data \in Content : src' = [src EXCEPT ![n].data = data]
     \/ src' = [src EXCEPT ![n].kind = "none"]
  /\ past' = [past EXCEPT ![n] = @ \cup {src'[n].data}]
  /\ edits' = edits + 1
  /\ UNCHANGED <<dst, pc, todo, entry, size, buffer, i, fds>>

Copy ==
  \/ Mkdir \/ Opendir \/ Readdir \/ Finish \/ OpenSource \/ OpenSourceFails
  \/ Fstat \/ FstatFails \/ Read \/ ReadFails \/ Swap \/ SwapDone \/ Create \/ CreateFails \/ Write

Next == Copy \/ \E n \in Names : Edit(n)

Spec == Init /\ [][Next]_vars

-----------------------------------------------------------------------------
(* The type invariant: what each variable may hold.                        *)
TypeOK ==
  /\ src \in [Names -> [kind : {"file", "other", "none"}, data : Content]]
  /\ past \in [Names -> SUBSET Content]
  /\ edits \in 0 .. MaxEdits
  /\ dst \in [Names -> Content \cup {None}]
  /\ pc \in {"mkdir", "opendir", "readdir", "open", "fstat", "read", "reverse", "create",
            "write", "done", "failed"}
  /\ todo \subseteq Names /\ entry \in Names
  /\ size \in 0 .. MaxLen
  /\ buffer \in Content \cup {None}
  /\ i \in 0 .. MaxLen
  /\ fds \subseteq {"dir", "src", "dst"}

(* A copy is a mirror image, or the beginning of one, of what the file     *)
(* really held at one moment, cut to the length it had at another, though  *)
(* others change the file between fstat and read: never a mixture of two   *)
(* contents, nor with what was copied before.                              *)
MirrorImage ==
  \A n \in Names :
    dst[n] # None =>
      \E p, q \in past[n] :
        /\ Len(q) <= Len(p)
        /\ IsPrefix(dst[n], Reverse(SubSeq(p, 1, Len(q))))

(* Whatever call fails, every file handled gives back what it took, and in *)
(* the end nothing is open.                                                *)
NoLeak ==
  /\ pc = "readdir" => fds = {"dir"} /\ buffer = None
  /\ pc \in {"done", "failed"} => fds = {} /\ buffer = None

=============================================================================
