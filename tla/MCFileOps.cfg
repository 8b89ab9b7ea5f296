\* The working directory, three names in it and one in a directory, and three
\* more nodes: a link can lead to a link that leads to a file.
\* The system rests when no command has anything to change.
SPECIFICATION Spec
CHECK_DEADLOCK FALSE
CONSTANTS
  a = a
  b = b
  d = d
  Names <- ThreeNames
  Paths <- FourPaths
  MaxNodes = 4
  Modes = {{}, {"r", "w"}}
  MaxLinks = 3
PROPERTIES LinksTogether TextKept
