\* Two forms of up to three files, one more than the limit, with two failures.
SPECIFICATION FairSpec
CONSTANTS
  Requests = {q1, q2}
  Kinds = {png, pdf}
  Accepted = {png}
  ImageLimit = 2
  MaxFiles = 3
  MaxFailures = 2
INVARIANTS
  TypeOK
  LeftOnDisk
  OnlyAcceptedSent
  NoFileForgotten
PROPERTIES
  ImplementsOutbox
  FilesArrive
  EveryFormEnds
\* Every form is answered and every send ends: then nothing is left to do.
CHECK_DEADLOCK FALSE
