\* Three pipelined requests in buffers of 5 bytes; six files: four modules, two of them
\* for paths that differ only in case, a file that is no library and one that throws.
CONSTANTS
  Stream <- MCStream
  Names <- MCNames
  iobuf_size = 5
  Files <- MCFiles
  Library <- MCLibrary
  upper <- MCupper
  NULL = NULL
SPECIFICATION Spec
INVARIANT TypeOK
INVARIANT NoneRefused
INVARIANT LookupFinds
INVARIANT RoutedToOwner
INVARIANT LifeCycle
INVARIANT TreeMatchesLongest
PROPERTY ImplementsDelivery
CHECK_DEADLOCK FALSE
