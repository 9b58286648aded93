\* One request with a query.
CONSTANTS
  Stream <- QueryStream
  Names <- MCNames
  iobuf_size = 5
  Files <- MCFiles
  Library <- MCLibrary
  upper <- MCupper
  NULL = NULL
SPECIFICATION Spec
INVARIANT RoutedByPath
CHECK_DEADLOCK FALSE
