------------------------------- MODULE Routing -------------------------------
(***************************************************************************)
(* modules (modules.cpp): the table of the modules that a worker loads at  *)
(* its start from the files of a directory, and the choice of the module   *)
(* for a request.  A path is a sequence of characters.                     *)
(***************************************************************************)
EXTENDS Integers, Sequences, FiniteSetsExt

CONSTANTS
  Files,         \* the regular files of the directory
  Library,       \* for each file how loading it ends (see Outcomes), and for a
                 \* module the path and the events it wants
  upper(_),      \* toupper() of a character
  NULL           \* no path; no module

Outcomes == {"no library", "no create_module", "nothing created", "throws", "created"}

ASSUME LibraryAssumption ==
  \A f \in Files : /\ Library[f].load \in Outcomes
                   /\ Library[f].path \in Seq(STRING) /\ Library[f].default \in BOOLEAN
                   /\ Library[f].events \subseteq {"process", "connect", "header", "body"}

VARIABLES
  todo,          \* files the loop of setup() has still to visit
  default_,      \* the module without a path
  modules_,      \* the table: pairs of a path and a module
  created        \* (history) the modules in the order in which they were created

routingVars == <<todo, default_, modules_, created>>

\* strcasecmp() = 0
SameText(a, b) == Len(a) = Len(b) /\ \A i \in DOMAIN a : upper(a[i]) = upper(b[i])

\* modules_.find()
find(path) == {e \in modules_ : SameText(e[1], path)}
-----------------------------------------------------------------------------
RoutingInit ==
  /\ todo \in {Files, {}}    \* empty: the directory or the configuration cannot be read
  /\ default_ = NULL /\ modules_ = {} /\ created = <<>>

\* Defect: a second module takes over the path.
setup_handler_replaces(f) ==
  IF Library[f].default
  THEN default_' = f /\ UNCHANGED modules_
  ELSE /\ modules_' = (modules_ \ find(Library[f].path)) \cup {<<Library[f].path, f>>}
       /\ UNCHANGED default_

\* A later module without a path replaces the default, a later one with the path
\* of an earlier one is ignored.
setup_handler(f) ==
  \/ Library[f].default /\ default_' = f /\ UNCHANGED modules_
  \/ /\ ~Library[f].default /\ find(Library[f].path) = {}
     /\ modules_' = modules_ \cup {<<Library[f].path, f>>}
     /\ UNCHANGED default_
  \/ /\ ~Library[f].default /\ find(Library[f].path) # {}
     /\ UNCHANGED <<default_, modules_>>

\* One turn of the loop of setup(), in the order in which the directory lists its
\* files.  An exception from the module's constructor ends the loop.
setup(f) ==
  /\ f \in todo
  /\ \/ /\ Library[f].load = "created"
        /\ setup_handler(f)
        /\ created' = Append(created, f) /\ todo' = todo \ {f}
     \/ /\ Library[f].load \in {"no library", "no create_module", "nothing created"}
        /\ todo' = todo \ {f} /\ UNCHANGED <<default_, modules_, created>>
     \/ /\ Library[f].load = "throws"
        /\ todo' = {} /\ UNCHANGED <<default_, modules_, created>>

match_handler(path) ==
  IF find(path) # {} THEN (CHOOSE e \in find(path) : TRUE)[2] ELSE default_

list_handler == {e[2] : e \in modules_}
-----------------------------------------------------------------------------
RoutingTypeOK ==
  /\ todo \subseteq Files /\ default_ \in Files \cup {NULL}
  /\ modules_ \subseteq Seq(STRING) \X Files
  /\ created \in Seq(Files)

\* The module that should get the requests for a path: the first that was created
\* for it, or else the last that was created without a path.
For(path) == {i \in DOMAIN created : /\ ~Library[created[i]].default
                                     /\ SameText(Library[created[i]].path, path)}
Without == {i \in DOMAIN created : Library[created[i]].default}

LastWithout == IF Without = {} THEN NULL ELSE created[Max(Without)]
Owner(path) == IF For(path) = {} THEN LastWithout ELSE created[Min(For(path))]
=============================================================================
