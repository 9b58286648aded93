--------------------------- MODULE DispatchProofs ---------------------------
(***************************************************************************)
(* Proofs that requests are routed to the module that owns their path and  *)
(* that modules are told of process and connection in time, for every      *)
(* directory of modules, every stream of requests and every buffer size.   *)
(***************************************************************************)
EXTENDS Dispatch, FiniteSetTheorems, TLAPS

PathOf(i) == Library[created[i]].path

\* Number i is the first of the modules created for its path.
First(i) ==
  /\ i \in DOMAIN created /\ ~Library[created[i]].default
  /\ \A j \in For(PathOf(i)) : i <= j

\* The table has the first module for each path, and no other.
TableInv ==
  /\ created \in Seq(Files)
  /\ modules_ = {<<PathOf(i), created[i]>> : i \in {k \in DOMAIN created : First(k)}}
  /\ default_ = LastWithout

\* The module that on_request_header chooses for a URL.
Chosen(url) == IF PathAt(url) = 0 THEN default_ ELSE match_handler(PathData(url))

IInv == TableInv /\ (stage = "body" => mh = Chosen(strurl_))

\* Equality of paths is an equivalence, whatever toupper() does.
LEMMA SameTextEquivalence ==
  ASSUME NEW a \in Seq(STRING), NEW b \in Seq(STRING), NEW p
  PROVE  /\ SameText(a, a)
         /\ SameText(a, p) /\ SameText(b, p) => SameText(a, b)
         /\ SameText(a, b) /\ SameText(b, p) => SameText(a, p)
BY DEF SameText

\* A nonempty set of numbers of modules has a least element.
LEMMA MinIsLeast ==
  ASSUME NEW S \in SUBSET Nat, S # {}
  PROVE  Min(S) \in S /\ \A j \in S : Min(S) <= j
<1>. DEFINE R == {ss \in Nat \X Nat : ss[1] < ss[2]}
<1>1. IsWellFoundedOn(R, Nat)
  BY NatLessThanWellFounded DEF OpToRel
<1>2. PICK m \in S : \A j \in S : ~(<<j, m>> \in R)
  <2>. HIDE DEF R
  <2>. QED  BY <1>1, WFMin
<1>3. ASSUME NEW j \in S  PROVE m <= j
  <2>1. <<j, m>> \in Nat \X Nat /\ ~(<<j, m>> \in R)  BY <1>2
  <2>. QED  BY <2>1, <<j, m>>[1] = j, <<j, m>>[2] = m
<1>. QED  BY <1>3 DEF Min

\* Induction up to n, by the least number that would be left out.
LEMMA Steps ==
  ASSUME NEW n \in Nat, NEW G \in SUBSET Nat, 0 \in G,
         \A k \in 0 .. n - 1 : k \in G => k + 1 \in G
  PROVE  \A k \in 0 .. n : k \in G
<1>. DEFINE B == {k \in 0 .. n : k \notin G}
<1>. SUFFICES ASSUME B # {}  PROVE FALSE
  OBVIOUS
<1>1. Min(B) \in B /\ \A j \in B : Min(B) <= j
  <2>1. B \in SUBSET Nat  OBVIOUS
  <2>. HIDE DEF B
  <2>. QED  BY <2>1, MinIsLeast
<1>2. PICK m \in Nat : m = Min(B) /\ m \in 0 .. n /\ m \notin G  BY <1>1
<1>3. m # 0  BY <1>2
<1>4. m - 1 \in 0 .. n - 1 /\ m - 1 \in 0 .. n /\ ~(m <= m - 1)  BY <1>2, <1>3
<1>5. m - 1 \in G  BY <1>1, <1>2, <1>4
<1>6. m - 1 + 1 \in G  BY <1>4, <1>5
<1>. QED  BY <1>2, <1>6

LEMMA MaxIsGreatest ==
  ASSUME NEW S \in SUBSET Nat, NEW m \in S, \A j \in S : m >= j
  PROVE  Max(S) = m
<1>. DEFINE x == Max(S)
<1>1. x \in S /\ \A j \in S : x >= j  BY DEF Max
<1>. HIDE DEF x
<1>2. x \in Nat /\ m \in Nat /\ x >= m /\ m >= x  BY <1>1
<1>3. x = m  BY <1>2
<1>. QED  BY <1>3 DEF x

LEMMA MaxExists ==
  ASSUME NEW L \in Nat, NEW S \in SUBSET (1 .. L), S # {}
  PROVE  Max(S) \in S /\ \A j \in S : Max(S) >= j
<1>. DEFINE T == {L - i : i \in S}
<1>1. T \in SUBSET Nat /\ T # {}
  <2>1. ASSUME NEW i \in S  PROVE L - i \in Nat
    <3>1. i \in 1 .. L  OBVIOUS
    <3>. QED  BY <3>1
  <2>. QED  BY <2>1
<1>2. Min(T) \in T /\ \A j \in T : Min(T) <= j
  <2>. HIDE DEF T
  <2>. QED  BY <1>1, MinIsLeast
<1>3. PICK m \in S : Min(T) = L - m  BY <1>2
<1>4. \A j \in S : m >= j
  <2>. SUFFICES ASSUME NEW j \in S  PROVE m >= j
    OBVIOUS
  <2>1. L - m <= L - j  BY <1>2, <1>3
  <2>. QED  BY <2>1
<1>. QED  BY <1>4, MaxIsGreatest

LEMMA Typing ==
  ASSUME TableInv
  PROVE  /\ DOMAIN created = 1 .. Len(created) /\ Len(created) \in Nat
         /\ \A i \in DOMAIN created : created[i] \in Files /\ PathOf(i) \in Seq(STRING)
         /\ \A p : For(p) \in SUBSET Nat
<1>1. DOMAIN created = 1 .. Len(created) /\ Len(created) \in Nat
  BY DEF TableInv
<1>2. \A i \in DOMAIN created : created[i] \in Files
  BY DEF TableInv
<1>. QED  BY <1>1, <1>2, LibraryAssumption DEF PathOf, For

\* While the table is as TableInv says, match_handler() finds the owner of any path.
LEMMA MatchesOwner ==
  ASSUME TableInv, NEW p
  PROVE  /\ find(p) = {} <=> For(p) = {}
         /\ match_handler(p) = Owner(p)
<1>1. \A e \in find(p) : \E i \in For(p) : First(i) /\ e = <<PathOf(i), created[i]>>
  <2>. SUFFICES ASSUME NEW e \in find(p)
                PROVE  \E i \in For(p) : First(i) /\ e = <<PathOf(i), created[i]>>
    OBVIOUS
  <2>1. PICK i \in DOMAIN created : First(i) /\ e = <<PathOf(i), created[i]>>
    BY DEF find, TableInv
  <2>2. SameText(PathOf(i), p)  BY <2>1 DEF find
  <2>. QED  BY <2>1, <2>2 DEF For, First, PathOf
<1>2. CASE For(p) = {}
  BY <1>1, <1>2 DEF match_handler, Owner, TableInv
<1>3. CASE For(p) # {}
  <2>. DEFINE m == Min(For(p))
  <2>1. m \in For(p) /\ \A j \in For(p) : m <= j
    BY <1>3, Typing, MinIsLeast
  <2>. HIDE DEF m
  <2>2. /\ m \in DOMAIN created /\ ~Library[created[m]].default
        /\ SameText(PathOf(m), p) /\ PathOf(m) \in Seq(STRING)
    BY <2>1, Typing DEF For, PathOf
  <2>3. For(PathOf(m)) \subseteq For(p)
    <3>. SUFFICES ASSUME NEW j \in For(PathOf(m))  PROVE SameText(PathOf(j), p)
      BY DEF For, PathOf
    <3>1. j \in DOMAIN created /\ SameText(PathOf(j), PathOf(m))  BY DEF For, PathOf
    <3>. QED  BY <2>2, <3>1, Typing, SameTextEquivalence
  <2>4. <<PathOf(m), created[m]>> \in find(p)
    <3>1. First(m)  BY <2>1, <2>2, <2>3 DEF First
    <3>. QED  BY <2>2, <3>1 DEF find, TableInv
  <2>5. ASSUME NEW e \in find(p)  PROVE e[2] = created[m]
    <3>1. PICK i \in For(p) : First(i) /\ e = <<PathOf(i), created[i]>>  BY <1>1
    <3>2. i \in DOMAIN created /\ SameText(PathOf(i), p)  BY DEF For, PathOf
    <3>3. SameText(PathOf(m), PathOf(i))
      BY <2>2, <3>2, Typing, SameTextEquivalence
    <3>4. i <= m  BY <2>2, <3>1, <3>3 DEF First, For, PathOf
    <3>5. i = m  BY <2>1, <2>2, <3>2, <3>4, Typing
    <3>. QED  BY <3>1, <3>5
  <2>. QED  BY <1>3, <2>4, <2>5 DEF match_handler, Owner, m
<1>. QED  BY <1>2, <1>3

\* One turn of the loop of setup() keeps the table.
LEMMA SetupTable ==
  ASSUME TableInv, NEW f \in Files, setup(f)
  PROVE  TableInv'
<1>1. CASE Library[f].load # "created"
  <2>1. UNCHANGED <<default_, modules_, created>>  BY <1>1 DEF setup
  <2>. QED  BY <2>1 DEF TableInv, First, PathOf, For, LastWithout, Without
<1>2. CASE Library[f].load = "created"
  <2>0. PICK n \in Nat : n = Len(created) + 1  BY Typing
  <2>1. setup_handler(f) /\ created' = Append(created, f)  BY <1>2 DEF setup
  <2>2. /\ n \in Nat /\ n = Len(created) + 1 /\ n \notin DOMAIN created
        /\ created' \in Seq(Files) /\ DOMAIN created' = DOMAIN created \cup {n}
        /\ created'[n] = f /\ \A i \in DOMAIN created : created'[i] = created[i] /\ i < n
    BY <2>0, <2>1, Typing DEF TableInv
  <2>3. /\ \A i \in DOMAIN created : PathOf(i)' = PathOf(i) /\ PathOf(i) \in Seq(STRING)
        /\ PathOf(n)' = Library[f].path /\ Library[f].path \in Seq(STRING)
    BY <2>2, Typing, LibraryAssumption DEF PathOf
  <2>4. \A p : For(p)' = IF ~Library[f].default /\ SameText(Library[f].path, p)
                         THEN For(p) \cup {n} ELSE For(p)
    BY <2>2, <2>3 DEF For, PathOf
  <2>5. \A i \in DOMAIN created : First(i)' <=> First(i)
    <3>. SUFFICES ASSUME NEW i \in DOMAIN created  PROVE First(i)' <=> First(i)
      OBVIOUS
    <3>1. i < n /\ (For(PathOf(i))' = For(PathOf(i)) \/ For(PathOf(i))' = For(PathOf(i)) \cup {n})
      BY <2>2, <2>3 DEF For, PathOf
    <3>2. i \in Nat /\ (Library[created'[i]].default <=> Library[created[i]].default)
      BY <2>2, Typing
    <3>. QED  BY <2>2, <3>1, <3>2, Typing DEF First
  <2>6. First(n)' <=> ~Library[f].default /\ For(Library[f].path) = {}
    <3>1. ~Library[f].default => For(Library[f].path)' = For(Library[f].path) \cup {n}
      BY <2>3, <2>4, SameTextEquivalence
    <3>2. First(n)' <=> /\ ~Library[f].default
                        /\ \A j \in For(Library[f].path)' : n <= j
      BY <2>2, <2>3 DEF First
    <3>3. \A j \in For(Library[f].path) : ~(n <= j)
      <4>1. ASSUME NEW j \in For(Library[f].path)  PROVE j \in Nat /\ j < n
        BY <2>2, Typing DEF For
      <4>. QED  BY <4>1
    <3>4. n <= n  OBVIOUS
    <3>. QED  BY <3>1, <3>2, <3>3, <3>4
  <2>7. (default_ = LastWithout)'
    <3>1. Without' = IF Library[f].default THEN Without \cup {n} ELSE Without
      BY <2>2 DEF Without
    <3>2. CASE ~Library[f].default
      <4>1. default_' = default_ /\ Without' = Without  BY <2>1, <3>1, <3>2 DEF setup_handler
      <4>2. Without # {} => Max(Without) \in DOMAIN created
        BY Typing, MaxExists DEF Without
      <4>. QED  BY <2>2, <4>1, <4>2 DEF LastWithout, TableInv
    <3>3. CASE Library[f].default
      <4>1. default_' = f  BY <2>1, <3>3 DEF setup_handler
      <4>2. n \in Without' /\ \A j \in Without' : j \in Nat /\ n >= j
        BY <2>2, <3>1, <3>3, Typing DEF Without
      <4>3. Max(Without') = n  BY <4>2, MaxIsGreatest
      <4>. QED  BY <2>2, <4>1, <4>2, <4>3 DEF LastWithout
    <3>. QED  BY <3>2, <3>3
  <2>8. modules_' = {<<PathOf(i)', created'[i]>> : i \in {k \in DOMAIN created' : First(k)'}}
    <3>1. CASE Library[f].default \/ For(Library[f].path) # {}
      <4>1. modules_' = modules_  BY <2>1, <3>1, MatchesOwner DEF setup_handler
      <4>2. {k \in DOMAIN created' : First(k)'} = {k \in DOMAIN created : First(k)}
        BY <2>2, <2>5, <2>6, <3>1
      <4>. QED  BY <2>2, <2>3, <4>1, <4>2 DEF TableInv
    <3>2. CASE ~Library[f].default /\ For(Library[f].path) = {}
      <4>1. modules_' = modules_ \cup {<<Library[f].path, f>>}
        BY <2>1, <3>2, MatchesOwner DEF setup_handler
      <4>2. {k \in DOMAIN created' : First(k)'} = {k \in DOMAIN created : First(k)} \cup {n}
        BY <2>2, <2>5, <2>6, <3>2
      <4>. QED  BY <2>2, <2>3, <4>1, <4>2 DEF TableInv
    <3>. QED  BY <3>1, <3>2
  <2>. QED  BY <2>2, <2>7, <2>8 DEF TableInv
<1>. QED  BY <1>1, <1>2

\* The choice depends on nothing but the table and the URL.
LEMMA TableKept ==
  ASSUME UNCHANGED routingVars
  PROVE  /\ TableInv => TableInv'
         /\ \A url : Chosen(url)' = Chosen(url)
BY DEF routingVars, TableInv, First, PathOf, For, LastWithout, Without, Chosen,
       match_handler, find

LEMMA InitIInv == Init => IInv
<1>. SUFFICES ASSUME Init  PROVE IInv
  OBVIOUS
<1>1. created = <<>> /\ modules_ = {} /\ default_ = NULL /\ stage = "setup"
  BY DEF Init, RoutingInit
<1>2. created \in Seq(Files) /\ DOMAIN created = {}  BY <1>1
<1>3. LastWithout = NULL  BY <1>2 DEF LastWithout, Without
<1>. QED  BY <1>1, <1>2, <1>3 DEF IInv, TableInv

LEMMA StepIInv == IInv /\ [Next]_vars => IInv'
<1>. SUFFICES ASSUME IInv, [Next]_vars  PROVE IInv'
  OBVIOUS
<1>1. CASE load
  <2>1. PICK f \in Files : setup(f)  BY <1>1 DEF load
  <2>2. stage = "setup" /\ stage' = stage  BY <1>1 DEF load
  <2>. QED  BY <2>1, <2>2, SetupTable DEF IInv
<1>2. CASE start \/ http_connection \/ receive_header \/ on_request_body \/ close
  <2>1. UNCHANGED routingVars /\ stage' # "body"
    BY <1>2 DEF start, http_connection, receive_header, on_request_body, close
  <2>. QED  BY <2>1, TableKept DEF IInv
<1>3. CASE on_request_header
  <2>1. UNCHANGED routingVars /\ strurl_' = strurl_ /\ mh' = Chosen(strurl_)
    BY <1>3 DEF on_request_header, Chosen, codecVars, requestVars
  <2>. QED  BY <2>1, TableKept DEF IInv
<1>4. CASE receive_body
  <2>1. UNCHANGED <<routingVars, stage, mh>>  BY <1>4 DEF receive_body
  <2>2. parse_body \/ \E n \in 1 .. iobuf_size : read_some(n)  BY <1>4 DEF receive_body
  <2>3. strurl_' = strurl_
    BY <2>2 DEF parse_body, of_header_field, of_header_value, of_body, of_message_complete,
                skip, read_some, requestVars
  <2>. QED  BY <2>1, <2>3, TableKept DEF IInv
<1>5. CASE UNCHANGED vars
  <2>1. UNCHANGED <<routingVars, stage, mh, strurl_>>
    BY <1>5 DEF vars, codecVars, requestVars
  <2>. QED  BY <2>1, TableKept DEF IInv
<1>. QED  BY <1>1, <1>2, <1>3, <1>4, <1>5 DEF Next

\* Whatever files the directory has, in whatever order they are loaded and with
\* whatever failures, a request goes to the first module for its path and
\* otherwise to the last without a path.
THEOREM RequestsReachOwner == Spec => []RoutedToOwner
<1>1. IInv => RoutedToOwner
  <2>. SUFFICES ASSUME IInv, stage = "body"
                PROVE  /\ PathAt(strurl_) = 0 => mh = LastWithout
                       /\ PathAt(strurl_) # 0 /\ PathEnd(strurl_) = Len(strurl_)
                            => mh = Owner(Path(strurl_))
    BY DEF RoutedToOwner
  <2>1. TableInv /\ mh = Chosen(strurl_)  BY DEF IInv
  <2>2. PathEnd(strurl_) = Len(strurl_) => Path(strurl_) = PathData(strurl_)
    BY DEF Path, PathData
  <2>. QED  BY <2>1, <2>2, MatchesOwner DEF Chosen, TableInv
<1>. QED  BY <1>1, InitIInv, StepIInv, PTL DEF Spec
-----------------------------------------------------------------------------
(* The calls of a module *)

Events == {"on_process_init", "on_connect_init", "on_request_header", "on_request_body",
           "on_connect_exit"}

Call == [event : Events, txn : Nat]

Wants(f, e) == e \in Library[f].events

\* The number of a module's call for the connection: the one after the call for
\* the process, if it gets that.
ConnectAt(f) == IF Wants(f, "process") THEN 2 ELSE 1

\* What the calls s of module f look like in stage st, when the request at hand is
\* number t and its module is m.
Story(f, s, st, m, t) ==
  /\ s \in Seq(Call)
  /\ st = "accept" => Len(s) = ConnectAt(f) - 1
  /\ Wants(f, "process") => Len(s) >= 1 /\ s[1].event = "on_process_init"
  /\ Wants(f, "connect") /\ st # "accept" =>
       Len(s) >= ConnectAt(f) /\ s[ConnectAt(f)].event = "on_connect_init"
  /\ \A i \in DOMAIN s : s[i].event = "on_connect_init" =>
       Wants(f, "connect") /\ i = ConnectAt(f)
  /\ \A i \in DOMAIN s : s[i].event = "on_connect_exit" =>
       Wants(f, "connect") /\ st = "closed" /\ i = Len(s)
  /\ Wants(f, "connect") /\ st = "closed" => Len(s) >= 1 /\ s[Len(s)].event = "on_connect_exit"
  /\ Wants(f, "header") => \A i \in DOMAIN s : s[i].event = "on_request_body" =>
       \E j \in DOMAIN s : j < i /\ s[j].event = "on_request_header" /\ s[j].txn = s[i].txn
  /\ st = "body" /\ m = f /\ Wants(f, "header") =>
       \E j \in DOMAIN s : s[j].event = "on_request_header" /\ s[j].txn = t

LifeInv ==
  /\ TableInv
  /\ txn \in Nat /\ calls \in [Files -> Seq(Call)]
  /\ stage \in {"setup", "accept", "header", "body", "closed"}
  /\ stage = "setup" => \A f \in Files : calls[f] = <<>>
  /\ stage \in {"setup", "accept", "header"} => mh = NULL
  /\ stage # "setup" => \A f \in list_handler : Story(f, calls[f], stage, mh, txn)

\* A call more.
LEMMA OneMore ==
  ASSUME NEW s \in Seq(Call), NEW e \in Events, NEW t \in Nat
  PROVE  LET s2 == Append(s, [event |-> e, txn |-> t])
         IN  /\ s2 \in Seq(Call) /\ Len(s2) = Len(s) + 1 /\ Len(s) \in Nat
             /\ DOMAIN s = 1 .. Len(s) /\ DOMAIN s2 = 1 .. Len(s) + 1
             /\ \A i \in 1 .. Len(s) : s2[i] = s[i]
             /\ s2[Len(s) + 1].event = e /\ s2[Len(s) + 1].txn = t
<1>. DEFINE c == [event |-> e, txn |-> t]
<1>1. c \in Call /\ c.event = e /\ c.txn = t  BY DEF Call
<1>. HIDE DEF c
<1>2. /\ Append(s, c) \in Seq(Call) /\ Len(Append(s, c)) = Len(s) + 1 /\ Len(s) \in Nat
      /\ DOMAIN s = 1 .. Len(s) /\ DOMAIN Append(s, c) = 1 .. Len(s) + 1
      /\ \A i \in 1 .. Len(s) : Append(s, c)[i] = s[i]
      /\ Append(s, c)[Len(s) + 1] = c
  BY <1>1
<1>. QED  BY <1>1, <1>2 DEF c

\* on_process_init().
LEMMA StoryStarts ==
  ASSUME NEW f, NEW m, NEW t \in Nat,
         NEW s, s = IF Wants(f, "process")
                    THEN Append(<<>>, [event |-> "on_process_init", txn |-> t]) ELSE <<>>
  PROVE  Story(f, s, "accept", m, t)
<1>0. <<>> \in Seq(Call) /\ Len(<<>>) = 0 /\ "on_process_init" \in Events  BY DEF Events
<1>1. CASE Wants(f, "process")
  <2>1. /\ s \in Seq(Call) /\ Len(s) = 1 /\ DOMAIN s = 1 .. 1 /\ s[1].event = "on_process_init"
    <3>1. PICK s0 \in Seq(Call) : s0 = <<>> /\ Len(s0) = 0  BY <1>0
    <3>2. s = Append(s0, [event |-> "on_process_init", txn |-> t])  BY <1>1, <3>1
    <3>3. /\ s \in Seq(Call) /\ Len(s) = Len(s0) + 1 /\ DOMAIN s = 1 .. Len(s0) + 1
          /\ s[Len(s0) + 1].event = "on_process_init"
      BY <1>0, <3>2, OneMore
    <3>. QED  BY <3>1, <3>3
  <2>2. \A i \in DOMAIN s : s[i].event = "on_process_init"  BY <2>1
  <2>. QED  BY <1>1, <2>1, <2>2 DEF Story, ConnectAt
<1>2. CASE ~Wants(f, "process")
  BY <1>0, <1>2 DEF Story, ConnectAt
<1>. QED  BY <1>1, <1>2

\* on_connect_init(), the call after.
LEMMA StoryConnects ==
  ASSUME NEW f, NEW m, NEW t \in Nat, NEW s0, Story(f, s0, "accept", m, t),
         NEW s, s = IF Wants(f, "connect")
                    THEN Append(s0, [event |-> "on_connect_init", txn |-> t]) ELSE s0
  PROVE  Story(f, s, "header", m, t)
<1>0. s0 \in Seq(Call) /\ Len(s0) \in Nat /\ "on_connect_init" \in Events  BY DEF Story, Events
<1>1. CASE ~Wants(f, "connect")
  BY <1>1 DEF Story
<1>2. CASE Wants(f, "connect")
  <2>1. /\ s \in Seq(Call) /\ Len(s) = Len(s0) + 1 /\ DOMAIN s0 = 1 .. Len(s0)
        /\ DOMAIN s = 1 .. Len(s0) + 1 /\ \A i \in 1 .. Len(s0) : s[i] = s0[i]
        /\ s[Len(s0) + 1].event = "on_connect_init"
    BY <1>0, <1>2, OneMore
  <2>2. Len(s0) + 1 = ConnectAt(f)  BY <1>0 DEF Story, ConnectAt
  <2>3. \A i \in DOMAIN s : i = Len(s0) + 1 \/ (i \in DOMAIN s0 /\ s[i] = s0[i])
    BY <1>0, <2>1
  <2>4. Len(s) = ConnectAt(f) /\ s[ConnectAt(f)].event = "on_connect_init" /\ ConnectAt(f) \in Nat
    BY <2>1, <2>2, <1>0
  <2>5. Wants(f, "process") => Len(s) >= 1 /\ s[1].event = "on_process_init"
    BY <1>0, <2>1 DEF Story
  <2>6. \A i \in DOMAIN s : s[i].event = "on_connect_init" => i = ConnectAt(f)
    BY <2>2, <2>3 DEF Story
  <2>7. \A i \in DOMAIN s : s[i].event # "on_connect_exit"
    BY <2>1, <2>3 DEF Story
  <2>8. Wants(f, "header") => \A i \in DOMAIN s : s[i].event = "on_request_body" =>
          \E j \in DOMAIN s : j < i /\ s[j].event = "on_request_header" /\ s[j].txn = s[i].txn
    <3>. SUFFICES ASSUME Wants(f, "header"), NEW i \in DOMAIN s, s[i].event = "on_request_body"
                  PROVE  \E j \in DOMAIN s : j < i /\ s[j].event = "on_request_header"
                                             /\ s[j].txn = s[i].txn
      OBVIOUS
    <3>1. i \in DOMAIN s0 /\ s[i] = s0[i]  BY <2>1, <2>3
    <3>2. PICK j \in DOMAIN s0 : j < i /\ s0[j].event = "on_request_header" /\ s0[j].txn = s0[i].txn
      BY <3>1 DEF Story
    <3>. QED  BY <3>1, <3>2, <2>1, <1>0
  <2>. QED  BY <1>2, <2>1, <2>4, <2>5, <2>6, <2>7, <2>8 DEF Story
<1>. QED  BY <1>1, <1>2

\* A call for a request; on_request_body() only for a module that has had
\* on_request_header().
LEMMA StoryGoesOn ==
  ASSUME NEW f, NEW m, NEW t \in Nat, NEW s0, NEW st \in {"header", "body"},
         Story(f, s0, st, m, t), NEW e \in {"on_request_header", "on_request_body"},
         e = "on_request_body" => st = "body" /\ m = f,
         NEW s, s = Append(s0, [event |-> e, txn |-> t]), NEW m2
  PROVE  /\ Story(f, s, "header", m2, t)
         /\ Story(f, s, "body", m, t) \/ e = "on_request_header"
         /\ e = "on_request_header" => Story(f, s, "body", m2, t)
<1>0. s0 \in Seq(Call) /\ Len(s0) \in Nat /\ e \in Events  BY DEF Story, Events
<1>1. /\ s \in Seq(Call) /\ Len(s) = Len(s0) + 1 /\ DOMAIN s0 = 1 .. Len(s0)
      /\ DOMAIN s = 1 .. Len(s0) + 1 /\ \A i \in 1 .. Len(s0) : s[i] = s0[i]
      /\ s[Len(s0) + 1].event = e /\ s[Len(s0) + 1].txn = t
  BY <1>0, OneMore
<1>2. \A i \in DOMAIN s : i = Len(s0) + 1 \/ (i \in DOMAIN s0 /\ s[i] = s0[i])
  BY <1>0, <1>1
<1>3. Wants(f, "process") => Len(s) >= 1 /\ s[1].event = "on_process_init"
  BY <1>0, <1>1 DEF Story
<1>4. Wants(f, "connect") => Len(s) >= ConnectAt(f) /\ s[ConnectAt(f)].event = "on_connect_init"
  <2>1. ConnectAt(f) \in 1 .. 2  BY DEF ConnectAt
  <2>2. Wants(f, "connect") => Len(s0) >= ConnectAt(f) /\ s0[ConnectAt(f)].event = "on_connect_init"
    BY DEF Story
  <2>. QED  BY <2>1, <2>2, <1>0, <1>1
<1>5. \A i \in DOMAIN s : s[i].event = "on_connect_init" => Wants(f, "connect") /\ i = ConnectAt(f)
  BY <1>1, <1>2 DEF Story
<1>6. \A i \in DOMAIN s : s[i].event # "on_connect_exit"
  BY <1>1, <1>2 DEF Story
<1>7. ASSUME Wants(f, "header"), NEW i \in DOMAIN s, s[i].event = "on_request_body"
      PROVE  \E j \in DOMAIN s : j < i /\ s[j].event = "on_request_header" /\ s[j].txn = s[i].txn
  <2>1. CASE i \in DOMAIN s0 /\ s[i] = s0[i]
    <3>1. PICK j \in DOMAIN s0 : j < i /\ s0[j].event = "on_request_header" /\ s0[j].txn = s0[i].txn
      BY <1>7, <2>1 DEF Story
    <3>. QED  BY <3>1, <2>1, <1>0, <1>1
  <2>2. CASE i = Len(s0) + 1
    <3>1. e = "on_request_body" /\ s[i].txn = t  BY <2>2, <1>1, <1>7
    <3>2. PICK j \in DOMAIN s0 : s0[j].event = "on_request_header" /\ s0[j].txn = t
      BY <3>1, <1>7 DEF Story
    <3>3. j < i /\ j \in DOMAIN s /\ s[j] = s0[j]  BY <2>2, <1>0, <1>1
    <3>. QED  BY <3>1, <3>2, <3>3
  <2>. QED  BY <2>1, <2>2, <1>2
<1>8. Story(f, s, "header", m2, t)
  BY <1>1, <1>3, <1>4, <1>5, <1>6, <1>7 DEF Story
<1>9. CASE e = "on_request_header"
  <2>1. Len(s0) + 1 \in DOMAIN s  BY <1>0, <1>1
  <2>3. \E j \in DOMAIN s : s[j].event = "on_request_header" /\ s[j].txn = t
    BY <1>1, <1>9, <2>1
  <2>2. Story(f, s, "body", m2, t)
    BY <1>1, <1>3, <1>4, <1>5, <1>6, <1>7, <2>3 DEF Story
  <2>. QED  BY <1>8, <1>9, <2>2
<1>10. CASE e = "on_request_body"
  <2>1. Wants(f, "header") => \E j \in DOMAIN s : s[j].event = "on_request_header" /\ s[j].txn = t
    <3>. SUFFICES ASSUME Wants(f, "header")
                  PROVE  \E j \in DOMAIN s : s[j].event = "on_request_header" /\ s[j].txn = t
      OBVIOUS
    <3>1. PICK j \in DOMAIN s0 : s0[j].event = "on_request_header" /\ s0[j].txn = t
      BY <1>10 DEF Story
    <3>. QED  BY <3>1, <1>0, <1>1
  <2>2. Story(f, s, "body", m, t)
    BY <1>1, <1>3, <1>4, <1>5, <1>6, <1>7, <2>1 DEF Story
  <2>. QED  BY <1>8, <1>10, <2>2
<1>. QED  BY <1>9, <1>10

\* A request goes on without a call.
LEMMA StoryWaits ==
  ASSUME NEW f, NEW m, NEW t, NEW s, NEW st \in {"header", "body"}, Story(f, s, st, m, t),
         NEW m2, NEW t2
  PROVE  /\ Story(f, s, "header", m2, t2)
         /\ m2 # f \/ ~Wants(f, "header") => Story(f, s, "body", m2, t2)
<1>1. Story(f, s, "header", m2, t2)  BY DEF Story
<1>2. m2 # f \/ ~Wants(f, "header") => Story(f, s, "body", m2, t2)  BY DEF Story
<1>. QED  BY <1>1, <1>2

\* on_connect_exit(), the last.
LEMMA StoryEnds ==
  ASSUME NEW f, NEW m, NEW t \in Nat, NEW s0, NEW st \in {"header", "body"},
         Story(f, s0, st, m, t),
         NEW s, s = IF Wants(f, "connect")
                    THEN Append(s0, [event |-> "on_connect_exit", txn |-> t]) ELSE s0
  PROVE  Story(f, s, "closed", m, t)
<1>0. s0 \in Seq(Call) /\ Len(s0) \in Nat /\ "on_connect_exit" \in Events  BY DEF Story, Events
<1>1. CASE ~Wants(f, "connect")
  BY <1>1 DEF Story
<1>2. CASE Wants(f, "connect")
  <2>1. /\ s \in Seq(Call) /\ Len(s) = Len(s0) + 1 /\ DOMAIN s0 = 1 .. Len(s0)
        /\ DOMAIN s = 1 .. Len(s0) + 1 /\ \A i \in 1 .. Len(s0) : s[i] = s0[i]
        /\ s[Len(s0) + 1].event = "on_connect_exit"
    BY <1>0, <1>2, OneMore
  <2>2. \A i \in DOMAIN s : i = Len(s0) + 1 \/ (i \in DOMAIN s0 /\ s[i] = s0[i])
    BY <1>0, <2>1
  <2>3. Wants(f, "process") => Len(s) >= 1 /\ s[1].event = "on_process_init"
    BY <1>0, <2>1 DEF Story
  <2>4. Len(s) >= ConnectAt(f) /\ s[ConnectAt(f)].event = "on_connect_init"
    <3>1. ConnectAt(f) \in 1 .. 2  BY DEF ConnectAt
    <3>2. Len(s0) >= ConnectAt(f) /\ s0[ConnectAt(f)].event = "on_connect_init"
      BY <1>2 DEF Story
    <3>. QED  BY <3>1, <3>2, <1>0, <2>1
  <2>5. \A i \in DOMAIN s : s[i].event = "on_connect_init" => i = ConnectAt(f)
    BY <2>1, <2>2 DEF Story
  <2>6. \A i \in DOMAIN s : s[i].event = "on_connect_exit" => i = Len(s)
    BY <2>1, <2>2 DEF Story
  <2>7. ASSUME Wants(f, "header"), NEW i \in DOMAIN s, s[i].event = "on_request_body"
        PROVE  \E j \in DOMAIN s : j < i /\ s[j].event = "on_request_header" /\ s[j].txn = s[i].txn
    <3>1. i \in DOMAIN s0 /\ s[i] = s0[i]  BY <2>1, <2>2, <2>7
    <3>2. PICK j \in DOMAIN s0 : j < i /\ s0[j].event = "on_request_header" /\ s0[j].txn = s0[i].txn
      BY <3>1, <2>7 DEF Story
    <3>. QED  BY <3>1, <3>2, <2>1, <1>0
  <2>8. Len(s) >= 1 /\ s[Len(s)].event = "on_connect_exit"  BY <1>0, <2>1
  <2>. QED  BY <1>2, <2>1, <2>3, <2>4, <2>5, <2>6, <2>7, <2>8 DEF Story
<1>. QED  BY <1>1, <1>2

LEMMA HandlersAreFiles ==
  ASSUME TableInv  PROVE list_handler \subseteq Files
<1>. SUFFICES ASSUME NEW e \in modules_  PROVE e[2] \in Files
  BY DEF list_handler
<1>1. PICK i \in DOMAIN created : e = <<PathOf(i), created[i]>>
  BY DEF TableInv
<1>. QED  BY <1>1, Typing

\* A loop over modules, seen from one of them.
LEMMA CalledFacts ==
  ASSUME NEW fs, NEW event, NEW call \in Events, Called(fs, event, call), txn \in Nat,
         calls \in [Files -> Seq(Call)]
  PROVE  /\ calls' \in [Files -> Seq(Call)]
         /\ \A f \in Files : calls'[f] = IF f \in fs /\ Wants(f, event)
                                         THEN Append(calls[f], [event |-> call, txn |-> txn])
                                         ELSE calls[f]
<1>1. \A f \in Files : calls'[f] = IF f \in fs /\ Wants(f, event)
                                   THEN Append(calls[f], [event |-> call, txn |-> txn])
                                   ELSE calls[f]
  BY DEF Called, Wants
<1>2. \A f \in Files : calls[f] \in Seq(Call)  OBVIOUS
<1>3. \A f \in Files : Append(calls[f], [event |-> call, txn |-> txn]) \in Seq(Call)
  BY <1>2, OneMore
<1>4. \A f \in Files : calls'[f] \in Seq(Call)  BY <1>1, <1>2, <1>3
<1>5. calls' = [f \in Files |-> calls'[f]]  BY DEF Called
<1>. QED  BY <1>1, <1>4, <1>5

LEMMA InitLife == Init => LifeInv
<1>. SUFFICES ASSUME Init  PROVE LifeInv
  OBVIOUS
<1>1. TableInv  BY InitIInv DEF IInv
<1>2. txn = 1 /\ stage = "setup" /\ mh = NULL /\ calls = [f \in Files |-> <<>>]
  BY DEF Init, CodecInit
<1>3. calls \in [Files -> Seq(Call)]  BY <1>2
<1>. QED  BY <1>1, <1>2, <1>3 DEF LifeInv

\* While modules are loaded none of them is called.
LEMMA LoadLife ==
  ASSUME LifeInv, load  PROVE LifeInv'
<1>1. PICK f \in Files : setup(f)  BY DEF load
<1>2. TableInv'  BY <1>1, SetupTable DEF LifeInv
<1>3. stage = "setup" /\ UNCHANGED <<stage, mh, calls, txn>>
  BY DEF load, codecVars
<1>. QED  BY <1>2, <1>3 DEF LifeInv

\* The loops over all the modules of the table.
LEMMA StartLife ==
  ASSUME LifeInv, start  PROVE LifeInv'
<1>0. /\ stage = "setup" /\ stage' = "accept" /\ UNCHANGED <<routingVars, mh, txn>>
      /\ Called(list_handler, "process", "on_process_init") /\ "on_process_init" \in Events
  BY DEF start, codecVars, Events
<1>1. TableInv' /\ list_handler' = list_handler /\ list_handler \subseteq Files
  BY <1>0, TableKept, HandlersAreFiles DEF LifeInv, routingVars, list_handler
<1>2. txn \in Nat /\ calls \in [Files -> Seq(Call)] /\ mh = NULL
      /\ \A f \in Files : calls[f] = <<>>
  BY <1>0 DEF LifeInv
<1>3. /\ calls' \in [Files -> Seq(Call)]
      /\ \A f \in Files : calls'[f] = IF f \in list_handler /\ Wants(f, "process")
                                      THEN Append(calls[f], [event |-> "on_process_init", txn |-> txn])
                                      ELSE calls[f]
  BY <1>0, <1>2, CalledFacts
<1>4. ASSUME NEW f \in list_handler  PROVE Story(f, calls'[f], "accept", mh, txn)
  <2>1. calls'[f] = IF Wants(f, "process")
                    THEN Append(<<>>, [event |-> "on_process_init", txn |-> txn]) ELSE <<>>
    BY <1>1, <1>2, <1>3
  <2>. QED  BY <2>1, <1>2, StoryStarts
<1>5. \A f \in list_handler' : Story(f, calls'[f], stage', mh', txn')
  BY <1>0, <1>1, <1>4
<1>. QED  BY <1>0, <1>1, <1>2, <1>3, <1>5 DEF LifeInv

LEMMA ConnectLife ==
  ASSUME LifeInv, http_connection  PROVE LifeInv'
<1>0. /\ stage = "accept" /\ stage' = "header" /\ UNCHANGED <<routingVars, mh, txn>>
      /\ Called(list_handler, "connect", "on_connect_init") /\ "on_connect_init" \in Events
  BY DEF http_connection, codecVars, Events
<1>1. TableInv' /\ list_handler' = list_handler /\ list_handler \subseteq Files
  BY <1>0, TableKept, HandlersAreFiles DEF LifeInv, routingVars, list_handler
<1>2. txn \in Nat /\ calls \in [Files -> Seq(Call)] /\ mh = NULL
      /\ \A f \in list_handler : Story(f, calls[f], "accept", mh, txn)
  BY <1>0 DEF LifeInv
<1>3. /\ calls' \in [Files -> Seq(Call)]
      /\ \A f \in Files : calls'[f] = IF f \in list_handler /\ Wants(f, "connect")
                                      THEN Append(calls[f], [event |-> "on_connect_init", txn |-> txn])
                                      ELSE calls[f]
  BY <1>0, <1>2, CalledFacts
<1>4. ASSUME NEW f \in list_handler  PROVE Story(f, calls'[f], "header", mh, txn)
  <2>1. calls'[f] = IF Wants(f, "connect")
                    THEN Append(calls[f], [event |-> "on_connect_init", txn |-> txn]) ELSE calls[f]
    BY <1>1, <1>3
  <2>2. Story(f, calls[f], "accept", mh, txn)  BY <1>2
  <2>. QED  BY <2>1, <2>2, <1>2, StoryConnects
<1>5. \A f \in list_handler' : Story(f, calls'[f], stage', mh', txn')
  BY <1>0, <1>1, <1>4
<1>. QED  BY <1>0, <1>1, <1>2, <1>3, <1>5 DEF LifeInv

\* The calls for a request, to one module.
LEMMA HeaderLife ==
  ASSUME LifeInv, on_request_header  PROVE LifeInv'
<1>0. /\ stage = "header" /\ stage' = "body" /\ UNCHANGED <<routingVars, txn>>
      /\ Called({mh'}, "header", "on_request_header") /\ "on_request_header" \in Events
  BY DEF on_request_header, codecVars, Events
<1>1. TableInv' /\ list_handler' = list_handler /\ list_handler \subseteq Files
  BY <1>0, TableKept, HandlersAreFiles DEF LifeInv, routingVars, list_handler
<1>2. txn \in Nat /\ calls \in [Files -> Seq(Call)]
      /\ \A f \in list_handler : Story(f, calls[f], "header", mh, txn)
  BY <1>0 DEF LifeInv
<1>3. /\ calls' \in [Files -> Seq(Call)]
      /\ \A f \in Files : calls'[f] = IF f \in {mh'} /\ Wants(f, "header")
                                      THEN Append(calls[f], [event |-> "on_request_header", txn |-> txn])
                                      ELSE calls[f]
  BY <1>0, <1>2, CalledFacts
<1>4. ASSUME NEW f \in list_handler  PROVE Story(f, calls'[f], "body", mh', txn)
  <2>0. Story(f, calls[f], "header", mh, txn) /\ f \in Files  BY <1>1, <1>2
  <2>1. CASE f = mh' /\ Wants(f, "header")
    <3>1. calls'[f] = Append(calls[f], [event |-> "on_request_header", txn |-> txn])
      BY <2>0, <2>1, <1>3
    <3>. QED  BY <2>0, <3>1, <1>2, StoryGoesOn
  <2>2. CASE mh' # f \/ ~Wants(f, "header")
    <3>1. calls'[f] = calls[f]  BY <2>0, <2>2, <1>3
    <3>. QED  BY <2>0, <2>2, <3>1, StoryWaits
  <2>. QED  BY <2>1, <2>2
<1>5. \A f \in list_handler' : Story(f, calls'[f], stage', mh', txn')
  BY <1>0, <1>1, <1>4
<1>. QED  BY <1>0, <1>1, <1>2, <1>3, <1>5 DEF LifeInv

LEMMA BodyLife ==
  ASSUME LifeInv, on_request_body  PROVE LifeInv'
<1>0. /\ stage = "body" /\ stage' = "header" /\ mh' = NULL /\ txn' = txn + 1
      /\ UNCHANGED routingVars
      /\ Called({mh}, "body", "on_request_body") /\ "on_request_body" \in Events
  BY DEF on_request_body, next_request, Events
<1>1. TableInv' /\ list_handler' = list_handler /\ list_handler \subseteq Files
  BY <1>0, TableKept, HandlersAreFiles DEF LifeInv, routingVars, list_handler
<1>2. txn \in Nat /\ calls \in [Files -> Seq(Call)]
      /\ \A f \in list_handler : Story(f, calls[f], "body", mh, txn)
  BY <1>0 DEF LifeInv
<1>3. /\ calls' \in [Files -> Seq(Call)]
      /\ \A f \in Files : calls'[f] = IF f \in {mh} /\ Wants(f, "body")
                                      THEN Append(calls[f], [event |-> "on_request_body", txn |-> txn])
                                      ELSE calls[f]
  BY <1>0, <1>2, CalledFacts
<1>4. ASSUME NEW f \in list_handler  PROVE Story(f, calls'[f], "header", mh', txn')
  <2>0. Story(f, calls[f], "body", mh, txn) /\ f \in Files  BY <1>1, <1>2
  <2>1. CASE f = mh /\ Wants(f, "body")
    <3>1. calls'[f] = Append(calls[f], [event |-> "on_request_body", txn |-> txn])
      BY <2>0, <2>1, <1>3
    <3>2. Story(f, calls'[f], "header", mh', txn)
      BY <2>0, <2>1, <3>1, <1>2, StoryGoesOn
    <3>. QED  BY <3>2, StoryWaits
  <2>2. CASE mh # f \/ ~Wants(f, "body")
    <3>1. calls'[f] = calls[f]  BY <2>0, <2>2, <1>3
    <3>. QED  BY <2>0, <3>1, StoryWaits
  <2>. QED  BY <2>1, <2>2
<1>5. \A f \in list_handler' : Story(f, calls'[f], stage', mh', txn')
  BY <1>0, <1>1, <1>4
<1>6. txn' \in Nat  BY <1>0, <1>2
<1>. QED  BY <1>0, <1>1, <1>3, <1>5, <1>6 DEF LifeInv

\* The end of a connection, with or without a response to the last request.
LEMMA CloseLife ==
  ASSUME LifeInv, close  PROVE LifeInv'
<1>. DEFINE last == message_completed_ /\ mh # NULL /\ Wants(mh, "body")
            answer == [event |-> "on_request_body", txn |-> txn]
            bye == [event |-> "on_connect_exit", txn |-> txn]
            served == IF last THEN [calls EXCEPT ![mh] = Append(@, answer)] ELSE calls
<1>0. /\ stage \in {"header", "body"} /\ stage' = "closed"
      /\ UNCHANGED <<routingVars, mh, txn>>
      /\ calls' = [f \in Files |-> IF f \in list_handler /\ Wants(f, "connect")
                                   THEN Append(served[f], bye) ELSE served[f]]
  BY DEF close, codecVars, Wants
<1>1. TableInv' /\ list_handler' = list_handler /\ list_handler \subseteq Files
  BY <1>0, TableKept, HandlersAreFiles DEF LifeInv, routingVars, list_handler
<1>2. txn \in Nat /\ calls \in [Files -> Seq(Call)] /\ (stage = "header" => mh = NULL)
      /\ \A f \in list_handler : Story(f, calls[f], stage, mh, txn)
  BY <1>0 DEF LifeInv
<1>3. ASSUME NEW f \in Files
      PROVE  /\ served[f] = IF last /\ f = mh THEN Append(calls[f], answer) ELSE calls[f]
             /\ served[f] \in Seq(Call)
  <2>1. served[f] = IF last /\ f = mh THEN Append(calls[f], answer) ELSE calls[f]
    BY <1>2
  <2>2. calls[f] \in Seq(Call) /\ "on_request_body" \in Events  BY <1>2 DEF Events
  <2>3. Append(calls[f], answer) \in Seq(Call)  BY <1>2, <2>2, OneMore
  <2>. QED  BY <2>1, <2>2, <2>3
<1>. HIDE DEF served, last
<1>4. calls' \in [Files -> Seq(Call)]
  <2>1. ASSUME NEW f \in Files  PROVE Append(served[f], bye) \in Seq(Call)
    <3>1. served[f] \in Seq(Call) /\ "on_connect_exit" \in Events  BY <1>3 DEF Events
    <3>. QED  BY <1>2, <3>1, OneMore
  <2>. QED  BY <1>0, <1>3, <2>1
<1>5. ASSUME NEW f \in list_handler  PROVE Story(f, served[f], stage, mh, txn)
  <2>0. Story(f, calls[f], stage, mh, txn) /\ f \in Files  BY <1>1, <1>2
  <2>1. CASE last /\ f = mh
    <3>1. stage = "body"  BY <2>1, <1>0, <1>2 DEF last
    <3>2. served[f] = Append(calls[f], answer)  BY <2>0, <2>1, <1>3
    <3>. QED  BY <2>0, <2>1, <3>1, <3>2, <1>2, StoryGoesOn
  <2>2. CASE ~(last /\ f = mh)
    BY <2>0, <2>2, <1>3
  <2>. QED  BY <2>1, <2>2
<1>6. ASSUME NEW f \in list_handler  PROVE Story(f, calls'[f], "closed", mh, txn)
  <2>1. calls'[f] = IF Wants(f, "connect") THEN Append(served[f], bye) ELSE served[f]
    BY <1>0, <1>1
  <2>. QED  BY <2>1, <1>0, <1>2, <1>5, StoryEnds
<1>7. \A f \in list_handler' : Story(f, calls'[f], stage', mh', txn')
  BY <1>0, <1>1, <1>6
<1>. QED  BY <1>0, <1>1, <1>2, <1>4, <1>7 DEF LifeInv

LEMMA StepLife == LifeInv /\ [Next]_vars => LifeInv'
<1>. SUFFICES ASSUME LifeInv, [Next]_vars  PROVE LifeInv'
  OBVIOUS
<1>1. CASE receive_header \/ receive_body \/ UNCHANGED vars
  <2>1. UNCHANGED <<routingVars, stage, mh, calls>>
    BY <1>1 DEF receive_header, receive_body, vars
  <2>2. txn' = txn
    <3>1. CASE parse_header \/ parse_body \/ \E n \in 1 .. iobuf_size : read_some(n)
      BY <3>1 DEF parse_header, parse_body, of_url, of_header_field, of_header_value,
                  of_headers_complete, of_body, of_message_complete, skip, read_some
    <3>2. CASE UNCHANGED vars
      BY <3>2 DEF vars, codecVars
    <3>. QED  BY <1>1, <3>1, <3>2 DEF receive_header, receive_body
  <2>3. TableInv' /\ list_handler' = list_handler
    BY <2>1, TableKept DEF LifeInv, routingVars, list_handler
  <2>. QED  BY <2>1, <2>2, <2>3 DEF LifeInv
<1>. QED  BY <1>1, LoadLife, StartLife, ConnectLife, HeaderLife, BodyLife, CloseLife DEF Next

\* Whatever events a module asks for and whenever the connection ends, it is told
\* of the process and of the connection before its first request and of the end
\* of the connection after its last one, and gets headers before bodies.
THEOREM ModulesTold == Spec => []LifeCycle
<1>1. LifeInv => LifeCycle
  <2>. SUFFICES ASSUME LifeInv, NEW f \in list_handler
       PROVE LET at(e) == {i \in DOMAIN calls[f] : calls[f][i].event = e}
                 before(i, e) == \E j \in at(e) : j < i
                 wants(e) == e \in Library[f].events
             IN  /\ \A i \in at("on_request_header") \cup at("on_request_body") :
                      /\ wants("process") => before(i, "on_process_init")
                      /\ wants("connect") => before(i, "on_connect_init")
                      /\ ~before(i, "on_connect_exit")
                 /\ wants("header") => \A i \in at("on_request_body") :
                      \E j \in at("on_request_header") : j < i /\ calls[f][j].txn = calls[f][i].txn
                 /\ stage = "closed" =>
                      Cardinality(at("on_connect_init")) = Cardinality(at("on_connect_exit"))
    BY DEF LifeCycle
  <2>. DEFINE s == calls[f]
              at(e) == {i \in DOMAIN s : s[i].event = e}
              before(i, e) == \E j \in at(e) : j < i
  <2>f. f \in Files /\ s \in Seq(Call)  BY HandlersAreFiles DEF LifeInv
  <2>1. CASE stage = "setup"
    <3>1. s = <<>>  BY <2>1, <2>f DEF LifeInv
    <3>2. \A e : at(e) = {}  BY <3>1
    <3>. QED  BY <2>1, <3>2
  <2>2. CASE stage # "setup"
    <3>1. Story(f, s, stage, mh, txn)  BY <2>2 DEF LifeInv
    <3>. HIDE DEF s
    <3>2. DOMAIN s = 1 .. Len(s) /\ Len(s) \in Nat  BY <2>f
    <3>3. ASSUME NEW i \in DOMAIN s, s[i].event \in {"on_request_header", "on_request_body"}
          PROVE  /\ Wants(f, "process") => before(i, "on_process_init")
                 /\ Wants(f, "connect") => before(i, "on_connect_init")
                 /\ ~before(i, "on_connect_exit")
      <4>1. i \in 1 .. Len(s)  BY <3>2
      <4>2. Wants(f, "process") => 1 \in DOMAIN s /\ s[1].event = "on_process_init" /\ 1 < i
        <5>1. Wants(f, "process") => Len(s) >= 1 /\ s[1].event = "on_process_init"
          BY <3>1 DEF Story
        <5>2. Wants(f, "process") => i # 1  BY <5>1, <3>3
        <5>. QED  BY <5>1, <5>2, <4>1, <3>2
      <4>3. Wants(f, "connect") =>
              /\ ConnectAt(f) \in DOMAIN s /\ s[ConnectAt(f)].event = "on_connect_init"
              /\ ConnectAt(f) < i
        <5>0. stage # "accept"
          <6>. SUFFICES ASSUME stage = "accept"  PROVE FALSE
            OBVIOUS
          <6>1. Len(s) = ConnectAt(f) - 1  BY <3>1 DEF Story
          <6>2. Wants(f, "process") /\ i = 1  BY <6>1, <4>1 DEF ConnectAt
          <6>. QED  BY <6>2, <4>2
        <5>1. Wants(f, "connect") =>
                Len(s) >= ConnectAt(f) /\ s[ConnectAt(f)].event = "on_connect_init"
          BY <3>1, <5>0 DEF Story
        <5>2. Wants(f, "connect") => i # ConnectAt(f)  BY <5>1, <3>3
        <5>3. ConnectAt(f) = IF Wants(f, "process") THEN 2 ELSE 1  BY DEF ConnectAt
        <5>4. Wants(f, "process") => i # 1  BY <4>2
        <5>. QED  BY <5>1, <5>2, <5>3, <5>4, <4>1, <3>2
      <4>4. \A j \in DOMAIN s : s[j].event = "on_connect_exit" => ~(j < i)
        <5>1. \A j \in DOMAIN s : s[j].event = "on_connect_exit" => j = Len(s)
          BY <3>1 DEF Story
        <5>. QED  BY <5>1, <4>1, <3>2
      <4>. QED  BY <4>2, <4>3, <4>4
    <3>4. Wants(f, "header") => \A i \in at("on_request_body") :
            \E j \in at("on_request_header") : j < i /\ s[j].txn = s[i].txn
      BY <3>1 DEF Story
    <3>5. ASSUME stage = "closed"
          PROVE  Cardinality(at("on_connect_init")) = Cardinality(at("on_connect_exit"))
      <4>1. CASE Wants(f, "connect")
        <5>1. /\ Len(s) >= ConnectAt(f) /\ s[ConnectAt(f)].event = "on_connect_init"
              /\ \A i \in DOMAIN s : s[i].event = "on_connect_init" => i = ConnectAt(f)
              /\ \A i \in DOMAIN s : s[i].event = "on_connect_exit" => i = Len(s)
              /\ Len(s) >= 1 /\ s[Len(s)].event = "on_connect_exit"
          BY <3>1, <3>5, <4>1 DEF Story
        <5>2. ConnectAt(f) \in DOMAIN s /\ Len(s) \in DOMAIN s
          <6>1. ConnectAt(f) \in 1 .. 2  BY DEF ConnectAt
          <6>. QED  BY <5>1, <6>1, <3>2
        <5>3. at("on_connect_init") = {ConnectAt(f)} /\ at("on_connect_exit") = {Len(s)}
          BY <5>1, <5>2
        <5>. HIDE DEF at
        <5>. QED  BY <5>3, FS_Singleton
      <4>2. CASE ~Wants(f, "connect")
        <5>1. at("on_connect_init") = {} /\ at("on_connect_exit") = {}
          BY <3>1, <4>2 DEF Story
        <5>. QED  BY <5>1
      <4>. QED  BY <4>1, <4>2
    <3>. QED  BY <3>3, <3>4, <3>5 DEF s, Wants
  <2>. QED  BY <2>1, <2>2
<1>. QED  BY <1>1, InitLife, StepLife, PTL DEF Spec
-----------------------------------------------------------------------------
(* lpmtree *)

LEMMA PrefixFacts ==
  ASSUME NEW C, NEW s \in Seq(C), NEW n \in 0 .. Len(s)
  PROVE  /\ Prefix(s, n) \in Seq(C) /\ Len(Prefix(s, n)) = n
         /\ \A i \in 1 .. n : Prefix(s, n)[i] = s[i]
         /\ n = Len(s) => Prefix(s, n) = s
         /\ n = 0 => Prefix(s, n) = <<>>
<1>1. Len(s) \in Nat  OBVIOUS
<1>2. Prefix(s, n) = [i \in 1 .. n |-> s[i]]  BY <1>1 DEF Prefix
<1>3. \A i \in 1 .. n : s[i] \in C  BY <1>1
<1>4. Prefix(s, n) \in Seq(C) /\ Len(Prefix(s, n)) = n  BY <1>1, <1>2, <1>3
<1>5. n = Len(s) => Prefix(s, n) = s  BY <1>2
<1>6. n = 0 => Prefix(s, n) = <<>>  BY <1>2
<1>. QED  BY <1>2, <1>4, <1>5, <1>6

LEMMA PrefixOfPrefix ==
  ASSUME NEW C, NEW s \in Seq(C), NEW n \in 0 .. Len(s), NEW m \in 0 .. n
  PROVE  Prefix(Prefix(s, n), m) = Prefix(s, m)
<1>1. Len(s) \in Nat /\ m \in 0 .. Len(s)  OBVIOUS
<1>2. PICK p \in Seq(C) : p = Prefix(s, n) /\ Len(p) = n /\ \A i \in 1 .. n : p[i] = s[i]
  BY PrefixFacts
<1>3. Prefix(p, m) = [i \in 1 .. m |-> p[i]] /\ Prefix(s, m) = [i \in 1 .. m |-> s[i]]
  BY <1>1, <1>2 DEF Prefix
<1>4. \A i \in 1 .. m : p[i] = s[i]  BY <1>1, <1>2
<1>. QED  BY <1>2, <1>3, <1>4

\* A series of insertions.
Series(s, C, V) == Len(s) \in Nat /\ \A i \in 1 .. Len(s) : s[i][1] \in Seq(C) /\ s[i][2] \in V

\* The tree after the first k insertions: its nodes are the prefixes of what was
\* inserted, their values the last ones inserted, and every value is kept once.
NodesAre(N, s, k) ==
  \A p : p \in N <=> \/ p = <<>>
                     \/ \E i \in 1 .. k : \E n \in 0 .. Len(s[i][1]) : p = Prefix(s[i][1], n)

LastValue(N, f, s, k) ==
  /\ \A p \in N : (\A i \in 1 .. k : s[i][1] # p) => f[p] = Null
  /\ \A p \in N : \A i \in 1 .. k :
       s[i][1] = p /\ (\A j \in i + 1 .. k : s[j][1] # p) => f[p] = <<s[i][2]>>

KeptOnce(w, s, k, V) ==
  /\ w \in Seq(V)
  /\ \A a, b \in DOMAIN w : w[a] = w[b] => a = b
  /\ \A v : (\E a \in DOMAIN w : w[a] = v) <=> \E i \in 1 .. k : s[i][2] = v

Holds(t, s, k, V) ==
  NodesAre(t.nodes, s, k) /\ LastValue(t.nodes, t.value, s, k) /\ KeptOnce(t.values_, s, k, V)

LEMMA HoldsFirst ==
  ASSUME NEW s, NEW V
  PROVE  Holds(EmptyTree, s, 0, V)
<1>1. PICK t : t = EmptyTree  OBVIOUS
<1>2. t.nodes = {<<>>} /\ t.value = [n \in {<<>>} |-> Null] /\ t.values_ = <<>>
  BY <1>1 DEF EmptyTree
<1>3. 1 .. 0 = {} /\ DOMAIN t.values_ = {} /\ t.values_ \in Seq(V)  BY <1>2
<1>4. \A p \in t.nodes : t.value[p] = Null  BY <1>2
<1>. QED  BY <1>1, <1>2, <1>3, <1>4 DEF Holds, NodesAre, LastValue, KeptOnce

LEMMA HoldsNext ==
  ASSUME NEW C, NEW V, NEW s, Series(s, C, V), NEW k \in 0 .. Len(s) - 1, NEW t, Holds(t, s, k, V)
  PROVE  Holds(insert(t, s[k + 1][1], s[k + 1][2]), s, k + 1, V)
<1>1. PICK q \in Seq(C) : q = s[k + 1][1]  BY DEF Series
<1>2. PICK v \in V : v = s[k + 1][2]  BY DEF Series
<1>3. k \in Nat /\ 1 .. k + 1 = 1 .. k \cup {k + 1}  BY DEF Series
<1>4. PICK N : N = t.nodes \cup {Prefix(q, n) : n \in 0 .. Len(q)}  OBVIOUS
<1>5. PICK u : u = insert(t, q, v)  OBVIOUS
<1>6. PICK f : f = [p \in N |-> IF p = q THEN <<v>>
                                ELSE IF p \in t.nodes THEN t.value[p] ELSE Null]
  OBVIOUS
<1>7. PICK w : w = IF \E i \in DOMAIN t.values_ : t.values_[i] = v
                   THEN t.values_ ELSE Append(t.values_, v)
  OBVIOUS
<1>8. u = [nodes |-> N, value |-> f, values_ |-> w]  BY <1>4, <1>5, <1>6, <1>7 DEF insert
<1>9. u.nodes = N /\ u.value = f /\ u.values_ = w  BY <1>8
<1>10. \A p : p \in N <=> \/ p = <<>>
                          \/ \E i \in 1 .. k + 1 : \E n \in 0 .. Len(s[i][1]) : p = Prefix(s[i][1], n)
  <2>1. \A p : p \in t.nodes <=> \/ p = <<>>
                \/ \E i \in 1 .. k : \E n \in 0 .. Len(s[i][1]) : p = Prefix(s[i][1], n)
    BY DEF Holds, NodesAre, LastValue, KeptOnce
  <2>2. \A p : p \in N <=> p \in t.nodes \/ \E n \in 0 .. Len(q) : p = Prefix(q, n)  BY <1>4
  <2>. QED  BY <1>1, <1>3, <2>1, <2>2
<1>11. q \in N
  <2>1. Len(q) \in 0 .. Len(q) /\ Prefix(q, Len(q)) = q  BY <1>1, PrefixFacts
  <2>. QED  BY <1>4, <2>1
<1>12. ASSUME NEW p \in N, \A i \in 1 .. k + 1 : s[i][1] # p  PROVE f[p] = Null
  <2>1. p # q /\ \A i \in 1 .. k : s[i][1] # p  BY <1>1, <1>3, <1>12
  <2>2. p \in t.nodes => t.value[p] = Null  BY <2>1 DEF Holds, NodesAre, LastValue, KeptOnce
  <2>. QED  BY <1>6, <2>1, <2>2
<1>13. ASSUME NEW p \in N, NEW i \in 1 .. k + 1, s[i][1] = p, \A j \in i + 1 .. k + 1 : s[j][1] # p
       PROVE  f[p] = <<s[i][2]>>
  <2>1. CASE i = k + 1  BY <1>1, <1>2, <1>6, <1>13, <2>1
  <2>2. CASE i # k + 1
    <3>1. i \in 1 .. k /\ k + 1 \in i + 1 .. k + 1 /\ \A j \in i + 1 .. k : j \in i + 1 .. k + 1
      BY <1>3, <2>2
    <3>2. p # q  BY <1>1, <1>13, <3>1
    <3>3. p \in t.nodes
      <4>1. p \in Seq(C) /\ Len(p) \in 0 .. Len(p)  BY <1>3, <1>13, <3>1 DEF Series
      <4>2. Prefix(p, Len(p)) = p  BY <4>1, PrefixFacts
      <4>. QED  BY <1>13, <3>1, <4>1, <4>2 DEF Holds, NodesAre, LastValue, KeptOnce
    <3>4. t.value[p] = <<s[i][2]>>  BY <1>13, <3>1, <3>3 DEF Holds, NodesAre, LastValue, KeptOnce
    <3>. QED  BY <1>6, <3>2, <3>3, <3>4
  <2>. QED  BY <2>1, <2>2
<1>14. PICK o : o = t.values_  OBVIOUS
<1>15. /\ o \in Seq(V) /\ \A a, b \in DOMAIN o : o[a] = o[b] => a = b
       /\ \A z : (\E a \in DOMAIN o : o[a] = z) <=> \E i \in 1 .. k : s[i][2] = z
  BY <1>14 DEF Holds, NodesAre, LastValue, KeptOnce
<1>16. /\ w \in Seq(V) /\ \A a, b \in DOMAIN w : w[a] = w[b] => a = b
       /\ \A z : (\E a \in DOMAIN w : w[a] = z) <=> (\E a \in DOMAIN o : o[a] = z) \/ z = v
  <2>1. CASE \E i \in DOMAIN o : o[i] = v  BY <1>7, <1>14, <1>15, <2>1
  <2>2. CASE ~\E i \in DOMAIN o : o[i] = v
    <3>1. w = Append(o, v)  BY <1>7, <1>14, <2>2
    <3>2. PICK L \in Nat : L = Len(o) /\ DOMAIN o = 1 .. L  BY <1>15
    <3>3. /\ w \in Seq(V) /\ DOMAIN w = 1 .. L + 1 /\ w[L + 1] = v
          /\ \A a \in 1 .. L : w[a] = o[a]
      BY <1>2, <1>15, <3>1, <3>2
    <3>4. 1 .. L + 1 = 1 .. L \cup {L + 1}  BY <3>2
    <3>5. ASSUME NEW a \in DOMAIN w, NEW b \in DOMAIN w, w[a] = w[b]  PROVE a = b
      <4>1. (a \in 1 .. L \/ a = L + 1) /\ (b \in 1 .. L \/ b = L + 1)  BY <3>3, <3>4
      <4>2. \A c \in 1 .. L : o[c] # v  BY <2>2, <3>2
      <4>. QED  BY <1>15, <3>2, <3>3, <3>5, <4>1, <4>2
    <3>6. ASSUME NEW z
          PROVE  (\E a \in DOMAIN w : w[a] = z) <=> (\E a \in DOMAIN o : o[a] = z) \/ z = v
      BY <3>2, <3>3, <3>4
    <3>. QED  BY <3>3, <3>5, <3>6
  <2>. QED  BY <2>1, <2>2
<1>17. \A z : (\E a \in DOMAIN w : w[a] = z) <=> \E i \in 1 .. k + 1 : s[i][2] = z
  BY <1>2, <1>3, <1>15, <1>16
<1>18. NodesAre(N, s, k + 1)  BY <1>10 DEF NodesAre
<1>19. LastValue(N, f, s, k + 1)  BY <1>12, <1>13 DEF LastValue
<1>20. KeptOnce(w, s, k + 1, V)  BY <1>16, <1>17 DEF KeptOnce
<1>. QED  BY <1>1, <1>2, <1>5, <1>9, <1>18, <1>19, <1>20 DEF Holds

\* f has the trees after 0 to n insertions.
Trees(s, n, f) ==
  f = [i \in 0 .. n |-> IF i = 0 THEN EmptyTree ELSE insert(f[i - 1], s[i][1], s[i][2])]

LEMMA TreesAt ==
  ASSUME NEW s, NEW n \in Nat, NEW f, Trees(s, n, f)
  PROVE  /\ DOMAIN f = 0 .. n /\ f[0] = EmptyTree
         /\ \A i \in 1 .. n : f[i] = insert(f[i - 1], s[i][1], s[i][2])
<1>1. f = [i \in 0 .. n |-> IF i = 0 THEN EmptyTree ELSE insert(f[i - 1], s[i][1], s[i][2])]
  BY DEF Trees
<1>2. \A i \in 0 .. n : f[i] = IF i = 0 THEN EmptyTree ELSE insert(f[i - 1], s[i][1], s[i][2])
  BY <1>1
<1>3. DOMAIN f = 0 .. n  BY <1>1
<1>4. 0 \in 0 .. n /\ \A i \in 1 .. n : i \in 0 .. n /\ i # 0  OBVIOUS
<1>. QED  BY <1>2, <1>3, <1>4

LEMMA TreesExist ==
  ASSUME NEW s, NEW n \in Nat
  PROVE  \E f : Trees(s, n, f)
<1>. DEFINE G == {k \in Nat : \E f : Trees(s, k, f)}
<1>1. 0 \in G
  <2>1. PICK f : f = [i \in 0 .. 0 |-> EmptyTree]  OBVIOUS
  <2>2. Trees(s, 0, f)  BY <2>1 DEF Trees
  <2>. QED  BY <2>2
<1>2. ASSUME NEW k \in 0 .. n - 1, k \in G  PROVE k + 1 \in G
  <2>1. PICK f : Trees(s, k, f)  BY <1>2
  <2>2. k \in Nat  OBVIOUS
  <2>3. /\ DOMAIN f = 0 .. k /\ f[0] = EmptyTree
        /\ \A i \in 1 .. k : f[i] = insert(f[i - 1], s[i][1], s[i][2])
    BY <2>1, <2>2, TreesAt
  <2>4. PICK e : e = insert(f[k], s[k + 1][1], s[k + 1][2])  OBVIOUS
  <2>5. PICK g : g = [i \in 0 .. k + 1 |-> IF i = k + 1 THEN e ELSE f[i]]  OBVIOUS
  <2>6. /\ g[k + 1] = e /\ \A i \in 0 .. k : g[i] = f[i]
    <3>1. k + 1 \in 0 .. k + 1 /\ \A i \in 0 .. k : i \in 0 .. k + 1 /\ i # k + 1  BY <2>2
    <3>. QED  BY <2>5, <3>1
  <2>7. ASSUME NEW i \in 0 .. k + 1
        PROVE  g[i] = IF i = 0 THEN EmptyTree ELSE insert(g[i - 1], s[i][1], s[i][2])
    <3>1. CASE i = k + 1
      <4>1. i # 0 /\ i - 1 = k /\ k \in 0 .. k  BY <2>2, <3>1
      <4>. QED  BY <2>4, <2>6, <3>1, <4>1
    <3>2. CASE i = 0
      <4>1. i \in 0 .. k  BY <2>2, <3>2
      <4>. QED  BY <2>3, <2>6, <3>2, <4>1
    <3>3. CASE i # 0 /\ i # k + 1
      <4>1. i \in 1 .. k /\ i \in 0 .. k /\ i - 1 \in 0 .. k  BY <2>2, <3>3
      <4>. QED  BY <2>3, <2>6, <3>3, <4>1
    <3>. QED  BY <3>1, <3>2, <3>3
  <2>8. g = [i \in 0 .. k + 1 |-> g[i]]  BY <2>5
  <2>9. Trees(s, k + 1, g)  BY <2>7, <2>8 DEF Trees
  <2>. QED  BY <2>2, <2>9
<1>3. n \in G
  <2>1. G \in SUBSET Nat  OBVIOUS
  <2>. HIDE DEF G
  <2>2. \A k \in 0 .. n : k \in G  BY <1>1, <1>2, <2>1, Steps
  <2>. QED  BY <2>2
<1>. QED  BY <1>3

\* The whole tree.
LEMMA GrownHolds ==
  ASSUME NEW C, NEW V, NEW s, Series(s, C, V)
  PROVE  Holds(Grown(s), s, Len(s), V)
<1>1. PICK n \in Nat : n = Len(s)  BY DEF Series
<1>. DEFINE f == CHOOSE g : Trees(s, n, g)
<1>2. Trees(s, n, f)  BY <1>1, TreesExist
<1>3. Grown(s) = f[n]  BY <1>1 DEF Grown, Trees
<1>. HIDE DEF f
<1>4. f[0] = EmptyTree /\ \A i \in 1 .. n : f[i] = insert(f[i - 1], s[i][1], s[i][2])
  BY <1>2, TreesAt
<1>. DEFINE G == {k \in Nat : Holds(f[k], s, k, V)}
<1>5. 0 \in G  BY <1>4, HoldsFirst
<1>6. ASSUME NEW k \in 0 .. n - 1, k \in G  PROVE k + 1 \in G
  <2>1. k \in Nat /\ k + 1 \in Nat /\ k + 1 \in 1 .. n /\ k + 1 - 1 = k  BY <1>1
  <2>2. Holds(f[k], s, k, V)  BY <1>6
  <2>3. f[k + 1] = insert(f[k], s[k + 1][1], s[k + 1][2])  BY <1>4, <2>1
  <2>4. Holds(f[k + 1], s, k + 1, V)  BY <1>1, <2>2, <2>3, HoldsNext
  <2>. QED  BY <2>1, <2>4
<1>7. n \in G
  <2>1. G \in SUBSET Nat  OBVIOUS
  <2>. HIDE DEF G
  <2>2. \A k \in 0 .. n : k \in G  BY <1>5, <1>6, <2>1, Steps
  <2>. QED  BY <2>2
<1>. QED  BY <1>1, <1>3, <1>7

\* A walk down the tree meets a value after n characters if one was inserted there.
LEMMA Met ==
  ASSUME NEW C, NEW V, NEW s, Series(s, C, V), NEW t, Holds(t, s, Len(s), V),
         NEW u \in Seq(C), NEW n \in 1 .. Len(u)
  PROVE  /\ (\A m \in 1 .. n : Prefix(u, m) \in t.nodes) /\ t.value[Prefix(u, n)] # Null
              <=> \E i \in 1 .. Len(s) : s[i][1] = Prefix(u, n)
         /\ \A i \in 1 .. Len(s) :
              s[i][1] = Prefix(u, n) /\ (\A j \in i + 1 .. Len(s) : s[j][1] # Prefix(u, n)) =>
                t.value[Prefix(u, n)] = <<s[i][2]>>
<1>1. PICK N \in Nat : N = Len(s)  BY DEF Series
<1>2. PICK p \in Seq(C) : p = Prefix(u, n) /\ Len(p) = n
  <2>1. n \in 0 .. Len(u)  OBVIOUS
  <2>. QED  BY <2>1, PrefixFacts
<1>3. NodesAre(t.nodes, s, N) /\ LastValue(t.nodes, t.value, s, N)  BY <1>1 DEF Holds
<1>4. ASSUME NEW i \in 1 .. N, s[i][1] = p, NEW m \in 0 .. n
      PROVE  Prefix(u, m) \in t.nodes
  <2>1. Prefix(u, m) = Prefix(p, m)
    <3>1. n \in 0 .. Len(u)  OBVIOUS
    <3>. QED  BY <1>2, <1>4, <3>1, PrefixOfPrefix
  <2>2. m \in 0 .. Len(s[i][1])  BY <1>2, <1>4
  <2>. QED  BY <1>3, <1>4, <2>1, <2>2 DEF NodesAre
<1>5. ASSUME NEW i \in 1 .. N, s[i][1] = p
      PROVE  (\A m \in 1 .. n : Prefix(u, m) \in t.nodes) /\ t.value[p] # Null
  <2>1. \A m \in 1 .. n : m \in 0 .. n  OBVIOUS
  <2>2. \A m \in 1 .. n : Prefix(u, m) \in t.nodes  BY <1>4, <1>5, <2>1
  <2>3. n \in 1 .. n  OBVIOUS
  <2>4. p \in t.nodes  BY <1>2, <2>2, <2>3
  <2>5. PICK A : A = {j \in 1 .. N : s[j][1] = p}  OBVIOUS
  <2>6. A \in SUBSET (1 .. N) /\ A # {} /\ A \in SUBSET Nat  BY <1>5, <2>5
  <2>7. PICK k \in A : \A j \in A : k >= j  BY <1>1, <2>6, MaxExists
  <2>8. k \in 1 .. N /\ s[k][1] = p  BY <2>5
  <2>9. ASSUME NEW j \in k + 1 .. N, s[j][1] = p  PROVE FALSE
    <3>1. j \in 1 .. N /\ ~(k >= j)  BY <1>1, <2>8
    <3>. QED  BY <2>5, <2>7, <2>9, <3>1
  <2>10. t.value[p] = <<s[k][2]>>  BY <1>3, <2>4, <2>8, <2>9 DEF LastValue
  <2>11. <<s[k][2]>> # Null  BY DEF Null
  <2>. QED  BY <2>2, <2>10, <2>11
<1>6. ASSUME \A m \in 1 .. n : Prefix(u, m) \in t.nodes, t.value[p] # Null
      PROVE  \E i \in 1 .. N : s[i][1] = p
  <2>1. n \in 1 .. n  OBVIOUS
  <2>2. p \in t.nodes  BY <1>2, <1>6, <2>1
  <2>. QED  BY <1>3, <1>6, <2>2 DEF LastValue
<1>7. ASSUME NEW i \in 1 .. N, s[i][1] = p, \A j \in i + 1 .. N : s[j][1] # p
      PROVE  t.value[p] = <<s[i][2]>>
  <2>1. n \in 0 .. n  OBVIOUS
  <2>2. p \in t.nodes  BY <1>2, <1>4, <1>7, <2>1
  <2>. QED  BY <1>3, <1>7, <2>2 DEF LastValue
<1>. QED  BY <1>1, <1>2, <1>5, <1>6, <1>7

\* search() finds the last value under the longest prefix.
LEMMA SearchFacts ==
  ASSUME NEW C, NEW V, NEW s, Series(s, C, V), DOMAIN s = 1 .. Len(s),
         NEW t, Holds(t, s, Len(s), V), NEW u \in Seq(C)
  PROVE  search(t, u) = LongestPrefix(s, u)
<1>1. PICK N \in Nat : N = Len(s)  BY DEF Series
<1>2. PICK L \in Nat : L = Len(u)  OBVIOUS
<1>3. PICK met : met = {n \in 1 .. L : /\ \A m \in 1 .. n : Prefix(u, m) \in t.nodes
                                       /\ t.value[Prefix(u, n)] # Null}
  OBVIOUS
<1>4. PICK hits : hits = {i \in 1 .. N : s[i][1] # <<>> /\ IsPrefix(s[i][1], u)}  OBVIOUS
<1>5. search(t, u) = IF met = {} THEN [found |-> Null, prefix |-> <<>>]
                     ELSE [found |-> t.value[Prefix(u, Max(met))], prefix |-> Prefix(u, Max(met))]
  BY <1>2, <1>3 DEF search
<1>. DEFINE Best(i) == \A j \in hits : \/ Len(s[j][1]) < Len(s[i][1])
                                       \/ Len(s[j][1]) = Len(s[i][1]) /\ j <= i
            best == CHOOSE i \in hits : Best(i)
<1>6. LongestPrefix(s, u) = IF hits = {} THEN [found |-> Null, prefix |-> <<>>]
                            ELSE [found |-> <<s[best][2]>>, prefix |-> s[best][1]]
  BY <1>1, <1>4 DEF LongestPrefix
<1>7. ASSUME NEW i \in 1 .. N
      PROVE  /\ s[i][1] \in Seq(C) /\ Len(s[i][1]) \in Nat
             /\ i \in hits <=> Len(s[i][1]) \in 1 .. L /\ s[i][1] = Prefix(u, Len(s[i][1]))
  <2>1. PICK p \in Seq(C) : p = s[i][1]  BY <1>1 DEF Series
  <2>2. PICK l \in Nat : l = Len(p)  BY <2>1
  <2>3. SubSeq(p, 1, Len(p)) = p
    <3>1. l \in 0 .. Len(p) /\ Prefix(p, l) = p  BY <2>2, PrefixFacts
    <3>. QED  BY <2>2, <3>1 DEF Prefix
  <2>4. IsPrefix(p, u) <=> l <= L /\ p = Prefix(u, l)
    BY <1>2, <2>2, <2>3 DEF IsPrefix, Prefix
  <2>5. p # <<>> <=> l # 0  BY <2>1, <2>2
  <2>6. l # 0 /\ l <= L <=> l \in 1 .. L  BY <1>2, <2>2
  <2>7. i \in hits <=> p # <<>> /\ IsPrefix(p, u)  BY <1>4, <2>1
  <2>. QED  BY <2>1, <2>2, <2>4, <2>5, <2>6, <2>7
<1>8. ASSUME NEW n \in 1 .. L
      PROVE  /\ n \in met <=> \E i \in 1 .. N : s[i][1] = Prefix(u, n)
             /\ Len(Prefix(u, n)) = n
             /\ \A i \in 1 .. N :
                  s[i][1] = Prefix(u, n) /\ (\A j \in i + 1 .. N : s[j][1] # Prefix(u, n)) =>
                    t.value[Prefix(u, n)] = <<s[i][2]>>
  <2>1. n \in 1 .. Len(u) /\ n \in 0 .. Len(u)  BY <1>2
  <2>2. Len(Prefix(u, n)) = n  BY <2>1, PrefixFacts
  <2>3. /\ (\A m \in 1 .. n : Prefix(u, m) \in t.nodes) /\ t.value[Prefix(u, n)] # Null
              <=> \E i \in 1 .. N : s[i][1] = Prefix(u, n)
        /\ \A i \in 1 .. N :
              s[i][1] = Prefix(u, n) /\ (\A j \in i + 1 .. N : s[j][1] # Prefix(u, n)) =>
                t.value[Prefix(u, n)] = <<s[i][2]>>
    BY <1>1, <2>1, Met
  <2>. QED  BY <1>3, <2>2, <2>3
<1>9. ASSUME NEW i \in hits  PROVE Len(s[i][1]) \in met /\ i \in 1 .. N
  <2>1. i \in 1 .. N  BY <1>4
  <2>. QED  BY <1>7, <1>8, <2>1
<1>10. ASSUME NEW n \in met  PROVE \E i \in hits : s[i][1] = Prefix(u, n) /\ Len(s[i][1]) = n
  <2>1. n \in 1 .. L  BY <1>3
  <2>2. PICK i \in 1 .. N : s[i][1] = Prefix(u, n)  BY <1>8, <1>10, <2>1
  <2>3. Len(s[i][1]) = n  BY <1>8, <2>1, <2>2
  <2>4. i \in hits  BY <1>7, <2>1, <2>2, <2>3
  <2>. QED  BY <2>2, <2>3, <2>4
<1>11. CASE hits = {}
  <2>1. met = {}  BY <1>10, <1>11
  <2>. QED  BY <1>5, <1>6, <1>11, <2>1
<1>12. CASE hits # {}
  <2>1. met # {} /\ met \in SUBSET (1 .. L)  BY <1>3, <1>9, <1>12
  <2>2. PICK M \in met : M = Max(met) /\ \A n \in met : M >= n  BY <1>2, <2>1, MaxExists
  <2>3. M \in 1 .. L /\ M \in Nat  BY <1>2, <2>1
  <2>4. PICK D : D = {i \in hits : Len(s[i][1]) = M}  OBVIOUS
  <2>5. D \in SUBSET (1 .. N) /\ D # {}  BY <1>9, <1>10, <2>2, <2>4
  <2>6. PICK J \in D : \A i \in D : J >= i  BY <1>1, <2>5, MaxExists
  <2>7. J \in hits /\ J \in 1 .. N /\ Len(s[J][1]) = M /\ s[J][1] = Prefix(u, M)
    <3>1. J \in hits /\ J \in 1 .. N /\ Len(s[J][1]) = M  BY <1>9, <2>4
    <3>. QED  BY <1>7, <3>1
  <2>8. \A j \in hits : Len(s[j][1]) \in Nat /\ M >= Len(s[j][1]) /\ j \in 1 .. N
    BY <1>7, <1>9, <2>2
  <2>9. Best(J)
    <3>. SUFFICES ASSUME NEW j \in hits
         PROVE  \/ Len(s[j][1]) < Len(s[J][1])
                \/ Len(s[j][1]) = Len(s[J][1]) /\ j <= J
      OBVIOUS
    <3>1. CASE Len(s[j][1]) = M
      <4>1. j \in D  BY <2>4, <3>1
      <4>2. j <= J  BY <1>1, <2>6, <2>7, <2>8, <4>1
      <4>. QED  BY <2>7, <3>1, <4>2
    <3>2. CASE Len(s[j][1]) # M
      <4>1. Len(s[j][1]) < M  BY <2>3, <2>8, <3>2
      <4>. QED  BY <2>7, <4>1
    <3>. QED  BY <3>1, <3>2
  <2>10. ASSUME NEW i \in hits, Best(i)  PROVE i = J
    <3>1. \/ Len(s[J][1]) < Len(s[i][1])
          \/ Len(s[J][1]) = Len(s[i][1]) /\ J <= i
      BY <2>7, <2>10
    <3>2. Len(s[i][1]) = M /\ J <= i  BY <2>3, <2>7, <2>8, <3>1
    <3>3. J >= i  BY <2>4, <2>6, <3>2
    <3>4. i \in 1 .. N /\ J \in 1 .. N  BY <2>7, <2>8
    <3>. QED  BY <1>1, <3>2, <3>3, <3>4
  <2>11. best = J  BY <2>7, <2>9, <2>10
  <2>. HIDE DEF best, Best
  <2>12. ASSUME NEW j \in J + 1 .. N, s[j][1] = Prefix(u, M)  PROVE FALSE
    <3>1. j \in 1 .. N /\ ~(J >= j)  BY <1>1, <2>7
    <3>2. Len(s[j][1]) = M  BY <1>8, <2>3, <2>12
    <3>3. j \in hits  BY <1>7, <2>3, <2>12, <3>1, <3>2
    <3>. QED  BY <2>4, <2>6, <3>1, <3>2, <3>3
  <2>13. t.value[Prefix(u, M)] = <<s[J][2]>>  BY <1>8, <2>3, <2>7, <2>12
  <2>. QED  BY <1>5, <1>6, <1>12, <2>1, <2>2, <2>7, <2>11, <2>13
<1>. QED  BY <1>11, <1>12

\* values() has the values of the series, each once.
LEMMA ValuesFacts ==
  ASSUME NEW V, NEW s, NEW k, NEW w, KeptOnce(w, s, k, V), NEW A, A = {s[i][2] : i \in 1 .. k}
  PROVE  ToSet(w) = A /\ Len(w) = Cardinality(A)
<1>1. ToSet(w) = A
  <2>1. \A z : z \in ToSet(w) <=> \E a \in DOMAIN w : w[a] = z  BY DEF ToSet
  <2>2. \A z : z \in A <=> \E i \in 1 .. k : s[i][2] = z  OBVIOUS
  <2>3. \A z : (\E a \in DOMAIN w : w[a] = z) <=> \E i \in 1 .. k : s[i][2] = z  BY DEF KeptOnce
  <2>. QED  BY <2>1, <2>2, <2>3
<1>2. PICK n \in Nat : n = Len(w) /\ DOMAIN w = 1 .. n  BY DEF KeptOnce
<1>3. w \in [1 .. n -> A]
  <2>1. w = [a \in 1 .. n |-> w[a]]  BY <1>2 DEF KeptOnce
  <2>2. \A a \in 1 .. n : w[a] \in A  BY <1>1, <1>2 DEF ToSet
  <2>. QED  BY <2>1, <2>2
<1>4. \A a, b \in 1 .. n : w[a] = w[b] => a = b  BY <1>2 DEF KeptOnce
<1>5. \A z \in A : \E a \in 1 .. n : w[a] = z  BY <1>1, <1>2 DEF ToSet
<1>6. w \in Bijection(1 .. n, A)
  BY <1>3, <1>4, <1>5 DEF Bijection, Injection, Surjection, IsInjective
<1>7. ExistsBijection(1 .. n, A)  BY <1>6 DEF ExistsBijection
<1>8. Cardinality(A) = n  BY <1>7, FS_CountingElements
<1>. QED  BY <1>1, <1>2, <1>8

\* The tree over the paths of the modules, in the order of their creation.
LEMMA TreeOfModules == TableInv => TreeMatchesLongest
<1>. SUFFICES ASSUME TableInv  PROVE TreeMatchesLongest
  OBVIOUS
<1>1. PICK N \in Nat : N = Len(created) /\ DOMAIN created = 1 .. N  BY Typing
<1>2. PICK s : s = [i \in DOMAIN created |-> <<Library[created[i]].path, created[i]>>]  OBVIOUS
<1>3. ASSUME NEW i \in 1 .. N
      PROVE  /\ s[i] = <<Library[created[i]].path, created[i]>>
             /\ s[i][1] \in Seq(STRING) /\ s[i][2] = created[i] /\ created[i] \in Files
  <2>1. s[i] = <<Library[created[i]].path, created[i]>>  BY <1>1, <1>2
  <2>2. created[i] \in Files /\ PathOf(i) \in Seq(STRING)  BY <1>1, Typing
  <2>. QED  BY <2>1, <2>2 DEF PathOf
<1>4. s \in Seq(Seq(STRING) \X Files) /\ Len(s) = N /\ DOMAIN s = 1 .. N
  <2>1. s = [i \in 1 .. N |-> s[i]]  BY <1>1, <1>2
  <2>2. \A i \in 1 .. N : s[i] \in Seq(STRING) \X Files
    <3>. SUFFICES ASSUME NEW i \in 1 .. N  PROVE s[i] \in Seq(STRING) \X Files
      OBVIOUS
    <3>1. Library[created[i]].path \in Seq(STRING) /\ created[i] \in Files
      BY <1>3, LibraryAssumption
    <3>2. PICK a \in Seq(STRING), b \in Files : a = Library[created[i]].path /\ b = created[i]
      BY <3>1
    <3>3. s[i] = <<a, b>>  BY <1>3, <3>2
    <3>. QED  BY <3>2, <3>3
  <2>. QED  BY <1>1, <2>1, <2>2
<1>5. Series(s, STRING, Files)  BY <1>1, <1>3, <1>4 DEF Series
<1>6. PICK t : t = Grown(s)  OBVIOUS
<1>7. Holds(t, s, Len(s), Files)  BY <1>5, <1>6, GrownHolds
<1>8. ASSUME NEW r \in DOMAIN Stream
      PROVE  search(t, Stream[r].url) = LongestPrefix(s, Stream[r].url)
  <2>1. Stream[r] \in Request  BY StreamAssumption
  <2>2. Stream[r].url \in Seq(STRING)  BY <2>1 DEF Request
  <2>. QED  BY <1>4, <1>5, <1>7, <2>2, SearchFacts
<1>9. PICK A : A = ToSet(created)  OBVIOUS
<1>10. ToSet(t.values_) = A /\ Len(t.values_) = Cardinality(A)
  <2>1. A = {s[i][2] : i \in 1 .. N}
    <3>1. A = {created[i] : i \in 1 .. N}  BY <1>1, <1>9 DEF ToSet
    <3>2. \A i \in 1 .. N : s[i][2] = created[i]  BY <1>3
    <3>. QED  BY <3>1, <3>2
  <2>2. KeptOnce(t.values_, s, N, Files)  BY <1>4, <1>7 DEF Holds
  <2>. QED  BY <2>1, <2>2, ValuesFacts
<1>. QED  BY <1>2, <1>6, <1>8, <1>9, <1>10 DEF TreeMatchesLongest

\* search() of lpmtree finds the value inserted last under the longest prefix of
\* any URL under which one was inserted, and values() has each value once, for
\* whatever modules are created, in whatever order.
THEOREM TreeFindsLongest == Spec => []TreeMatchesLongest
<1>1. Spec => []TableInv
  <2>1. IInv => TableInv  BY DEF IInv
  <2>. QED  BY <2>1, InitIInv, StepIInv, PTL DEF Spec
<1>. QED  BY <1>1, TreeOfModules, PTL
=============================================================================
