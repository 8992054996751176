----------------------- MODULE SessionLifecycleProofs -----------------------
(***************************************************************************)
(* Theorems about SessionLifecycle, for every value of its constants.      *)
(***************************************************************************)
EXTENDS SessionLifecycle, FiniteSetTheorems, SequenceTheorems, TLAPS

-----------------------------------------------------------------------------
(* The inductive invariant.                                                *)

\* Whoever is asked for a broker gets this one, or is about to.
Kept(b) == singleton = b \/ (startup.broker = b /\ startup.at \in {"starting", "publishing", "proxying"})

\* The entries of ops by a caller that somebody waits for.
Awaited == {"startup", "shutdown"} \cup Closures
Closers == {"startup", "shutdown"}

\* Of the calls o of a broker: one of them is the stop() of a client in C; each
\* start() comes before one; one of them is by a client; those awaited are single.
Closes(x, C)  == x.op = "stop" /\ x.by \in C
Closed(o, C)  == \E i \in 1 .. Len(o) : Closes(o[i], C)
Covered(o, C) ==
    \A i \in 1 .. Len(o) : o[i].op = "start" =>
        \E j \in 1 .. Len(o) : i < j /\ Closes(o[j], C)
Noted(o, by)  == \E i \in 1 .. Len(o) : o[i].by = by
Single(o) ==
    \A i, j \in 1 .. Len(o) : o[i].by = o[j].by /\ o[i].by \in Awaited => i = j

\* A broker that competes, or will when a start() ends, is kept, or stopped
\* afterwards by a startup or a shutdown.
KeptAt(b) ==
    /\ Heals(b) => Kept(b)
    /\ owner = b => Kept(b) \/ Closed(ops[b], Closers)
    /\ kind[b] = "primary" => Kept(b) \/ Covered(ops[b], Closers)

\* Who waits for a call waits for no other, and says so.
CallsAt(b) ==
    /\ Noted(ops[b], "startup") => startup.broker = b
    /\ Noted(ops[b], "shutdown") => shutdownAt = "stop"
    /\ \A g \in Closures : Noted(ops[b], g) => suspendAt[g] = "stop"
    /\ Single(ops[b])
CallsInv ==
    /\ \A b \in Brokers : CallsAt(b)
    /\ \A by \in {"shutdown"} \cup Closures : \A b, c \in Brokers :
          Noted(ops[b], by) /\ Noted(ops[c], by) => b = c

Start == [op |-> "start", by |-> "startup"]
Stop  == [op |-> "stop", by |-> "startup"]

\* Where the startup is suspended says what its broker has under way.
StartupInv ==
    /\ startup.at # "none" => singleton = None
    /\ startup.at \in {"starting", "proxying"} => ops[startup.broker] = <<Start>>
    /\ startup.at = "starting" => kind[startup.broker] = "primary" /\ owner # startup.broker
    /\ startup.at = "publishing" => ops[startup.broker] = <<>>
    /\ startup.at \in {"cleaning", "cancelling"} => ops[startup.broker] = <<Stop>>
    /\ shutdownAt = "startup" /\ startup.at # "none" => startup.outdated

\* Only the handle of the latest session is in use, and it has no broker but the
\* singleton; whoever goes on with a broker was just given the singleton.
HandleInv ==
    /\ \A s \in Sessions :
          /\ disposed[s] \/ session = s \/ stage[s] = "none"
          /\ disposed[s] \/ stage[s] = "none" \/ current[s] \in {None, singleton}
          /\ resolving[s] => startup.at # "none"
    /\ \A t \in Threads : pc[t] = "ensuring" =>
          brk[t] # None /\ brk[t] = singleton /\ shutdownAt # "startup"

\* Between sessions there is no broker.
SessionInv ==
    /\ shutdownAt # "none" => session = None
    /\ session = None /\ shutdownAt # "startup" => singleton = None /\ startup.at = "none"

IInv ==
    /\ TypeOK
    /\ StartupInv /\ HandleInv /\ SessionInv /\ CallsInv
    /\ \A b \in Brokers : KeptAt(b)

\* A broker that does not compete, or until the stop() of a closure of onSuspend.
QuietAt(b) ==
    /\ ~Heals(b)
    /\ owner = b => Closed(ops[b], Closures)
    /\ kind[b] = "primary" => Covered(ops[b], Closures)

\* A closure that will stop the singleton when the startup is over and cancelled.
WillStop(g) ==
    /\ suspendAt[g] = "startup" /\ suspended[g] = singleton
    /\ startup.at # "none" => startup.outdated

Quiet == startup.at = "none" /\ \A b \in Brokers : QuietAt(b)

\* Without tool calls: a process that is being suspended starts nothing, and what
\* competes is stopped by a closure that then suspends the process.
SuspendInv ==
    /\ shutdownAt # "none" => ~handlers
    /\ suspending =>
          /\ shutdownAt = "none" /\ shuttingDown
          /\ \A t \in Threads : pc[t] # "ensuring"
          /\ (\E g \in Closures : WillStop(g)) \/ Quiet

-----------------------------------------------------------------------------
(* The calls on a broker.                                                  *)

Entry == [op : {"start", "stop"}, by : Clients]

\* RemoveAt() takes out one element and keeps the others in their order.
LEMMA RemoveAtProperties ==
    ASSUME NEW S, NEW s \in Seq(S), NEW k \in DOMAIN s
    PROVE  /\ RemoveAt(s, k) \in Seq(S)
           /\ Len(RemoveAt(s, k)) = Len(s) - 1
           /\ \A i \in 1..(Len(s) - 1) :
                 RemoveAt(s, k)[i] = IF i < k THEN s[i] ELSE s[i + 1]
<1> DEFINE front == SubSeq(s, 1, k - 1)
           back  == SubSeq(s, k + 1, Len(s))
<1>1. Len(s) \in Nat /\ k \in 1..Len(s) /\ \A i \in 1..Len(s) : s[i] \in S
  BY LenProperties, ElementOfSeq
<1>2. /\ front \in Seq(S) /\ Len(front) = k - 1
      /\ \A i \in 1..(k - 1) : front[i] = s[i]
  <2>1. 1 \in Int /\ k - 1 \in Int /\ \A i \in 1..(k - 1) : s[i] \in S
    BY <1>1
  <2>2. /\ SubSeq(s, 1, k - 1) \in Seq(S)
        /\ Len(SubSeq(s, 1, k - 1)) = IF 1 <= k - 1 THEN (k - 1) - 1 + 1 ELSE 0
        /\ \A i \in 1..((k - 1) - 1 + 1) : SubSeq(s, 1, k - 1)[i] = s[1 + i - 1]
    BY <2>1, SubSeqProperties
  <2> QED  BY <1>1, <2>2
<1>3. /\ back \in Seq(S) /\ Len(back) = Len(s) - k
      /\ \A i \in 1..(Len(s) - k) : back[i] = s[k + i]
  <2>1. k + 1 \in Int /\ Len(s) \in Int /\ \A i \in (k + 1)..Len(s) : s[i] \in S
    BY <1>1
  <2>2. /\ SubSeq(s, k + 1, Len(s)) \in Seq(S)
        /\ Len(SubSeq(s, k + 1, Len(s)))
             = IF k + 1 <= Len(s) THEN Len(s) - (k + 1) + 1 ELSE 0
        /\ \A i \in 1..(Len(s) - (k + 1) + 1) :
              SubSeq(s, k + 1, Len(s))[i] = s[(k + 1) + i - 1]
    BY <2>1, SubSeqProperties
  <2> QED  BY <1>1, <2>2
<1> HIDE DEF front, back
<1>4. /\ front \o back \in Seq(S)
      /\ Len(front \o back) = Len(front) + Len(back)
      /\ \A i \in 1..(Len(front) + Len(back)) :
            (front \o back)[i] = IF i <= Len(front) THEN front[i] ELSE back[i - Len(front)]
  BY <1>2, <1>3, ConcatProperties, Zenon
<1>5. RemoveAt(s, k) = front \o back
  BY DEF RemoveAt, front, back
<1>6. Len(front) + Len(back) = Len(s) - 1
  BY <1>1, <1>2, <1>3
<1>7. /\ RemoveAt(s, k) \in Seq(S) /\ Len(RemoveAt(s, k)) = Len(s) - 1
      /\ \A i \in 1..(Len(s) - 1) :
            RemoveAt(s, k)[i] = IF i <= Len(front) THEN front[i] ELSE back[i - Len(front)]
  BY <1>4, <1>5, <1>6, Zenon
<1>8. ASSUME NEW i \in 1..(Len(s) - 1)
      PROVE  RemoveAt(s, k)[i] = IF i < k THEN s[i] ELSE s[i + 1]
  <2>1. CASE i < k
    <3>1. i \in 1..(k - 1) /\ i <= Len(front)
      BY <1>1, <1>2, <2>1
    <3> QED  BY <1>2, <1>7, <2>1, <3>1
  <2>2. CASE i >= k
    <3>1. /\ i - Len(front) \in 1..(Len(s) - k) /\ ~(i <= Len(front))
          /\ k + (i - Len(front)) = i + 1
      BY <1>1, <1>2, <2>2
    <3>2. back[i - Len(front)] = s[i + 1]
      BY <1>3, <3>1
    <3> QED  BY <1>1, <1>7, <2>2, <3>1, <3>2
  <2> QED  BY <1>1, <2>1, <2>2
<1> QED  BY <1>7, <1>8

LEMMA RemoveFacts ==
    ASSUME NEW S, NEW o \in Seq(S), NEW i \in 1 .. Len(o)
    PROVE  /\ RemoveAt(o, i) \in Seq(S) /\ Len(RemoveAt(o, i)) = Len(o) - 1
           /\ \A k \in 1 .. (Len(o) - 1) : RemoveAt(o, i)[k] = IF k < i THEN o[k] ELSE o[k + 1]
           /\ Len(o) \in Nat
BY RemoveAtProperties, LenProperties

LEMMA AppendFacts ==
    ASSUME NEW S, NEW o \in Seq(S), NEW x \in S
    PROVE  /\ Append(o, x) \in Seq(S) /\ Len(Append(o, x)) = Len(o) + 1
           /\ \A i \in 1 .. Len(o) : Append(o, x)[i] = o[i]
           /\ Append(o, x)[Len(o) + 1] = x
           /\ Len(o) \in Nat
OBVIOUS

\* A call is made.
LEMMA Appended ==
    ASSUME NEW o \in Seq(Entry), NEW x \in Entry, NEW C
    PROVE  /\ Append(o, x) \in Seq(Entry)
           /\ Closes(x, C) => Closed(Append(o, x), C) /\ Covered(Append(o, x), C)
           /\ Closed(o, C) => Closed(Append(o, x), C)
           /\ x.op = "stop" /\ Covered(o, C) => Covered(Append(o, x), C)
           /\ \A by : Noted(Append(o, x), by) <=> Noted(o, by) \/ x.by = by
           /\ Single(o) /\ (x.by \in Awaited => ~Noted(o, x.by)) => Single(Append(o, x))
<1> DEFINE a == Append(o, x)
<1>1. /\ a \in Seq(Entry) /\ Len(a) = Len(o) + 1 /\ a[Len(o) + 1] = x
      /\ \A i \in 1 .. Len(o) : a[i] = o[i]
      /\ Len(o) \in Nat
  BY AppendFacts
<1>2. /\ Len(a) \in 1 .. Len(a) /\ a[Len(a)] = x
      /\ \A i \in 1 .. Len(a) : i \in 1 .. Len(o) \/ i = Len(a)
      /\ \A i \in 1 .. Len(o) : i \in 1 .. Len(a) /\ i < Len(a)
  BY <1>1
<1> HIDE DEF a
<1>3. Closed(o, C) => Closed(a, C)
  BY <1>1, <1>2 DEF Closed
<1>4. Closes(x, C) => Closed(a, C)
  BY <1>2 DEF Closed
<1>5. Closes(x, C) => Covered(a, C)
  <2>1. Closes(x, C) => x.op # "start"
    BY DEF Closes
  <2> QED  BY <1>2, <2>1 DEF Covered
<1>6. x.op = "stop" /\ Covered(o, C) => Covered(a, C)
  BY <1>1, <1>2 DEF Covered
<1>7. \A by : Noted(a, by) <=> Noted(o, by) \/ x.by = by
  BY <1>1, <1>2 DEF Noted
<1>8. Single(o) /\ (x.by \in Awaited => ~Noted(o, x.by)) => Single(a)
  BY <1>1, <1>2 DEF Single, Noted
<1> QED  BY <1>1, <1>3, <1>4, <1>5, <1>6, <1>7, <1>8 DEF a

\* A call is over.
LEMMA Removed ==
    ASSUME NEW o \in Seq(Entry), NEW i \in 1 .. Len(o), NEW C
    PROVE  /\ RemoveAt(o, i) \in Seq(Entry)
           /\ ~Closes(o[i], C) /\ Closed(o, C) => Closed(RemoveAt(o, i), C)
           /\ (~Closes(o[i], C) \/ i = 1) /\ Covered(o, C) => Covered(RemoveAt(o, i), C)
           /\ \A by : Noted(RemoveAt(o, i), by) => Noted(o, by)
           /\ Noted(o, o[i].by)
           /\ Single(o) => /\ Single(RemoveAt(o, i))
                           /\ o[i].by \in Awaited => ~Noted(RemoveAt(o, i), o[i].by)
<1> DEFINE a == RemoveAt(o, i)
           Old(k) == IF k < i THEN k ELSE k + 1
           New(k) == IF k < i THEN k ELSE k - 1
<1>1. /\ a \in Seq(Entry) /\ Len(a) = Len(o) - 1 /\ Len(o) \in Nat
      /\ \A k \in 1 .. (Len(o) - 1) : a[k] = IF k < i THEN o[k] ELSE o[k + 1]
  BY RemoveFacts
<1> HIDE DEF a
<1>2. \A k \in 1 .. Len(a) : Old(k) \in 1 .. Len(o) /\ Old(k) # i /\ a[k] = o[Old(k)]
  BY <1>1
<1>3. \A k \in 1 .. Len(o) : k # i => New(k) \in 1 .. Len(a) /\ a[New(k)] = o[k]
  BY <1>1
<1>4. \A j, k \in 1 .. Len(a) : Old(j) = Old(k) => j = k
  BY <1>1
<1>5. \A j \in 1 .. Len(a) : \A k \in 1 .. Len(o) : k # i /\ Old(j) < k => j < New(k)
  BY <1>1
<1> HIDE DEF Old, New
<1>6. ~Closes(o[i], C) /\ Closed(o, C) => Closed(a, C)
  BY <1>3 DEF Closed
<1>7. ASSUME ~Closes(o[i], C) \/ i = 1, Covered(o, C)
      PROVE  Covered(a, C)
  <2>1. ASSUME NEW k \in 1 .. Len(a), a[k].op = "start"
        PROVE  \E j \in 1 .. Len(a) : k < j /\ Closes(a[j], C)
    <3>1. PICK j \in 1 .. Len(o) : Old(k) < j /\ Closes(o[j], C)
      BY <1>2, <1>7, <2>1 DEF Covered
    <3>2. j # i
      BY <1>1, <1>2, <1>7, <3>1
    <3> QED  BY <1>3, <1>5, <3>1, <3>2
  <2> QED  BY <2>1 DEF Covered
<1>8. \A by : Noted(a, by) => Noted(o, by)
  BY <1>2 DEF Noted
<1>9. Single(o) => Single(a)
  BY <1>2, <1>4 DEF Single
<1>10. Single(o) /\ o[i].by \in Awaited => ~Noted(a, o[i].by)
  BY <1>2 DEF Single, Noted
<1>11. Noted(o, o[i].by)
  BY DEF Noted
<1> QED  BY <1>1, <1>6, <1>7, <1>8, <1>9, <1>10, <1>11 DEF a

\* The calls of a broker of which nothing is expected, and of a candidate.
LEMMA FewCalls ==
    ASSUME NEW x \in Entry, NEW C
    PROVE  /\ <<>> \in Seq(Entry) /\ Covered(<<>>, C) /\ Single(<<>>) /\ \A by : ~Noted(<<>>, by)
           /\ <<x>> \in Seq(Entry) /\ Single(<<x>>) /\ \A by : Noted(<<x>>, by) <=> x.by = by
           /\ Append(<<>>, x) = <<x>> /\ RemoveAt(<<x>>, 1) = <<>>
           /\ Len(<<x>>) = 1 /\ <<x>>[1] = x
<1>1. <<>> \in Seq(Entry) /\ Covered(<<>>, C) /\ Single(<<>>) /\ \A by : ~Noted(<<>>, by)
  BY DEF Covered, Single, Noted
<1>2. <<x>> \in Seq(Entry) /\ Len(<<x>>) = 1 /\ <<x>>[1] = x /\ Append(<<>>, x) = <<x>>
  OBVIOUS
<1>3. \A i \in 1 .. 1 : i = 1
  OBVIOUS
<1>4. Single(<<x>>) /\ \A by : Noted(<<x>>, by) <=> x.by = by
  BY <1>2, <1>3 DEF Single, Noted
<1>5. RemoveAt(<<x>>, 1) = <<>>
  <2>1. RemoveAt(<<x>>, 1) \in Seq(Entry) /\ Len(RemoveAt(<<x>>, 1)) = 0
    <3>1. 1 \in 1 .. Len(<<x>>)
      BY <1>2
    <3>2. Len(RemoveAt(<<x>>, 1)) = Len(<<x>>) - 1 /\ RemoveAt(<<x>>, 1) \in Seq(Entry)
      BY <1>2, <3>1, RemoveFacts
    <3> QED  BY <1>2, <3>2
  <2> QED  BY <2>1
<1> QED  BY <1>1, <1>2, <1>4, <1>5

-----------------------------------------------------------------------------
(* Types.                                                                  *)

Startups == [at : {"retiring", "starting", "publishing", "proxying", "cleaning", "cancelling"},
             broker : Brokers, outdated : BOOLEAN]
Stages   == {"none", "preparing", "acquiring", "live", "over"}
Points   == {"idle", "resolving", "ensuring", "rebinding", "bridging"}

PortTypes    == owner \in Brokers \cup {Other, Foreign, None} /\ moves \in 0..MaxMoves
BrokerTypes  == /\ kind \in [Brokers -> {"none", "primary", "proxy"}]
                /\ up \in [Brokers -> BOOLEAN] /\ stopped \in [Brokers -> BOOLEAN]
                /\ ops \in [Brokers -> Seq(Entry)]
AcquireTypes == singleton \in Brokers \cup {None} /\ (startup = Idle \/ startup \in Startups)
ProcessTypes == /\ shuttingDown \in BOOLEAN /\ suspending \in BOOLEAN
                /\ handlers \in BOOLEAN /\ frozen \in BOOLEAN
                /\ session \in Sessions \cup {None}
                /\ shutdownAt \in {"none", "startup", "stop", "unpublish"}
                /\ suspendAt \in [Closures -> {"none", "startup", "stop", "freeze"}]
                /\ suspended \in [Closures -> Brokers \cup {None}]
HandleTypes  == /\ stage \in [Sessions -> Stages]
                /\ disposed \in [Sessions -> BOOLEAN] /\ resolving \in [Sessions -> BOOLEAN]
                /\ current \in [Sessions -> Brokers \cup {None}]
ThreadTypes  == pc \in [Threads -> Points] /\ brk \in [Threads -> Brokers \cup {None}]
Awaiting     == /\ \A s \in Sessions : stage[s] = "acquiring" => startup # Idle
                /\ \A t \in Threads : pc[t] = "resolving" => startup # Idle

LEMMA TypeParts ==
    TypeOK <=> PortTypes /\ BrokerTypes /\ AcquireTypes /\ ProcessTypes /\ HandleTypes
               /\ ThreadTypes /\ Awaiting
BY DEF TypeOK, PortTypes, BrokerTypes, AcquireTypes, ProcessTypes, HandleTypes, ThreadTypes,
       Awaiting, Startups, Stages, Points, Entry

LEMMA PartsNext ==
    ASSUME PortTypes', BrokerTypes', AcquireTypes', ProcessTypes', HandleTypes', ThreadTypes',
           Awaiting'
    PROVE  TypeOK'
BY DEF TypeOK, PortTypes, BrokerTypes, AcquireTypes, ProcessTypes, HandleTypes, ThreadTypes,
       Awaiting, Startups, Stages, Points, Entry

LEMMA PartsSame ==
    /\ PortTypes /\ UNCHANGED portVars => PortTypes'
    /\ BrokerTypes /\ UNCHANGED brokerVars => BrokerTypes'
    /\ AcquireTypes /\ UNCHANGED acquireVars => AcquireTypes'
    /\ ProcessTypes /\ UNCHANGED processVars => ProcessTypes'
    /\ HandleTypes /\ UNCHANGED handleVars => HandleTypes'
    /\ ThreadTypes /\ UNCHANGED threadVars => ThreadTypes'
<1>1. PortTypes /\ UNCHANGED portVars => PortTypes'
  BY DEF PortTypes, portVars
<1>2. BrokerTypes /\ UNCHANGED brokerVars => BrokerTypes'
  BY DEF BrokerTypes, brokerVars
<1>3. AcquireTypes /\ UNCHANGED acquireVars => AcquireTypes'
  BY DEF AcquireTypes, acquireVars
<1>4. ProcessTypes /\ UNCHANGED processVars => ProcessTypes'
  BY DEF ProcessTypes, processVars
<1>5. HandleTypes /\ UNCHANGED handleVars => HandleTypes'
  BY DEF HandleTypes, handleVars
<1>6. ThreadTypes /\ UNCHANGED threadVars => ThreadTypes'
  BY DEF ThreadTypes, threadVars
<1> QED  BY <1>1, <1>2, <1>3, <1>4, <1>5, <1>6

\* What is told apart.
LEMMA Apart ==
    /\ None \notin Brokers /\ Other \notin Brokers /\ Foreign \notin Brokers
    /\ None # Other /\ None # Foreign /\ Other # Foreign
    /\ None \notin Sessions /\ MaxMoves \in Nat
    /\ (Threads \cup Closures) \cap {"startup", "shutdown", "resume"} = {}
    /\ Threads \cap Closures = {}
    /\ Threads \cup Closures \cup {"startup", "shutdown", "resume"} \subseteq Clients
    /\ \A t \in Threads : Of(t) \in Sessions
<1>1. None # Other /\ None # Foreign /\ Other # Foreign
  <2>1. Cardinality({Other, Foreign, None}) = 3
    BY LifecycleAssumption
  <2>2. ASSUME NEW a, NEW b
        PROVE  Cardinality({a, b}) <= 2
    <3>1. IsFiniteSet({b}) /\ Cardinality({b}) = 1
      BY FS_Singleton
    <3>2. /\ Cardinality({b} \cup {a}) = IF a \in {b} THEN Cardinality({b})
                                         ELSE Cardinality({b}) + 1
      BY <3>1, FS_AddElement
    <3>3. {b} \cup {a} = {a, b}
      OBVIOUS
    <3> QED  BY <3>1, <3>2, <3>3
  <2>3. CASE None = Other
    <3>1. {Other, Foreign, None} = {Foreign, None}
      BY <2>3
    <3>2. Cardinality({Foreign, None}) <= 2
      BY <2>2
    <3>3. Cardinality({Foreign, None}) = 3
      BY <2>1, <3>1
    <3> QED  BY <3>2, <3>3
  <2>4. CASE None = Foreign
    <3>1. {Other, Foreign, None} = {Other, None}
      BY <2>4
    <3>2. Cardinality({Other, None}) <= 2
      BY <2>2
    <3>3. Cardinality({Other, None}) = 3
      BY <2>1, <3>1
    <3> QED  BY <3>2, <3>3
  <2>5. CASE Other = Foreign
    <3>1. {Other, Foreign, None} = {Other, None}
      BY <2>5
    <3>2. Cardinality({Other, None}) <= 2
      BY <2>2
    <3>3. Cardinality({Other, None}) = 3
      BY <2>1, <3>1
    <3> QED  BY <3>2, <3>3
  <2> QED  BY <2>3, <2>4, <2>5
<1> QED  BY <1>1, LifecycleAssumption DEF Threads, Clients, Of

\* Where the startup is.
LEMMA StartupFacts ==
    ASSUME AcquireTypes
    PROVE  /\ startup = Idle <=> startup.at = "none"
           /\ startup.at = "none" <=> startup.broker = None
           /\ startup.at # "none" => startup \in Startups
           /\ startup.broker \in Brokers \cup {None} /\ startup.outdated \in BOOLEAN
           /\ startup.at \in {"none", "retiring", "starting", "publishing", "proxying",
                              "cleaning", "cancelling"}
           /\ singleton \in Brokers \cup {None}
<1>1. Idle.at = "none" /\ Idle.broker = None /\ Idle.outdated = FALSE
  BY DEF Idle
<1>2. CASE startup = Idle
  BY <1>1, <1>2 DEF AcquireTypes
<1>3. CASE startup \in Startups
  BY <1>1, <1>3, Apart DEF AcquireTypes, Startups
<1> QED  BY <1>2, <1>3 DEF AcquireTypes

\* What the invariant says of one broker.
LEMMA BrokerFacts ==
    ASSUME TypeOK, NEW b \in Brokers
    PROVE  /\ ops[b] \in Seq(Entry) /\ Len(ops[b]) \in Nat
           /\ \A i \in 1 .. Len(ops[b]) : ops[b][i] \in Entry
           /\ DOMAIN ops[b] = 1 .. Len(ops[b])
           /\ kind[b] \in {"none", "primary", "proxy"}
           /\ stopped[b] \in BOOLEAN /\ up[b] \in BOOLEAN
<1>1. BrokerTypes
  BY TypeParts
<1>2. ops[b] \in Seq(Entry)
  BY <1>1 DEF BrokerTypes
<1> QED  BY <1>1, <1>2 DEF BrokerTypes

-----------------------------------------------------------------------------
(* Steps that begin and end calls on brokers.                              *)

LEMMA ClosureFacts ==
    \A g \in Closures : g # "startup" /\ g # "shutdown" /\ g \in Clients
BY Apart

LEMMA InvParts ==
    ASSUME IInv
    PROVE  /\ TypeOK /\ PortTypes /\ BrokerTypes /\ AcquireTypes /\ ProcessTypes /\ HandleTypes
           /\ ThreadTypes /\ Awaiting
           /\ StartupInv /\ HandleInv /\ SessionInv /\ CallsInv
           /\ \A b \in Brokers : KeptAt(b)
BY TypeParts DEF IInv

\* Nothing is noted that was not, and who noted it still waits.
LEMMA CallsFewer ==
    ASSUME CallsInv, \A d \in Brokers : Single(ops'[d]),
           \A d \in Brokers, by \in Awaited : Noted(ops'[d], by) => Noted(ops[d], by),
           startup'.broker = startup.broker \/ \A d \in Brokers : ~Noted(ops'[d], "startup"),
           \/ shutdownAt' = shutdownAt \/ shutdownAt # "stop"
           \/ \A d \in Brokers : ~Noted(ops'[d], "shutdown"),
           \A g \in Closures :
              \/ suspendAt'[g] = suspendAt[g] \/ suspendAt[g] # "stop"
              \/ \A d \in Brokers : ~Noted(ops'[d], g)
    PROVE  CallsInv'
<1>1. "startup" \in Awaited /\ "shutdown" \in Awaited /\ Closures \subseteq Awaited
  BY DEF Awaited
<1>2. ASSUME NEW d \in Brokers
      PROVE  CallsAt(d)'
  BY <1>1 DEF CallsInv, CallsAt
<1>3. \A by \in {"shutdown"} \cup Closures : \A b, c \in Brokers :
          Noted(ops'[b], by) /\ Noted(ops'[c], by) => b = c
  BY <1>1 DEF CallsInv
<1> QED  BY <1>2, <1>3 DEF CallsInv

\* No call begins or ends.
LEMMA CallsRest ==
    ASSUME CallsInv, ops' = ops,
           startup'.broker = startup.broker \/ \A d \in Brokers : ~Noted(ops[d], "startup"),
           shutdownAt' = shutdownAt \/ shutdownAt # "stop",
           \A g \in Closures : suspendAt'[g] = suspendAt[g] \/ suspendAt[g] # "stop"
    PROVE  CallsInv'
BY CallsFewer DEF CallsInv, CallsAt

\* A call ends.
LEMMA CallsEnd ==
    ASSUME TypeOK, CallsInv, NEW b \in Brokers, NEW i \in DOMAIN ops[b], Ended(b, i),
           startup'.broker = startup.broker \/ ops[b][i].by = "startup",
           shutdownAt' = shutdownAt \/ shutdownAt # "stop" \/ ops[b][i].by = "shutdown",
           \A g \in Closures :
              suspendAt'[g] = suspendAt[g] \/ suspendAt[g] # "stop" \/ ops[b][i].by = g
    PROVE  /\ CallsInv' /\ ops' \in [Brokers -> Seq(Entry)]
           /\ ops'[b] = RemoveAt(ops[b], i) /\ \A d \in Brokers \ {b} : ops'[d] = ops[d]
           /\ ops[b][i].by \in Awaited => \A d \in Brokers : ~Noted(ops'[d], ops[b][i].by)
<1> DEFINE by == ops[b][i].by
<1>1. /\ ops \in [Brokers -> Seq(Entry)] /\ ops[b] \in Seq(Entry) /\ i \in 1 .. Len(ops[b])
  BY TypeParts, BrokerFacts DEF BrokerTypes
<1>2. /\ RemoveAt(ops[b], i) \in Seq(Entry) /\ Noted(ops[b], by)
      /\ \A any : Noted(RemoveAt(ops[b], i), any) => Noted(ops[b], any)
      /\ Single(ops[b]) => /\ Single(RemoveAt(ops[b], i))
                           /\ by \in Awaited => ~Noted(RemoveAt(ops[b], i), by)
  BY <1>1, Removed
<1>3. /\ ops' \in [Brokers -> Seq(Entry)] /\ ops'[b] = RemoveAt(ops[b], i)
      /\ \A d \in Brokers \ {b} : ops'[d] = ops[d]
  BY <1>1, <1>2 DEF Ended
<1>4. \A d \in Brokers : Single(ops[d])
  BY DEF CallsInv, CallsAt
<1> HIDE DEF by
<1>5. by \in Awaited => \A d \in Brokers \ {b} : ~Noted(ops[d], by)
  BY <1>2 DEF CallsInv, CallsAt, Awaited
<1>6. by \in Awaited => \A d \in Brokers : ~Noted(ops'[d], by)
  BY <1>2, <1>3, <1>4, <1>5
<1>7. /\ \A d \in Brokers : Single(ops'[d])
      /\ \A d \in Brokers, any \in Awaited : Noted(ops'[d], any) => Noted(ops[d], any)
  BY <1>2, <1>3, <1>4
<1>8. "startup" \in Awaited /\ "shutdown" \in Awaited /\ Closures \subseteq Awaited
  BY DEF Awaited
<1>9. CallsInv'
  <2>1. /\ startup'.broker = startup.broker \/ by = "startup"
        /\ shutdownAt' = shutdownAt \/ shutdownAt # "stop" \/ by = "shutdown"
        /\ \A g \in Closures :
              suspendAt'[g] = suspendAt[g] \/ suspendAt[g] # "stop" \/ by = g
    BY DEF by
  <2>2. startup'.broker = startup.broker \/ \A d \in Brokers : ~Noted(ops'[d], "startup")
    BY <1>6, <1>8, <2>1
  <2>3. \/ shutdownAt' = shutdownAt \/ shutdownAt # "stop"
        \/ \A d \in Brokers : ~Noted(ops'[d], "shutdown")
    BY <1>6, <1>8, <2>1
  <2>4. \A g \in Closures :
           \/ suspendAt'[g] = suspendAt[g] \/ suspendAt[g] # "stop"
           \/ \A d \in Brokers : ~Noted(ops'[d], g)
    BY <1>6, <1>8, <2>1
  <2> QED  BY <1>7, <2>2, <2>3, <2>4, CallsFewer
<1> QED  BY <1>3, <1>6, <1>9 DEF by

\* A call begins.
LEMMA CallsMade ==
    ASSUME TypeOK, CallsInv, NEW b \in Brokers, NEW op \in {"start", "stop"}, NEW by \in Clients,
           Call(b, op, by), by \in Awaited => \A d \in Brokers : ~Noted(ops[d], by),
           startup'.broker = IF by = "startup" THEN b ELSE startup.broker,
           shutdownAt' = IF by = "shutdown" THEN "stop" ELSE shutdownAt,
           \A g \in Closures : suspendAt'[g] = IF by = g THEN "stop" ELSE suspendAt[g]
    PROVE  /\ CallsInv' /\ ops' \in [Brokers -> Seq(Entry)]
           /\ ops'[b] = Append(ops[b], [op |-> op, by |-> by])
           /\ \A d \in Brokers \ {b} : ops'[d] = ops[d]
<1> DEFINE x == [op |-> op, by |-> by]
<1>1. x \in Entry /\ x.by = by
  BY DEF Entry
<1>2. ops \in [Brokers -> Seq(Entry)] /\ ops[b] \in Seq(Entry)
  BY TypeParts, BrokerFacts DEF BrokerTypes
<1>3. ops' = [ops EXCEPT ![b] = Append(ops[b], x)]
  BY DEF Call
<1> HIDE DEF x
<1>4. /\ Append(ops[b], x) \in Seq(Entry)
      /\ \A any : Noted(Append(ops[b], x), any) <=> Noted(ops[b], any) \/ any = by
      /\ Single(ops[b]) /\ (by \in Awaited => ~Noted(ops[b], by)) => Single(Append(ops[b], x))
  BY <1>1, <1>2, Appended
<1>5. /\ ops' \in [Brokers -> Seq(Entry)] /\ ops'[b] = Append(ops[b], x)
      /\ \A d \in Brokers \ {b} : ops'[d] = ops[d]
  BY <1>2, <1>3, <1>4
<1>6. "startup" \in Awaited /\ "shutdown" \in Awaited /\ Closures \subseteq Awaited
  BY DEF Awaited
<1>7. ASSUME NEW d \in Brokers
      PROVE  CallsAt(d)'
  <2>1. CallsAt(d)
    BY DEF CallsInv
  <2>2. CASE d = b
    BY <1>4, <1>5, <1>6, <2>1, <2>2 DEF CallsAt
  <2>3. CASE d # b
    <3>1. ops'[d] = ops[d] /\ (by \in Awaited => ~Noted(ops[d], by))
      BY <1>5, <2>3
    <3> QED  BY <1>6, <2>1, <3>1 DEF CallsAt
  <2> QED  BY <2>2, <2>3
<1>8. ASSUME NEW any \in {"shutdown"} \cup Closures, NEW c \in Brokers, NEW d \in Brokers,
             Noted(ops'[c], any), Noted(ops'[d], any)
      PROVE  c = d
  <2>1. CASE any = by
    <3>1. \A e \in Brokers \ {b} : ~Noted(ops'[e], any)
      BY <1>5, <1>6, <2>1
    <3> QED  BY <1>8, <3>1
  <2>2. CASE any # by
    <3>1. Noted(ops[c], any) /\ Noted(ops[d], any)
      BY <1>4, <1>5, <1>8, <2>2
    <3> QED  BY <3>1 DEF CallsInv
  <2> QED  BY <2>1, <2>2
<1> QED  BY <1>5, <1>7, <1>8 DEF CallsInv, x

\* The candidate of the startup has one call, by the startup, in place of another or
\* of none.
LEMMA CallsReplaced ==
    ASSUME TypeOK, CallsInv, NEW b \in Brokers, NEW x \in Entry, x.by = "startup",
           ops' \in [Brokers -> Seq(Entry)], ops'[b] = <<x>>, startup'.broker = b,
           \A d \in Brokers \ {b} :
              /\ Single(ops'[d]) /\ ~Noted(ops'[d], "startup")
              /\ \A by \in {"shutdown"} \cup Closures : Noted(ops'[d], by) => Noted(ops[d], by),
           shutdownAt' = shutdownAt, suspendAt' = suspendAt
    PROVE  CallsInv'
<1>1. Single(<<x>>) /\ \A by : Noted(<<x>>, by) <=> by = "startup"
  BY FewCalls
<1>2. ASSUME NEW d \in Brokers
      PROVE  CallsAt(d)'
  <2>1. CASE d = b
    BY <1>1, <2>1, ClosureFacts DEF CallsAt
  <2>2. CASE d # b
    BY <2>2 DEF CallsAt, CallsInv
  <2> QED  BY <2>1, <2>2
<1>3. \A d \in Brokers, by \in {"shutdown"} \cup Closures : Noted(ops'[d], by) => Noted(ops[d], by)
  BY <1>1, ClosureFacts
<1> QED  BY <1>2, <1>3 DEF CallsInv

\* A startup that is not under way has no call under way.
LEMMA NothingBegun ==
    ASSUME TypeOK, CallsInv
    PROVE  /\ startup.at = "none" => \A d \in Brokers : ~Noted(ops[d], "startup")
           /\ shutdownAt # "stop" => \A d \in Brokers : ~Noted(ops[d], "shutdown")
           /\ \A g \in Closures :
                 suspendAt[g] # "stop" => \A d \in Brokers : ~Noted(ops[d], g)
           /\ \A d \in Brokers : d # startup.broker => ~Noted(ops[d], "startup")
<1>1. AcquireTypes
  BY TypeParts
<1>2. startup.at = "none" => startup.broker \notin Brokers
  BY <1>1, StartupFacts, Apart
<1> QED  BY <1>2 DEF CallsInv, CallsAt

LEMMA Whole ==
    ASSUME PortTypes', BrokerTypes', AcquireTypes', ProcessTypes', HandleTypes', ThreadTypes',
           Awaiting', StartupInv', HandleInv', SessionInv', CallsInv',
           \A d \in Brokers : KeptAt(d)'
    PROVE  IInv'
BY PartsNext DEF IInv

\* A broker whose calls stay.
LEMMA KeptRest ==
    ASSUME NEW d \in Brokers, KeptAt(d), ops'[d] = ops[d], kind'[d] = kind[d],
           stopped'[d] = stopped[d], owner' = d => owner = d, Kept(d) => Kept(d)'
    PROVE  KeptAt(d)'
BY DEF KeptAt, Heals

\* A broker that is stopped by someone.
LEMMA KeptStopped ==
    ASSUME TypeOK, NEW b \in Brokers, KeptAt(b), NEW by \in Clients,
           ops'[b] = Append(ops[b], [op |-> "stop", by |-> by]), kind'[b] = kind[b],
           stopped'[b] = (kind[b] = "proxy"), owner' = b => owner = b,
           by \in Closers \/ (Kept(b) => Kept(b)')
    PROVE  KeptAt(b)'
<1> DEFINE x == [op |-> "stop", by |-> by]
<1>1. x \in Entry /\ x.op = "stop" /\ (by \in Closers => Closes(x, Closers))
  BY DEF Entry, Closes
<1>2. ops[b] \in Seq(Entry)
  BY BrokerFacts
<1> HIDE DEF x
<1>3. /\ by \in Closers =>
            Closed(Append(ops[b], x), Closers) /\ Covered(Append(ops[b], x), Closers)
      /\ Closed(ops[b], Closers) => Closed(Append(ops[b], x), Closers)
      /\ Covered(ops[b], Closers) => Covered(Append(ops[b], x), Closers)
  BY <1>1, <1>2, Appended
<1>4. ops'[b] = Append(ops[b], x)
  BY DEF x
<1>5. ~Heals(b)'
  BY DEF Heals
<1>6. CASE by \in Closers
  BY <1>3, <1>4, <1>5, <1>6 DEF KeptAt
<1>7. CASE Kept(b) => Kept(b)'
  BY <1>3, <1>4, <1>5, <1>7 DEF KeptAt
<1> QED  BY <1>6, <1>7

\* What a call that ends was.
LEMMA EndsFacts ==
    ASSUME IInv, NEW b \in Brokers, NEW i \in DOMAIN ops[b], NEW op, NEW by, Ends(b, i, op, by)
    PROVE  /\ i \in 1 .. Len(ops[b]) /\ (kind[b] = "primary" => i = 1)
           /\ ops[b] \in Seq(Entry)
           /\ ops[b][i].op = op /\ ops[b][i].by = by /\ Noted(ops[b], by)
           /\ by = "startup" => startup.broker = b /\ startup.at # "none" /\ singleton = None
           /\ by = "shutdown" => shutdownAt = "stop"
           /\ by \in Closures => suspendAt[by] = "stop"
           /\ by # "startup" /\ startup.broker = b => startup.at = "retiring"
<1>1. /\ TypeOK /\ AcquireTypes /\ StartupInv /\ CallsInv
  BY InvParts
<1>2. /\ i \in 1 .. Len(ops[b]) /\ (kind[b] = "primary" => i = 1)
      /\ ops[b] \in Seq(Entry) /\ ops[b][i].op = op /\ ops[b][i].by = by
  BY <1>1, BrokerFacts DEF Ends
<1>3. Noted(ops[b], by)
  BY <1>2 DEF Noted
<1>4. /\ by = "startup" => startup.broker = b
      /\ by = "shutdown" => shutdownAt = "stop"
      /\ by \in Closures => suspendAt[by] = "stop"
  BY <1>1, <1>3 DEF CallsInv, CallsAt
<1>5. startup.broker = b => startup.at # "none"
  BY <1>1, StartupFacts, Apart
<1>6. startup.at # "none" => singleton = None
  BY <1>1 DEF StartupInv
<1>7. ASSUME by # "startup", startup.broker = b, startup.at # "retiring"
      PROVE  FALSE
  <2>1. ops[b] \in {<<Start>>, <<Stop>>, <<>>}
    BY <1>1, <1>5, <1>7, StartupFacts DEF StartupInv
  <2>2. Start \in Entry /\ Stop \in Entry /\ Start.by = "startup" /\ Stop.by = "startup"
    BY Apart DEF Start, Stop, Entry
  <2>3. ~Noted(<<>>, by) /\ ~Noted(<<Start>>, by) /\ ~Noted(<<Stop>>, by)
    BY <1>7, <2>2, FewCalls
  <2> QED  BY <1>3, <2>1, <2>3
<1> QED  BY <1>2, <1>3, <1>4, <1>5, <1>6, <1>7

\* The only call of a candidate.
LEMMA OnlyCall ==
    ASSUME IInv, NEW b \in Brokers, NEW i \in DOMAIN ops[b], NEW x \in Entry, ops[b] = <<x>>
    PROVE  RemoveAt(ops[b], i) = <<>> /\ i = 1
<1>1. i \in 1 .. Len(<<x>>) /\ Len(<<x>>) = 1
  BY InvParts, BrokerFacts, FewCalls
<1> QED  BY <1>1, FewCalls

\* Released() and Started() keep the types.
LEMMA PortFacts ==
    ASSUME PortTypes, BrokerTypes, NEW b \in Brokers
    PROVE  /\ Released(b) => /\ up' \in [Brokers -> BOOLEAN]
                             /\ owner' \in Brokers \cup {Other, Foreign, None}
                             /\ owner' # b /\ (owner' = owner \/ owner' = None)
           /\ Started(b) => /\ up' \in [Brokers -> BOOLEAN]
                            /\ owner' \in Brokers \cup {Other, Foreign, None}
                            /\ owner' = owner \/ (kind[b] = "primary" /\ owner' = b)
<1>1. ASSUME Released(b)
      PROVE  /\ up' \in [Brokers -> BOOLEAN]
             /\ owner' \in Brokers \cup {Other, Foreign, None}
             /\ owner' # b /\ (owner' = owner \/ owner' = None)
  <2>1. \A c \in Brokers : (up[c] /\ c # b /\ ~(owner = b /\ c \in Linked)) \in BOOLEAN
    OBVIOUS
  <2>2. up' = [c \in Brokers |-> up[c] /\ c # b /\ ~(owner = b /\ c \in Linked)]
    BY <1>1 DEF Released
  <2>3. up' \in [Brokers -> BOOLEAN]
    BY <2>1, <2>2, Zenon
  <2> QED  BY <1>1, <2>3, Apart DEF Released, PortTypes
<1>2. Started(b) => /\ up' \in [Brokers -> BOOLEAN]
                    /\ owner' \in Brokers \cup {Other, Foreign, None}
                    /\ owner' = owner \/ (kind[b] = "primary" /\ owner' = b)
  BY DEF Started, PortTypes, BrokerTypes
<1> QED  BY <1>1, <1>2

\* A stop() is over.
LEMMA StopOver ==
    ASSUME IInv, NEW b \in Brokers, NEW i \in DOMAIN ops[b], NEW by, Ends(b, i, "stop", by),
           Released(b), ops'[b] = RemoveAt(ops[b], i), kind'[b] = kind[b],
           stopped'[b] = stopped[b], Kept(b) => Kept(b)'
    PROVE  KeptAt(b)'
<1>1. /\ i \in 1 .. Len(ops[b]) /\ (kind[b] = "primary" => i = 1) /\ ops[b] \in Seq(Entry)
  BY EndsFacts
<1>2. owner' # b
  BY InvParts, PortFacts
<1>3. i = 1 /\ Covered(ops[b], Closers) => Covered(RemoveAt(ops[b], i), Closers)
  BY <1>1, Removed
<1>4. KeptAt(b)
  BY InvParts
<1> QED  BY <1>1, <1>2, <1>3, <1>4 DEF KeptAt, Heals

\* A start() is over that nobody in Awaited made.
LEMMA StartOver ==
    ASSUME IInv, NEW b \in Brokers, NEW i \in DOMAIN ops[b], NEW by, Ends(b, i, "start", by),
           ops'[b] = RemoveAt(ops[b], i), kind'[b] = kind[b], stopped'[b] = stopped[b],
           Kept(b) => Kept(b)', owner' = owner \/ (kind[b] = "primary" /\ owner' = b)
    PROVE  KeptAt(b)'
<1>1. /\ i \in 1 .. Len(ops[b]) /\ (kind[b] = "primary" => i = 1) /\ ops[b] \in Seq(Entry)
      /\ ops[b][i].op = "start"
  BY EndsFacts
<1>2. ~Closes(ops[b][i], Closers)
  BY <1>1 DEF Closes
<1>3. /\ Covered(ops[b], Closers) => Covered(RemoveAt(ops[b], i), Closers)
      /\ Closed(ops[b], Closers) => Closed(RemoveAt(ops[b], i), Closers)
  BY <1>1, <1>2, Removed
<1>4. Covered(ops[b], Closers) => Closed(ops[b], Closers)
  BY <1>1 DEF Covered, Closed
<1>5. KeptAt(b)
  BY InvParts
<1> QED  BY <1>3, <1>4, <1>5 DEF KeptAt, Heals

-----------------------------------------------------------------------------
(* Steps of the startup.                                                   *)

\* The promise settles.
LEMMA Settled ==
    ASSUME IInv, NEW b \in Brokers \cup {None}, startup.at # "none", Settle(b),
           UNCHANGED processVars, b # None => ~Cancelled
    PROVE  /\ AcquireTypes' /\ HandleTypes' /\ ThreadTypes' /\ ProcessTypes' /\ Awaiting'
           /\ StartupInv' /\ HandleInv' /\ SessionInv'
           /\ startup'.at = "none" /\ startup'.broker = None /\ singleton' = b
           /\ shutdownAt' = shutdownAt /\ suspendAt' = suspendAt
<1>1. /\ AcquireTypes /\ HandleTypes /\ ThreadTypes /\ ProcessTypes
      /\ StartupInv /\ HandleInv /\ SessionInv
  BY InvParts
<1>2. startup' = Idle /\ startup'.at = "none" /\ startup'.broker = None
  BY DEF Settle, Idle
<1>3. singleton = None /\ singleton' = b
  BY <1>1 DEF StartupInv, Settle
<1>4. AcquireTypes'
  BY <1>2, <1>3 DEF AcquireTypes
<1>5. ProcessTypes' /\ shutdownAt' = shutdownAt /\ suspendAt' = suspendAt /\ session' = session
  BY <1>1, PartsSame DEF processVars
<1>6. /\ current' \in [Sessions -> Brokers \cup {None}]
      /\ resolving' \in [Sessions -> BOOLEAN] /\ stage' \in [Sessions -> Stages]
      /\ disposed' = disposed
      /\ \A s \in Sessions :
            /\ ~resolving'[s]
            /\ stage'[s] # "acquiring"
            /\ stage'[s] = "none" <=> stage[s] = "none"
            /\ current'[s] = b \/ current'[s] = current[s]
  BY <1>1 DEF Settle, HandleTypes, Stages
<1>7. HandleTypes'
  BY <1>1, <1>6 DEF HandleTypes
<1>8. /\ pc' \in [Threads -> Points] /\ brk' \in [Threads -> Brokers \cup {None}]
      /\ \A t \in Threads :
            /\ pc'[t] # "resolving"
            /\ pc'[t] = "ensuring" => (b # None /\ brk'[t] = b) \/ pc[t] = "ensuring"
  BY <1>1 DEF Settle, ThreadTypes, Points
<1>9. ThreadTypes' /\ Awaiting'
  BY <1>6, <1>8 DEF ThreadTypes, Awaiting
<1>10. StartupInv'
  BY <1>2 DEF StartupInv
<1>11. HandleInv'
  <2>1. ASSUME NEW s \in Sessions
        PROVE  /\ disposed'[s] \/ session' = s \/ stage'[s] = "none"
               /\ disposed'[s] \/ stage'[s] = "none" \/ current'[s] \in {None, singleton'}
               /\ ~resolving'[s]
    <3>1. /\ disposed[s] \/ session = s \/ stage[s] = "none"
          /\ disposed[s] \/ stage[s] = "none" \/ current[s] = None
      BY <1>1, <1>3 DEF HandleInv
    <3> QED  BY <1>3, <1>5, <1>6, <3>1
  <2>2. ASSUME NEW t \in Threads, pc'[t] = "ensuring"
        PROVE  brk'[t] # None /\ brk'[t] = singleton' /\ shutdownAt' # "startup"
    <3>1. pc[t] # "ensuring"
      BY <1>1, <1>3 DEF HandleInv
    <3>2. b # None /\ brk'[t] = b
      BY <1>8, <2>2, <3>1
    <3>3. shutdownAt # "startup"
      BY <1>1, <3>2 DEF StartupInv, Cancelled
    <3> QED  BY <1>3, <1>5, <3>2, <3>3
  <2> QED  BY <2>1, <2>2 DEF HandleInv
<1>12. SessionInv'
  BY <1>1, <1>5 DEF SessionInv
<1> QED  BY <1>2, <1>3, <1>4, <1>5, <1>7, <1>9, <1>10, <1>11, <1>12

\* The startup goes on, and everybody waits.
LEMMA Waited ==
    ASSUME IInv, startup.at # "none", startup' \in Startups, Waits, UNCHANGED processVars
    PROVE  /\ AcquireTypes' /\ HandleTypes' /\ ThreadTypes' /\ ProcessTypes' /\ Awaiting'
           /\ HandleInv' /\ SessionInv'
           /\ startup'.at # "none" /\ singleton' = None
           /\ shutdownAt' = shutdownAt /\ suspendAt' = suspendAt
<1>1. /\ AcquireTypes /\ HandleTypes /\ ThreadTypes /\ ProcessTypes
      /\ StartupInv /\ HandleInv /\ SessionInv
  BY InvParts
<1>2. AcquireTypes' /\ startup'.at # "none" /\ singleton' = None
  BY <1>1 DEF Waits, AcquireTypes, StartupInv, Startups
<1>3. startup' # Idle
  BY <1>2 DEF Idle
<1>4. /\ HandleTypes' /\ ThreadTypes' /\ ProcessTypes'
      /\ stage' = stage /\ disposed' = disposed /\ current' = current /\ resolving' = resolving
      /\ pc' = pc /\ brk' = brk /\ singleton' = singleton
      /\ shutdownAt' = shutdownAt /\ suspendAt' = suspendAt /\ session' = session
  BY <1>1, PartsSame DEF Waits, handleVars, threadVars, processVars
<1>5. Awaiting'
  BY <1>3 DEF Awaiting
<1>6. HandleInv'
  BY <1>1, <1>2, <1>4 DEF HandleInv
<1>7. SessionInv'
  BY <1>1, <1>4 DEF SessionInv
<1> QED  BY <1>2, <1>4, <1>5, <1>6, <1>7

\* Only the broker of the startup is kept.
LEMMA OnlyCandidate ==
    ASSUME IInv, startup.at # "none", NEW d \in Brokers, d # startup.broker
    PROVE  ~Kept(d)
<1>1. singleton = None
  BY InvParts DEF StartupInv
<1> QED  BY <1>1, Apart DEF Kept

\* Another call: the startup stays as it is but for its point and its broker.
LEMMA GoesOnFacts ==
    ASSUME IInv, startup.at # "none", NEW at
    PROVE  /\ startup \in Startups /\ startup.broker \in Brokers /\ startup.outdated \in BOOLEAN
           /\ shutdownAt = "startup" => startup.outdated
           /\ GoesOn(at) => /\ startup'.at = at /\ startup'.broker = startup.broker
                            /\ startup'.outdated = startup.outdated
                            /\ at \in {"retiring", "starting", "publishing", "proxying",
                                       "cleaning", "cancelling"} => startup' \in Startups
<1>1. startup \in Startups /\ (shutdownAt = "startup" => startup.outdated)
  BY InvParts, StartupFacts DEF StartupInv
<1> QED  BY <1>1 DEF GoesOn, Startups

\* The next broker of the startup.
LEMMA Succeeded ==
    ASSUME IInv, NEW b \in Brokers, NEW i \in DOMAIN ops[b],
           NEW op, Ends(b, i, op, "startup"),
           NEW class \in {"primary", "proxy"}, NEW at \in {"starting", "proxying"},
           class = "primary" \/ at = "proxying", Successor(b, i, class, at),
           UNCHANGED processVars, PortTypes', owner' = owner \/ owner' = None,
           up' \in [Brokers -> BOOLEAN], KeptAt(b)'
    PROVE  IInv'
<1>1. /\ startup.broker = b /\ startup.at # "none" /\ singleton = None
      /\ i \in 1 .. Len(ops[b]) /\ ops[b] \in Seq(Entry)
      /\ ops[b][i].by = "startup" /\ Noted(ops[b], "startup")
  BY EndsFacts
<1>2. TypeOK /\ BrokerTypes /\ CallsInv /\ StartupInv
  BY InvParts
<1>3. PICK c \in Brokers :
        /\ c # b /\ ~Referred(c)
        /\ ops' = [ops EXCEPT ![b] = RemoveAt(ops[b], i),
                              ![c] = <<[op |-> "start", by |-> "startup"]>>]
        /\ kind' = [kind EXCEPT ![c] = class]
        /\ stopped' = [stopped EXCEPT ![c] = FALSE]
        /\ startup' = [startup EXCEPT !.at = at, !.broker = c]
        /\ Waits
  BY DEF Successor
<1>4. Start \in Entry /\ Start.by = "startup" /\ Start = [op |-> "start", by |-> "startup"]
  BY Apart DEF Start, Entry
<1>5. RemoveAt(ops[b], i) \in Seq(Entry) /\ <<Start>> \in Seq(Entry)
  BY <1>1, <1>4, Removed, FewCalls
<1>6. /\ ops' \in [Brokers -> Seq(Entry)]
      /\ ops'[c] = <<Start>> /\ ops'[b] = RemoveAt(ops[b], i)
      /\ \A d \in Brokers \ {b, c} : ops'[d] = ops[d]
  <2>1. ops \in [Brokers -> Seq(Entry)]
    BY <1>2 DEF BrokerTypes
  <2>2. ops' = [ops EXCEPT ![b] = RemoveAt(ops[b], i), ![c] = <<Start>>]
    BY <1>3, <1>4
  <2> QED  BY <1>3, <1>5, <2>1, <2>2
<1>7. /\ kind' \in [Brokers -> {"none", "primary", "proxy"}] /\ kind'[c] = class
      /\ stopped' \in [Brokers -> BOOLEAN]
      /\ \A d \in Brokers \ {c} : kind'[d] = kind[d] /\ stopped'[d] = stopped[d]
  BY <1>2, <1>3 DEF BrokerTypes
<1>8. BrokerTypes'
  BY <1>6, <1>7 DEF BrokerTypes
<1>9. startup \in Startups /\ (shutdownAt = "startup" => startup.outdated)
  BY <1>1, GoesOnFacts
<1>10. /\ startup' \in Startups /\ startup'.at = at /\ startup'.broker = c
       /\ startup'.outdated = startup.outdated
  BY <1>3, <1>9 DEF Startups
<1>11. /\ AcquireTypes' /\ HandleTypes' /\ ThreadTypes' /\ ProcessTypes' /\ Awaiting'
       /\ HandleInv' /\ SessionInv'
       /\ singleton' = None /\ shutdownAt' = shutdownAt /\ suspendAt' = suspendAt
  BY <1>1, <1>3, <1>10, Waited
<1>12. owner # c /\ owner' # c
  BY <1>3, Apart DEF Referred
<1>13. StartupInv'
  BY <1>6, <1>7, <1>9, <1>10, <1>11, <1>12 DEF StartupInv
<1>14. CallsInv'
  <2>1. ASSUME NEW d \in Brokers \ {c}
        PROVE  /\ Single(ops'[d]) /\ ~Noted(ops'[d], "startup")
               /\ \A by \in {"shutdown"} \cup Closures : Noted(ops'[d], by) => Noted(ops[d], by)
    <3>1. Single(ops[d]) /\ (d # b => ~Noted(ops[d], "startup"))
      BY <1>1, <1>2 DEF CallsInv, CallsAt
    <3>2. CASE d = b
      <4>1. "startup" \in Awaited
        BY DEF Awaited
      <4>2. \A by : Noted(RemoveAt(ops[b], i), by) => Noted(ops[b], by)
        BY <1>1, Removed
      <4>3. Single(RemoveAt(ops[b], i)) /\ ~Noted(RemoveAt(ops[b], i), "startup")
        <5>1. Single(ops[b]) /\ ops[b][i].by \in Awaited
          BY <1>1, <3>1, <3>2, <4>1
        <5>2. Single(RemoveAt(ops[b], i)) /\ ~Noted(RemoveAt(ops[b], i), ops[b][i].by)
          BY <1>1, <5>1, Removed
        <5> QED  BY <1>1, <5>2
      <4>4. ops'[d] = RemoveAt(ops[b], i) /\ ops[d] = ops[b]
        BY <1>6, <3>2
      <4> QED  BY <4>2, <4>3, <4>4, Zenon
    <3>3. CASE d # b
      BY <1>6, <3>1, <3>3
    <3> QED  BY <3>2, <3>3
  <2> QED  BY <1>2, <1>4, <1>6, <1>10, <1>11, <2>1, CallsReplaced
<1>15. ASSUME NEW d \in Brokers
       PROVE  KeptAt(d)'
  <2>1. CASE d = b
    BY <2>1
  <2>2. CASE d = c
    <3>1. Kept(c)'
      BY <1>10 DEF Kept
    <3> QED  BY <2>2, <3>1 DEF KeptAt
  <2>3. CASE d \notin {b, c}
    <3>1. ~Kept(d) /\ KeptAt(d)
      BY <1>1, <2>3, OnlyCandidate, InvParts
    <3>2. owner' = d => owner = d
      BY Apart
    <3> QED  BY <1>6, <1>7, <2>3, <3>1, <3>2, KeptRest
  <2> QED  BY <2>1, <2>2, <2>3
<1> QED  BY <1>8, <1>11, <1>13, <1>14, <1>15, Whole

\* The candidate, whose call is over, is stopped.
LEMMA Retired ==
    ASSUME IInv, startup.at # "none", NEW b \in Brokers, startup.broker = b, NEW rest,
           rest = <<>>, NEW at \in {"cleaning", "cancelling"}, Retire(b, rest, at),
           UNCHANGED <<owner, moves, processVars>>, up' \in [Brokers -> BOOLEAN]
    PROVE  IInv'
<1>1. TypeOK /\ BrokerTypes /\ PortTypes /\ CallsInv /\ StartupInv
  BY InvParts
<1>2. /\ Stop \in Entry /\ Stop.by = "startup" /\ Stop = [op |-> "stop", by |-> "startup"]
      /\ Closes(Stop, Closers)
  BY Apart DEF Stop, Entry, Closes, Closers
<1>3. Append(rest, Stop) = <<Stop>> /\ <<Stop>> \in Seq(Entry)
  BY <1>2, FewCalls
<1>4. /\ ops' \in [Brokers -> Seq(Entry)] /\ ops'[b] = <<Stop>>
      /\ \A d \in Brokers \ {b} : ops'[d] = ops[d]
  <2>1. ops \in [Brokers -> Seq(Entry)]
    BY <1>1 DEF BrokerTypes
  <2>2. ops' = [ops EXCEPT ![b] = <<Stop>>]
    BY <1>2, <1>3 DEF Retire
  <2> QED  BY <1>3, <2>1, <2>2
<1>5. /\ kind' = kind /\ stopped' \in [Brokers -> BOOLEAN] /\ stopped'[b] = (kind[b] = "proxy")
      /\ \A d \in Brokers \ {b} : stopped'[d] = stopped[d]
  BY <1>1 DEF BrokerTypes, Retire
<1>6. BrokerTypes' /\ PortTypes'
  BY <1>1, <1>4, <1>5 DEF BrokerTypes, PortTypes
<1>7. /\ startup' \in Startups /\ startup'.at = at /\ startup'.broker = b
      /\ startup'.outdated = startup.outdated /\ (shutdownAt = "startup" => startup.outdated)
  <2>1. GoesOn(at)
    BY DEF Retire
  <2> QED  BY <2>1, GoesOnFacts
<1>8. /\ AcquireTypes' /\ HandleTypes' /\ ThreadTypes' /\ ProcessTypes' /\ Awaiting'
      /\ HandleInv' /\ SessionInv'
      /\ singleton' = None /\ shutdownAt' = shutdownAt /\ suspendAt' = suspendAt
  <2>1. Waits
    BY DEF Retire
  <2> QED  BY <1>7, <2>1, Waited
<1>9. StartupInv'
  BY <1>4, <1>7, <1>8 DEF StartupInv
<1>10. CallsInv'
  <2>1. ASSUME NEW d \in Brokers \ {b}
        PROVE  /\ Single(ops'[d]) /\ ~Noted(ops'[d], "startup")
               /\ \A by \in {"shutdown"} \cup Closures : Noted(ops'[d], by) => Noted(ops[d], by)
    BY <1>1, <1>4 DEF CallsInv, CallsAt
  <2> QED  BY <1>1, <1>2, <1>4, <1>7, <1>8, <2>1, CallsReplaced
<1>11. ASSUME NEW d \in Brokers
       PROVE  KeptAt(d)'
  <2>1. CASE d = b
    <3>1. ~Heals(b)'
      BY <1>5 DEF Heals
    <3>2. Closed(<<Stop>>, Closers) /\ Covered(<<Stop>>, Closers)
      <4>1. <<>> \in Seq(Entry) /\ Append(<<>>, Stop) = <<Stop>>
        BY <1>2, FewCalls
      <4> QED  BY <1>2, <4>1, Appended
    <3> QED  BY <1>4, <2>1, <3>1, <3>2 DEF KeptAt
  <2>2. CASE d # b
    <3>1. ~Kept(d) /\ KeptAt(d)
      BY <2>2, OnlyCandidate, InvParts
    <3> QED  BY <1>4, <1>5, <2>2, <3>1, KeptRest
  <2> QED  BY <2>1, <2>2
<1> QED  BY <1>6, <1>8, <1>9, <1>10, <1>11, Whole

\* What competes and is not the startup's broker is left as it was.
LEMMA OthersRest ==
    ASSUME IInv, startup.at # "none", NEW b \in Brokers, startup.broker = b,
           \A d \in Brokers \ {b} : /\ ops'[d] = ops[d] /\ kind'[d] = kind[d]
                                    /\ stopped'[d] = stopped[d] /\ (owner' = d => owner = d)
    PROVE  \A d \in Brokers \ {b} : KeptAt(d)'
<1>1. ASSUME NEW d \in Brokers \ {b}
      PROVE  KeptAt(d)'
  <2>1. ~Kept(d) /\ KeptAt(d)
    BY OnlyCandidate, InvParts
  <2> QED  BY <2>1, KeptRest
<1> QED  BY <1>1

\* The last call of a startup is over, and with it the startup.
LEMMA SettledWhole ==
    ASSUME IInv, NEW b \in Brokers, NEW i \in DOMAIN ops[b], NEW op, Ends(b, i, op, "startup"),
           Ended(b, i), NEW c \in {b, None}, Settle(c), c # None => ~Cancelled,
           UNCHANGED <<moves, kind, stopped, processVars>>,
           owner' \in Brokers \cup {Other, Foreign, None}, up' \in [Brokers -> BOOLEAN],
           owner' = owner \/ owner' \in {b, None}, c = b \/ KeptAt(b)'
    PROVE  IInv'
<1>1. startup.broker = b /\ startup.at # "none" /\ ops[b][i].by = "startup"
  BY EndsFacts
<1>2. TypeOK /\ PortTypes /\ BrokerTypes /\ CallsInv
  BY InvParts
<1>3. /\ AcquireTypes' /\ HandleTypes' /\ ThreadTypes' /\ ProcessTypes' /\ Awaiting'
      /\ StartupInv' /\ HandleInv' /\ SessionInv'
      /\ singleton' = c /\ shutdownAt' = shutdownAt /\ suspendAt' = suspendAt
  BY <1>1, Settled
<1>4. /\ CallsInv' /\ ops' \in [Brokers -> Seq(Entry)]
      /\ \A d \in Brokers \ {b} : ops'[d] = ops[d]
  BY <1>1, <1>2, <1>3, CallsEnd
<1>5. PortTypes' /\ BrokerTypes'
  BY <1>2, <1>4 DEF PortTypes, BrokerTypes
<1>6. \A d \in Brokers \ {b} : KeptAt(d)'
  <2>1. \A d \in Brokers \ {b} : owner' = d => owner = d
    BY Apart
  <2> QED  BY <1>1, <1>4, <2>1, OthersRest
<1>7. KeptAt(b)'
  <2>1. CASE c = b
    BY <1>3, <2>1 DEF KeptAt, Kept
  <2> QED  BY <2>1
<1>8. \A d \in Brokers : KeptAt(d)'
  BY <1>6, <1>7
<1> QED  BY <1>3, <1>4, <1>5, <1>8, Whole

LEMMA StaleStoppedKeeps ==
    ASSUME IInv, NEW b \in Brokers, NEW i \in DOMAIN ops[b], StaleStopped(b, i)
    PROVE  IInv'
<1>1. startup.at = "retiring" /\ Ends(b, i, "stop", "startup") /\ Released(b)
  BY DEF StaleStopped
<1>2. startup.broker = b /\ startup.at # "none" /\ singleton = None
  BY <1>1, EndsFacts
<1>3. TypeOK /\ PortTypes /\ BrokerTypes /\ CallsInv
  BY InvParts
<1>4. /\ owner' \in Brokers \cup {Other, Foreign, None} /\ up' \in [Brokers -> BOOLEAN]
      /\ owner' = owner \/ owner' = None
  BY <1>1, <1>3, PortFacts
<1>5. moves' = moves /\ UNCHANGED processVars /\ PortTypes'
  BY <1>3, <1>4 DEF StaleStopped, PortTypes
<1>6. ~Kept(b)
  BY <1>1, <1>2, Apart DEF Kept
<1>7. CASE Cancelled
  <2>1. Ended(b, i) /\ Settle(None) /\ UNCHANGED <<kind, stopped>>
    BY <1>7 DEF StaleStopped
  <2>2. ops'[b] = RemoveAt(ops[b], i)
    BY <1>3, <2>1 DEF Ended, BrokerTypes
  <2>3. KeptAt(b)'
    BY <1>1, <1>6, <2>1, <2>2, StopOver
  <2> QED  BY <1>1, <1>4, <1>5, <2>1, <2>3, SettledWhole
<1>8. CASE ~Cancelled
  <2>1. Successor(b, i, "primary", "starting")
    BY <1>8 DEF StaleStopped
  <2>2. ops'[b] = RemoveAt(ops[b], i) /\ kind'[b] = kind[b] /\ stopped'[b] = stopped[b]
    BY <1>3, <2>1 DEF Successor, BrokerTypes
  <2>3. KeptAt(b)'
    BY <1>1, <1>6, <2>2, StopOver
  <2> QED  BY <1>1, <1>4, <1>5, <2>1, <2>3, Succeeded
<1> QED  BY <1>7, <1>8

LEMMA CandidateStoppedKeeps ==
    ASSUME IInv, NEW b \in Brokers, NEW i \in DOMAIN ops[b], CandidateStopped(b, i)
    PROVE  IInv'
<1>1. /\ startup.at \in {"cleaning", "cancelling"} /\ Ends(b, i, "stop", "startup")
      /\ Released(b) /\ Ended(b, i) /\ Settle(None)
      /\ UNCHANGED <<moves, kind, stopped, processVars>>
  BY DEF CandidateStopped
<1>2. startup.broker = b /\ startup.at # "none" /\ singleton = None
  BY <1>1, EndsFacts
<1>3. TypeOK /\ PortTypes /\ BrokerTypes /\ CallsInv
  BY InvParts
<1>4. /\ owner' \in Brokers \cup {Other, Foreign, None} /\ up' \in [Brokers -> BOOLEAN]
      /\ owner' = owner \/ owner' = None
  BY <1>1, <1>3, PortFacts
<1>5. ~Kept(b)
  BY <1>1, <1>2, Apart DEF Kept
<1>6. ops'[b] = RemoveAt(ops[b], i)
  BY <1>1, <1>3 DEF Ended, BrokerTypes
<1>7. KeptAt(b)'
  BY <1>1, <1>5, <1>6, StopOver
<1> QED  BY <1>1, <1>4, <1>7, SettledWhole

\* The start() of the startup is the only call of its broker.
LEMMA CandidateStarts ==
    ASSUME IInv, NEW b \in Brokers, NEW i \in DOMAIN ops[b], startup.at \in {"starting", "proxying"},
           Ends(b, i, "start", "startup")
    PROVE  /\ startup.broker = b /\ ops[b] = <<Start>> /\ RemoveAt(ops[b], i) = <<>>
           /\ <<>> \in Seq(Entry) /\ Covered(<<>>, Closers) /\ \A by : ~Noted(<<>>, by)
           /\ startup.at = "starting" => kind[b] = "primary" /\ owner # b
<1>1. startup.broker = b
  BY EndsFacts
<1>2. ops[b] = <<Start>> /\ (startup.at = "starting" => kind[b] = "primary" /\ owner # b)
  BY <1>1, InvParts DEF StartupInv
<1>3. Start \in Entry
  BY Apart DEF Start, Entry
<1>4. RemoveAt(ops[b], i) = <<>>
  BY <1>2, <1>3, OnlyCall
<1>5. <<>> \in Seq(Entry) /\ Covered(<<>>, Closers) /\ \A by : ~Noted(<<>>, by)
  BY <1>3, FewCalls
<1> QED  BY <1>1, <1>2, <1>4, <1>5

LEMMA PrimaryStartedKeeps ==
    ASSUME IInv, NEW b \in Brokers, NEW i \in DOMAIN ops[b], PrimaryStarted(b, i)
    PROVE  IInv'
<1>1. /\ startup.at = "starting" /\ Ends(b, i, "start", "startup")
      /\ StartWorks(b) /\ Started(b) /\ Ended(b, i)
      /\ GoesOn("publishing")
      /\ Waits /\ UNCHANGED <<moves, kind, stopped, processVars>>
  BY DEF PrimaryStarted
<1>2. startup.broker = b /\ startup.at # "none" /\ ops[b][i].by = "startup"
  BY <1>1, EndsFacts
<1>3. /\ ops[b] = <<Start>> /\ RemoveAt(ops[b], i) = <<>> /\ <<>> \in Seq(Entry)
      /\ kind[b] = "primary"
  BY <1>1, CandidateStarts
<1>4. TypeOK /\ PortTypes /\ BrokerTypes /\ CallsInv
  BY InvParts
<1>5. /\ up' \in [Brokers -> BOOLEAN] /\ owner' \in Brokers \cup {Other, Foreign, None}
      /\ owner' = owner \/ owner' = b
  BY <1>1, <1>4, PortFacts
<1>6. /\ startup' \in Startups /\ startup'.at = "publishing" /\ startup'.broker = b
      /\ startup'.outdated = startup.outdated /\ (shutdownAt = "startup" => startup.outdated)
  BY <1>1, <1>2, GoesOnFacts
<1>7. /\ AcquireTypes' /\ HandleTypes' /\ ThreadTypes' /\ ProcessTypes' /\ Awaiting'
      /\ HandleInv' /\ SessionInv'
      /\ singleton' = None /\ shutdownAt' = shutdownAt /\ suspendAt' = suspendAt
  BY <1>1, <1>2, <1>6, Waited
<1>8. /\ CallsInv' /\ ops' \in [Brokers -> Seq(Entry)] /\ ops'[b] = <<>>
      /\ \A d \in Brokers \ {b} : ops'[d] = ops[d]
  BY <1>1, <1>2, <1>3, <1>4, <1>7, CallsEnd
<1>9. PortTypes' /\ BrokerTypes'
  BY <1>1, <1>4, <1>5, <1>8 DEF PortTypes, BrokerTypes
<1>10. StartupInv'
  BY <1>6, <1>7, <1>8 DEF StartupInv
<1>11. \A d \in Brokers \ {b} : KeptAt(d)'
  <2>1. \A d \in Brokers \ {b} : owner' = d => owner = d
    BY <1>5
  <2> QED  BY <1>1, <1>2, <1>8, <2>1, OthersRest
<1>12. KeptAt(b)'
  BY <1>6 DEF KeptAt, Kept
<1>13. \A d \in Brokers : KeptAt(d)'
  BY <1>11, <1>12
<1> QED  BY <1>7, <1>8, <1>9, <1>10, <1>13, Whole

LEMMA PrimaryFailedKeeps ==
    ASSUME IInv, NEW b \in Brokers, NEW i \in DOMAIN ops[b], PrimaryFailed(b, i)
    PROVE  IInv'
<1>1. startup.at = "starting" /\ Ends(b, i, "start", "startup") /\ UNCHANGED <<portVars, up, processVars>>
  BY DEF PrimaryFailed
<1>2. /\ startup.broker = b /\ ops[b] = <<Start>> /\ RemoveAt(ops[b], i) = <<>>
      /\ Covered(<<>>, Closers) /\ kind[b] = "primary" /\ owner # b
  BY <1>1, CandidateStarts
<1>3. TypeOK /\ PortTypes /\ BrokerTypes
  BY InvParts
<1>4. PortTypes' /\ owner' = owner /\ moves' = moves /\ up' = up /\ up \in [Brokers -> BOOLEAN]
      /\ owner \in Brokers \cup {Other, Foreign, None}
  BY <1>1, <1>3, PartsSame DEF portVars, BrokerTypes, PortTypes
<1>5. ASSUME ops'[b] = RemoveAt(ops[b], i), kind'[b] = kind[b]
      PROVE  KeptAt(b)'
  BY <1>2, <1>4, <1>5 DEF KeptAt, Heals
<1>6. CASE owner # None
  <2>1. Successor(b, i, "proxy", "proxying")
    BY <1>6 DEF PrimaryFailed
  <2>2. KeptAt(b)'
    BY <1>3, <1>5, <2>1 DEF Successor, BrokerTypes
  <2> QED  BY <1>1, <1>4, <2>1, <2>2, Succeeded
<1>7. CASE owner = None
  <2>1. Ended(b, i) /\ Settle(None) /\ UNCHANGED <<kind, stopped>>
    BY <1>7 DEF PrimaryFailed
  <2>2. KeptAt(b)'
    BY <1>3, <1>5, <2>1 DEF Ended, BrokerTypes
  <2> QED  BY <1>1, <1>4, <2>1, <2>2, SettledWhole
<1> QED  BY <1>6, <1>7

LEMMA ProxyStartedKeeps ==
    ASSUME IInv, NEW b \in Brokers, NEW i \in DOMAIN ops[b], ProxyStarted(b, i)
    PROVE  IInv'
<1>1. startup.at = "proxying" /\ Ends(b, i, "start", "startup") /\ UNCHANGED <<moves, processVars>>
  BY DEF ProxyStarted
<1>2. startup.broker = b /\ startup.at # "none" /\ RemoveAt(ops[b], i) = <<>>
  BY <1>1, CandidateStarts
<1>3. PortTypes /\ BrokerTypes
  BY InvParts
<1>4. CASE Cancelled
  <2>1. Retire(b, RemoveAt(ops[b], i), "cancelling") /\ UNCHANGED <<owner, up>>
    BY <1>4 DEF ProxyStarted
  <2>2. up' \in [Brokers -> BOOLEAN]
    BY <1>3, <2>1 DEF BrokerTypes
  <2> QED  BY <1>1, <1>2, <2>1, <2>2, Retired
<1>5. CASE ~Cancelled
  <2>1. Started(b) /\ Ended(b, i) /\ Settle(b) /\ UNCHANGED <<kind, stopped>>
    BY <1>5 DEF ProxyStarted
  <2>2. /\ up' \in [Brokers -> BOOLEAN] /\ owner' \in Brokers \cup {Other, Foreign, None}
        /\ owner' = owner \/ owner' = b
    BY <1>3, <2>1, PortFacts
  <2> QED  BY <1>1, <1>5, <2>1, <2>2, SettledWhole
<1> QED  BY <1>4, <1>5

LEMMA ProxyFailedKeeps ==
    ASSUME IInv, NEW b \in Brokers, NEW i \in DOMAIN ops[b], ProxyFailed(b, i)
    PROVE  IInv'
<1>1. /\ startup.at = "proxying" /\ Ends(b, i, "start", "startup")
      /\ Retire(b, RemoveAt(ops[b], i), "cleaning")
      /\ up' = [up EXCEPT ![b] = FALSE] /\ UNCHANGED <<owner, moves, processVars>>
  BY DEF ProxyFailed, portVars
<1>2. startup.broker = b /\ startup.at # "none" /\ RemoveAt(ops[b], i) = <<>>
  BY <1>1, CandidateStarts
<1>3. up' \in [Brokers -> BOOLEAN]
  BY <1>1, InvParts DEF BrokerTypes
<1> QED  BY <1>1, <1>2, <1>3, Retired

LEMMA PublishedKeeps ==
    ASSUME IInv, Published
    PROVE  IInv'
<1>1. startup.at = "publishing" /\ UNCHANGED <<portVars, up, processVars>>
  BY DEF Published
<1>2. PortTypes /\ BrokerTypes /\ StartupInv /\ CallsInv /\ TypeOK
  BY InvParts
<1>3. PICK b \in Brokers : startup.broker = b
  BY <1>1, GoesOnFacts
<1>4. ops[b] = <<>> /\ startup.at # "none"
  BY <1>1, <1>2, <1>3 DEF StartupInv
<1>5. up' \in [Brokers -> BOOLEAN] /\ owner' = owner /\ moves' = moves /\ PortTypes'
  BY <1>1, <1>2, PartsSame DEF BrokerTypes, portVars
<1>6. CASE Cancelled
  <2>1. Retire(b, ops[b], "cancelling")
    BY <1>3, <1>6 DEF Published
  <2> QED  BY <1>1, <1>3, <1>5, <1>4, <2>1, Retired
<1>7. CASE ~Cancelled
  <2>1. Settle(b) /\ UNCHANGED <<kind, stopped, ops>>
    BY <1>3, <1>7 DEF Published
  <2>2. /\ AcquireTypes' /\ HandleTypes' /\ ThreadTypes' /\ ProcessTypes' /\ Awaiting'
        /\ StartupInv' /\ HandleInv' /\ SessionInv'
        /\ singleton' = b /\ shutdownAt' = shutdownAt /\ suspendAt' = suspendAt
    BY <1>1, <1>3, <1>7, <1>4, <2>1, Settled
  <2>3. \A d \in Brokers : ~Noted(ops[d], "startup")
    <3>1. ~Noted(ops[b], "startup")
      BY <1>4 DEF Noted
    <3> QED  BY <1>2, <1>3, <3>1, NothingBegun
  <2>4. CallsInv'
    BY <1>2, <2>1, <2>2, <2>3, CallsRest
  <2>5. BrokerTypes'
    BY <1>2, <1>5, <2>1 DEF BrokerTypes
  <2>6. \A d \in Brokers \ {b} : KeptAt(d)'
    BY <1>3, <1>5, <1>4, <2>1, OthersRest
  <2>7. KeptAt(b)'
    BY <2>2 DEF KeptAt, Kept
  <2>8. \A d \in Brokers : KeptAt(d)'
    BY <2>6, <2>7
  <2> QED  BY <1>5, <2>2, <2>4, <2>5, <2>8, Whole
<1> QED  BY <1>6, <1>7

-----------------------------------------------------------------------------
(* Calls of the others.                                                    *)

\* The handles and who uses them stay.
LEMMA HandlesRest ==
    ASSUME IInv, UNCHANGED <<handleVars, threadVars, acquireVars, session>>,
           shutdownAt' # "startup" \/ shutdownAt' = shutdownAt
    PROVE  /\ HandleTypes' /\ ThreadTypes' /\ AcquireTypes' /\ Awaiting' /\ HandleInv'
           /\ singleton' = singleton /\ startup' = startup
           /\ \A d \in Brokers : Kept(d)' = Kept(d)
<1>1. HandleTypes /\ ThreadTypes /\ AcquireTypes /\ Awaiting /\ HandleInv
  BY InvParts
<1>2. HandleTypes' /\ ThreadTypes' /\ AcquireTypes'
  BY <1>1, PartsSame
<1>3. /\ stage' = stage /\ disposed' = disposed /\ current' = current /\ resolving' = resolving
      /\ pc' = pc /\ brk' = brk /\ singleton' = singleton /\ startup' = startup
      /\ session' = session
  BY DEF handleVars, threadVars, acquireVars
<1>4. Awaiting'
  BY <1>1, <1>3 DEF Awaiting
<1>5. HandleInv'
  BY <1>1, <1>3 DEF HandleInv
<1>6. \A d \in Brokers : Kept(d)' = Kept(d)
  BY <1>3 DEF Kept
<1> QED  BY <1>2, <1>3, <1>4, <1>5, <1>6

\* A call that the startup did not make is none of its business.
LEMMA OtherOver ==
    ASSUME IInv, NEW b \in Brokers, NEW i \in DOMAIN ops[b], NEW op, NEW by, Ends(b, i, op, by),
           by # "startup", Ended(b, i), UNCHANGED <<kind, startup, singleton>>,
           owner' = owner \/ owner' \in {b, None},
           shutdownAt' # "startup" \/ shutdownAt' = shutdownAt
    PROVE  StartupInv'
<1>1. startup.broker = b => startup.at = "retiring"
  BY EndsFacts
<1>2. StartupInv /\ TypeOK /\ BrokerTypes /\ AcquireTypes
  BY InvParts
<1>3. \A d \in Brokers \ {b} : ops'[d] = ops[d]
  BY <1>2 DEF Ended, BrokerTypes
<1>4. startup.at # "none" => startup.broker \in Brokers
  BY GoesOnFacts
<1>5. CASE startup.at \in {"none", "retiring"}
  BY <1>2, <1>5 DEF StartupInv
<1>6. CASE startup.at \notin {"none", "retiring"}
  <2>1. startup.broker \in Brokers \ {b}
    BY <1>1, <1>4, <1>6
  <2>2. /\ ops'[startup.broker] = ops[startup.broker]
        /\ owner # startup.broker => owner' # startup.broker
    BY <1>3, <2>1, Apart
  <2> QED  BY <1>2, <2>2 DEF StartupInv
<1> QED  BY <1>5, <1>6

\* A stop() that session_shutdown or onSuspend waits for is over.
LEMMA StopEnds ==
    ASSUME IInv, NEW b \in Brokers, NEW i \in DOMAIN ops[b], NEW by \in {"shutdown"} \cup Closures,
           Ends(b, i, "stop", by), Released(b), Ended(b, i),
           UNCHANGED <<moves, kind, stopped, acquireVars, session, handleVars, threadVars>>,
           shutdownAt' # "startup" \/ shutdownAt' = shutdownAt,
           shutdownAt' = shutdownAt \/ by = "shutdown",
           \A g \in Closures : suspendAt'[g] = suspendAt[g] \/ by = g,
           ProcessTypes', SessionInv'
    PROVE  IInv'
<1>1. TypeOK /\ PortTypes /\ BrokerTypes /\ CallsInv
  BY InvParts
<1>2. ops[b][i].by = by /\ by # "startup"
  BY EndsFacts, ClosureFacts
<1>3. /\ HandleTypes' /\ ThreadTypes' /\ AcquireTypes' /\ Awaiting' /\ HandleInv'
      /\ singleton' = singleton /\ startup' = startup
      /\ \A d \in Brokers : Kept(d)' = Kept(d)
  BY HandlesRest
<1>4. /\ owner' \in Brokers \cup {Other, Foreign, None} /\ up' \in [Brokers -> BOOLEAN]
      /\ owner' # b /\ (owner' = owner \/ owner' = None)
  BY <1>1, PortFacts
<1>5. /\ CallsInv' /\ ops' \in [Brokers -> Seq(Entry)]
      /\ ops'[b] = RemoveAt(ops[b], i) /\ \A d \in Brokers \ {b} : ops'[d] = ops[d]
  BY <1>1, <1>2, <1>3, CallsEnd
<1>6. PortTypes' /\ BrokerTypes'
  BY <1>1, <1>4, <1>5 DEF PortTypes, BrokerTypes
<1>7. StartupInv'
  BY <1>2, <1>3, <1>4, OtherOver
<1>8. KeptAt(b)'
  BY <1>3, <1>5, StopOver
<1>9. ASSUME NEW d \in Brokers \ {b}
      PROVE  KeptAt(d)'
  <2>1. KeptAt(d) /\ (owner' = d => owner = d)
    BY <1>4, InvParts, Apart
  <2> QED  BY <1>3, <1>5, <2>1, KeptRest
<1>10. \A d \in Brokers : KeptAt(d)'
  BY <1>8, <1>9
<1> QED  BY <1>3, <1>5, <1>6, <1>7, <1>10, Whole

LEMMA ShutdownStoppedKeeps ==
    ASSUME IInv, NEW b \in Brokers, NEW i \in DOMAIN ops[b], ShutdownStopped(b, i)
    PROVE  IInv'
<1>1. /\ Ends(b, i, "stop", "shutdown") /\ Released(b) /\ Ended(b, i)
      /\ shutdownAt' = "unpublish"
      /\ UNCHANGED <<moves, kind, stopped, acquireVars, shuttingDown, suspending, handlers,
                     session, suspendAt, suspended, frozen, handleVars, threadVars>>
  BY DEF ShutdownStopped
<1>2. ProcessTypes'
  BY <1>1, InvParts DEF ProcessTypes
<1>3. SessionInv'
  <2>1. SessionInv /\ shutdownAt = "stop"
    BY <1>1, InvParts, EndsFacts
  <2> QED  BY <1>1, <2>1 DEF SessionInv, acquireVars
<1> QED  BY <1>1, <1>2, <1>3, StopEnds

LEMMA SuspendStoppedKeeps ==
    ASSUME IInv, NEW b \in Brokers, NEW i \in DOMAIN ops[b], NEW g \in Closures,
           SuspendStopped(b, i, g)
    PROVE  IInv'
<1>1. /\ Ends(b, i, "stop", g) /\ Released(b) /\ Ended(b, i)
      /\ suspendAt' = [suspendAt EXCEPT ![g] = "freeze"]
      /\ UNCHANGED <<moves, kind, stopped, acquireVars, shuttingDown, suspending, handlers,
                     session, suspended, shutdownAt, frozen, handleVars, threadVars>>
  BY DEF SuspendStopped
<1>2. ProcessTypes'
  BY <1>1, InvParts DEF ProcessTypes
<1>3. SessionInv'
  BY <1>1, InvParts DEF SessionInv, acquireVars
<1>4. \A h \in Closures : suspendAt'[h] = suspendAt[h] \/ h = g
  BY <1>1, InvParts DEF ProcessTypes
<1> QED  BY <1>1, <1>2, <1>3, <1>4, StopEnds

\* A start() that a tool call, a timer or onResume made is over.
LEMMA StartEnds ==
    ASSUME IInv, NEW b \in Brokers, NEW i \in DOMAIN ops[b], NEW by \in Threads \cup {"resume"},
           Ends(b, i, "start", by), Ended(b, i),
           owner' = owner \/ (kind[b] = "primary" /\ owner' = b), up' \in [Brokers -> BOOLEAN],
           UNCHANGED <<moves, kind, stopped, acquireVars, processVars>>,
           HandleTypes', ThreadTypes', Awaiting', HandleInv'
    PROVE  IInv'
<1>1. TypeOK /\ PortTypes /\ BrokerTypes /\ CallsInv /\ AcquireTypes /\ ProcessTypes /\ SessionInv
  BY InvParts
<1>2. ops[b][i].by = by /\ by # "startup"
  BY EndsFacts, Apart
<1>3. /\ AcquireTypes' /\ ProcessTypes' /\ singleton' = singleton /\ startup' = startup
      /\ shutdownAt' = shutdownAt /\ suspendAt' = suspendAt /\ session' = session
  BY <1>1, PartsSame DEF acquireVars, processVars
<1>4. /\ CallsInv' /\ ops' \in [Brokers -> Seq(Entry)]
      /\ ops'[b] = RemoveAt(ops[b], i) /\ \A d \in Brokers \ {b} : ops'[d] = ops[d]
  BY <1>1, <1>2, <1>3, CallsEnd
<1>5. PortTypes' /\ BrokerTypes'
  BY <1>1, <1>4 DEF PortTypes, BrokerTypes
<1>6. StartupInv'
  BY <1>2, <1>3, OtherOver
<1>7. SessionInv'
  BY <1>1, <1>3 DEF SessionInv
<1>8. \A d \in Brokers : Kept(d) => Kept(d)'
  BY <1>3 DEF Kept
<1>9. KeptAt(b)'
  BY <1>4, <1>8, StartOver
<1>10. ASSUME NEW d \in Brokers \ {b}
       PROVE  KeptAt(d)'
  <2>1. KeptAt(d)
    BY InvParts
  <2> QED  BY <1>4, <1>8, <2>1, KeptRest
<1>11. \A d \in Brokers : KeptAt(d)'
  BY <1>9, <1>10
<1> QED  BY <1>3, <1>4, <1>5, <1>6, <1>7, <1>11, Whole

LEMMA ResumeStartedKeeps ==
    ASSUME IInv, NEW b \in Brokers, NEW i \in DOMAIN ops[b], ResumeStarted(b, i)
    PROVE  IInv'
<1>1. /\ Ends(b, i, "start", "resume") /\ Ended(b, i)
      /\ UNCHANGED <<moves, kind, stopped, acquireVars, processVars, handleVars, threadVars>>
      /\ Started(b) \/ UNCHANGED <<owner, up>>
  BY DEF ResumeStarted
<1>2. PortTypes /\ BrokerTypes
  BY InvParts
<1>3. /\ up' \in [Brokers -> BOOLEAN]
      /\ owner' = owner \/ (kind[b] = "primary" /\ owner' = b)
  BY <1>1, <1>2, PortFacts DEF BrokerTypes
<1>4. /\ HandleTypes' /\ ThreadTypes' /\ Awaiting' /\ HandleInv'
  BY <1>1, HandlesRest DEF processVars
<1> QED  BY <1>1, <1>3, <1>4, StartEnds

LEMMA ResumeFailedKeeps ==
    ASSUME IInv, NEW b \in Brokers, NEW i \in DOMAIN ops[b], ResumeFailed(b, i)
    PROVE  IInv'
<1>1. /\ Ends(b, i, "start", "resume") /\ Ended(b, i) /\ owner' = owner /\ up' = up
      /\ UNCHANGED <<moves, kind, stopped, acquireVars, processVars, handleVars, threadVars>>
  BY DEF ResumeFailed, portVars
<1>2. up' \in [Brokers -> BOOLEAN]
  BY <1>1, InvParts DEF BrokerTypes
<1>3. /\ HandleTypes' /\ ThreadTypes' /\ Awaiting' /\ HandleInv'
  BY <1>1, HandlesRest DEF processVars
<1> QED  BY <1>1, <1>2, <1>3, StartEnds

\* A call or a timer leaves the broker, and the handle may drop it.
LEMMA ThreadLeaves ==
    ASSUME IInv, NEW t \in Threads, NEW at \in {"idle", "bridging"},
           pc' = [pc EXCEPT ![t] = at], brk' = brk \/ brk' = [brk EXCEPT ![t] = None],
           \/ current' = current
           \/ current' = [current EXCEPT ![Of(t)] =
                             IF kind[brk[t]] = "primary" /\ ~up[brk[t]] THEN None ELSE @],
           UNCHANGED <<stage, disposed, resolving, acquireVars, processVars>>
    PROVE  HandleTypes' /\ ThreadTypes' /\ Awaiting' /\ HandleInv'
<1>1. HandleTypes /\ ThreadTypes /\ Awaiting /\ HandleInv /\ Of(t) \in Sessions
  BY InvParts, Apart
<1>2. /\ singleton' = singleton /\ startup' = startup /\ session' = session
      /\ shutdownAt' = shutdownAt
  BY DEF acquireVars, processVars
<1>3. /\ pc' \in [Threads -> Points] /\ brk' \in [Threads -> Brokers \cup {None}]
      /\ pc'[t] = at /\ \A u \in Threads \ {t} : pc'[u] = pc[u] /\ brk'[u] = brk[u]
  BY <1>1 DEF ThreadTypes, Points
<1>4. /\ current' \in [Sessions -> Brokers \cup {None}]
      /\ \A s \in Sessions : current'[s] = current[s] \/ current'[s] = None
  BY <1>1 DEF HandleTypes
<1>5. HandleTypes' /\ ThreadTypes'
  BY <1>1, <1>3, <1>4 DEF HandleTypes, ThreadTypes
<1>6. Awaiting'
  BY <1>1, <1>2, <1>3 DEF Awaiting
<1>7. HandleInv'
  <2>1. ASSUME NEW s \in Sessions
        PROVE  /\ disposed'[s] \/ session' = s \/ stage'[s] = "none"
               /\ disposed'[s] \/ stage'[s] = "none" \/ current'[s] \in {None, singleton'}
               /\ resolving'[s] => startup'.at # "none"
    BY <1>1, <1>2, <1>4 DEF HandleInv
  <2>2. ASSUME NEW u \in Threads, pc'[u] = "ensuring"
        PROVE  brk'[u] # None /\ brk'[u] = singleton' /\ shutdownAt' # "startup"
    <3>1. u # t
      BY <1>3, <2>2
    <3> QED  BY <1>1, <1>2, <1>3, <2>2, <3>1 DEF HandleInv
  <2> QED  BY <2>1, <2>2 DEF HandleInv
<1> QED  BY <1>5, <1>6, <1>7

LEMMA ReboundKeeps ==
    ASSUME IInv, NEW t \in Threads, NEW b \in Brokers, NEW i \in DOMAIN ops[b], Rebound(t, b, i)
    PROVE  IInv'
<1>1. /\ Ends(b, i, "start", t) /\ Started(b) /\ Ended(b, i)
      /\ pc' = [pc EXCEPT ![t] = "bridging"] /\ brk' = brk
      /\ UNCHANGED <<moves, kind, stopped, acquireVars, processVars>>
      /\ UNCHANGED <<stage, disposed, current, resolving>>
  BY DEF Rebound, handleVars
<1>2. /\ up' \in [Brokers -> BOOLEAN]
      /\ owner' = owner \/ (kind[b] = "primary" /\ owner' = b)
  BY <1>1, InvParts, PortFacts
<1>3. HandleTypes' /\ ThreadTypes' /\ Awaiting' /\ HandleInv'
  BY <1>1, ThreadLeaves
<1> QED  BY <1>1, <1>2, <1>3, StartEnds

LEMMA ReboundFailedKeeps ==
    ASSUME IInv, NEW t \in Threads, NEW b \in Brokers, NEW i \in DOMAIN ops[b],
           ReboundFailed(t, b, i)
    PROVE  IInv'
<1>1. /\ Ends(b, i, "start", t) /\ Ended(b, i) /\ Returns(t) /\ owner' = owner /\ up' = up
      /\ UNCHANGED <<moves, kind, stopped, acquireVars, processVars, stage, disposed, resolving>>
  BY DEF ReboundFailed, portVars
<1>2. up' \in [Brokers -> BOOLEAN]
  BY <1>1, InvParts DEF BrokerTypes
<1>3. HandleTypes' /\ ThreadTypes' /\ Awaiting' /\ HandleInv'
  BY <1>1, ThreadLeaves DEF Returns
<1> QED  BY <1>1, <1>2, <1>3, StartEnds

-----------------------------------------------------------------------------
(* Session events, signals, and what brokers do by themselves.             *)

\* No call begins or ends, no broker changes its kind, and the port is left alone
\* or given up.
LEMMA BrokersRest ==
    ASSUME IInv, UNCHANGED <<kind, stopped, ops>>, \A d \in Brokers : owner' = d => owner = d,
           singleton' = singleton, startup'.at = startup.at, startup'.broker = startup.broker,
           shutdownAt' = shutdownAt \/ shutdownAt # "stop",
           \A g \in Closures : suspendAt'[g] = suspendAt[g] \/ suspendAt[g] # "stop",
           shutdownAt' = "startup" /\ startup.at # "none" => startup'.outdated
    PROVE  StartupInv' /\ CallsInv' /\ \A d \in Brokers : KeptAt(d)'
<1>1. StartupInv /\ CallsInv /\ (startup.at # "none" => startup.broker \in Brokers)
  BY InvParts, GoesOnFacts
<1>2. StartupInv'
  BY <1>1 DEF StartupInv
<1>3. CallsInv'
  BY <1>1, CallsRest
<1>4. ASSUME NEW d \in Brokers
      PROVE  KeptAt(d)'
  <2>1. KeptAt(d) /\ (Kept(d) => Kept(d)')
    BY InvParts DEF Kept
  <2> QED  BY <2>1, KeptRest
<1> QED  BY <1>2, <1>3, <1>4

\* A shutdown or a suspension marks the startup that is under way.
LEMMA Outdated ==
    ASSUME IInv, Outdate, singleton' = singleton
    PROVE  /\ AcquireTypes' /\ startup'.at = startup.at /\ startup'.broker = startup.broker
           /\ startup' = Idle <=> startup = Idle
           /\ startup.at # "none" => startup'.outdated
<1>1. AcquireTypes
  BY InvParts
<1>2. CASE startup = Idle
  <2>1. startup' = [startup EXCEPT !.outdated = FALSE]
    BY <1>2 DEF Outdate
  <2>2. startup' = Idle /\ Idle.at = "none"
    BY <1>2, <2>1 DEF Idle
  <2> QED  BY <1>1, <1>2, <2>2 DEF AcquireTypes
<1>3. CASE startup # Idle
  <2>1. startup \in Startups /\ startup' = [startup EXCEPT !.outdated = TRUE]
    BY <1>1, <1>3 DEF Outdate, AcquireTypes
  <2>2. /\ startup' \in Startups /\ startup'.at = startup.at /\ startup'.broker = startup.broker
        /\ startup'.outdated /\ startup'.at # "none"
    BY <2>1 DEF Startups
  <2>3. startup' # Idle
    BY <2>2 DEF Idle
  <2> QED  BY <1>1, <1>3, <2>2, <2>3 DEF AcquireTypes
<1> QED  BY <1>2, <1>3

LEMMA ShutdownDoneKeeps ==
    ASSUME IInv, ShutdownDone
    PROVE  IInv'
<1>1. /\ shutdownAt = "unpublish" /\ shutdownAt' = "none" /\ shuttingDown' = FALSE
      /\ UNCHANGED <<portVars, brokerVars, acquireVars, suspending, handlers, session,
                     suspendAt, suspended, frozen, handleVars, threadVars>>
  BY DEF ShutdownDone
<1>2. PortTypes' /\ BrokerTypes' /\ ProcessTypes'
  BY <1>1, InvParts, PartsSame DEF ProcessTypes
<1>3. HandleTypes' /\ ThreadTypes' /\ AcquireTypes' /\ Awaiting' /\ HandleInv'
  BY <1>1, HandlesRest
<1>4. StartupInv' /\ CallsInv' /\ \A d \in Brokers : KeptAt(d)'
  BY <1>1, BrokersRest DEF acquireVars, brokerVars, portVars
<1>5. SessionInv'
  BY <1>1, InvParts DEF SessionInv, acquireVars
<1> QED  BY <1>2, <1>3, <1>4, <1>5, Whole

LEMMA FreezeKeeps ==
    ASSUME IInv, NEW g \in Closures, Freeze(g)
    PROVE  IInv'
<1>1. /\ suspendAt[g] = "freeze" /\ suspendAt' = [suspendAt EXCEPT ![g] = "none"]
      /\ frozen' = TRUE
      /\ UNCHANGED <<portVars, brokerVars, acquireVars, shuttingDown, suspending, handlers,
                     session, suspended, shutdownAt, handleVars, threadVars>>
  BY DEF Freeze
<1>2. PortTypes' /\ BrokerTypes' /\ ProcessTypes'
  BY <1>1, InvParts, PartsSame DEF ProcessTypes
<1>3. HandleTypes' /\ ThreadTypes' /\ AcquireTypes' /\ Awaiting' /\ HandleInv'
  BY <1>1, HandlesRest
<1>6. \A h \in Closures : suspendAt'[h] = suspendAt[h] \/ suspendAt[h] # "stop"
  BY <1>1, InvParts DEF ProcessTypes
<1>4. StartupInv' /\ CallsInv' /\ \A d \in Brokers : KeptAt(d)'
  BY <1>1, <1>6, InvParts, BrokersRest DEF acquireVars, brokerVars, portVars, StartupInv
<1>5. SessionInv'
  BY <1>1, InvParts DEF SessionInv, acquireVars
<1> QED  BY <1>2, <1>3, <1>4, <1>5, Whole

LEMMA SessionShutdownKeeps ==
    ASSUME IInv, SessionShutdown, \A t \in Threads : pc[t] # "ensuring"
    PROVE  IInv'
<1>1. /\ shutdownAt = "none" /\ session # None
      /\ handlers' = FALSE /\ suspending' = FALSE /\ shuttingDown' = TRUE
      /\ session' = None /\ Dispose(Sessions)
      /\ stage' = [s \in Sessions |-> IF stage[s] = "live" THEN "over" ELSE stage[s]]
      /\ shutdownAt' = "startup" /\ Outdate
      /\ UNCHANGED <<portVars, brokerVars, singleton, suspendAt, suspended, frozen, resolving,
                     threadVars>>
  BY DEF SessionShutdown
<1>2. PortTypes' /\ BrokerTypes' /\ ProcessTypes' /\ ThreadTypes'
  BY <1>1, InvParts, PartsSame DEF ProcessTypes
<1>3. /\ AcquireTypes' /\ startup'.at = startup.at /\ startup'.broker = startup.broker
      /\ startup' = Idle <=> startup = Idle
      /\ startup.at # "none" => startup'.outdated
  BY <1>1, Outdated
<1>4. /\ HandleTypes'
      /\ \A s \in Sessions : disposed'[s] /\ (stage'[s] = "acquiring" => stage[s] = "acquiring")
  BY <1>1, InvParts DEF HandleTypes, Dispose, Stages
<1>5. pc' = pc /\ brk' = brk /\ resolving' = resolving
  BY <1>1 DEF threadVars
<1>6. Awaiting'
  BY <1>3, <1>4, <1>5, InvParts DEF Awaiting
<1>7. HandleInv'
  BY <1>3, <1>4, <1>5, InvParts DEF HandleInv
<1>8. StartupInv' /\ CallsInv' /\ \A d \in Brokers : KeptAt(d)'
  BY <1>1, <1>3, BrokersRest DEF brokerVars, portVars
<1>9. SessionInv'
  BY <1>1 DEF SessionInv
<1> QED  BY <1>2, <1>3, <1>4, <1>6, <1>7, <1>8, <1>9, Whole

LEMMA SuspendKeeps ==
    ASSUME IInv, NEW g \in Closures, Suspend(g)
    PROVE  IInv'
<1>1. /\ suspendAt[g] = "none" /\ suspending' = TRUE /\ shuttingDown' = TRUE
      /\ Outdate
      /\ suspendAt' = [suspendAt EXCEPT ![g] = "startup"]
      /\ suspended' = [suspended EXCEPT ![g] = singleton]
      /\ UNCHANGED <<portVars, brokerVars, singleton, handlers, session, shutdownAt,
                     frozen, handleVars, threadVars>>
  BY DEF Suspend
<1>2. PortTypes' /\ BrokerTypes' /\ ProcessTypes' /\ ThreadTypes' /\ HandleTypes'
  BY <1>1, InvParts, PartsSame DEF ProcessTypes, AcquireTypes
<1>3. /\ AcquireTypes' /\ startup'.at = startup.at /\ startup'.broker = startup.broker
      /\ startup' = Idle <=> startup = Idle
      /\ startup.at # "none" => startup'.outdated
  BY <1>1, Outdated
<1>4. /\ stage' = stage /\ disposed' = disposed /\ current' = current /\ resolving' = resolving
      /\ pc' = pc /\ brk' = brk
  BY <1>1 DEF handleVars, threadVars
<1>5. Awaiting' /\ HandleInv'
  BY <1>1, <1>3, <1>4, InvParts DEF Awaiting, HandleInv
<1>8. \A h \in Closures : suspendAt'[h] = suspendAt[h] \/ suspendAt[h] # "stop"
  BY <1>1, InvParts DEF ProcessTypes
<1>6. StartupInv' /\ CallsInv' /\ \A d \in Brokers : KeptAt(d)'
  BY <1>1, <1>3, <1>8, BrokersRest DEF brokerVars, portVars
<1>7. SessionInv'
  BY <1>1, <1>3, InvParts DEF SessionInv
<1> QED  BY <1>2, <1>3, <1>5, <1>6, <1>7, Whole

LEMMA SessionStartKeeps ==
    ASSUME IInv, NEW s \in Sessions, SessionStart(s)
    PROVE  IInv'
<1>1. /\ shutdownAt = "none" /\ handlers' = TRUE /\ session' = s /\ Dispose(Sessions)
      /\ stage' = [r \in Sessions |-> IF r = s THEN "preparing"
                                      ELSE IF stage[r] = "live" THEN "over" ELSE stage[r]]
      /\ resolving' = [resolving EXCEPT ![s] = FALSE]
      /\ UNCHANGED <<portVars, brokerVars, acquireVars, shuttingDown, suspending,
                     shutdownAt, suspendAt, suspended, frozen, threadVars>>
  BY DEF SessionStart
<1>2. PortTypes' /\ BrokerTypes' /\ ProcessTypes' /\ ThreadTypes' /\ AcquireTypes'
  BY <1>1, InvParts, PartsSame DEF ProcessTypes
<1>3. /\ HandleTypes'
      /\ \A r \in Sessions : /\ disposed'[r] /\ (resolving'[r] => resolving[r])
                             /\ stage'[r] = "acquiring" => stage[r] = "acquiring"
  BY <1>1, InvParts DEF HandleTypes, Dispose, Stages
<1>4. pc' = pc /\ brk' = brk /\ singleton' = singleton /\ startup' = startup
  BY <1>1 DEF threadVars, acquireVars
<1>5. Awaiting' /\ HandleInv'
  BY <1>1, <1>3, <1>4, InvParts DEF Awaiting, HandleInv
<1>6. StartupInv' /\ CallsInv' /\ \A d \in Brokers : KeptAt(d)'
  BY <1>1, <1>4, BrokersRest DEF brokerVars, portVars
<1>7. SessionInv'
  BY <1>1, Apart DEF SessionInv
<1> QED  BY <1>2, <1>3, <1>5, <1>6, <1>7, Whole

LEMMA BridgeWaitedKeeps ==
    ASSUME IInv, NEW t \in Threads, BridgeWaited(t)
    PROVE  IInv'
<1>1. /\ Returns(t)
      /\ UNCHANGED <<portVars, brokerVars, acquireVars, processVars, stage, disposed, resolving>>
  BY DEF BridgeWaited
<1>2. PortTypes' /\ BrokerTypes' /\ ProcessTypes' /\ AcquireTypes'
  BY <1>1, InvParts, PartsSame
<1>3. HandleTypes' /\ ThreadTypes' /\ Awaiting' /\ HandleInv'
  BY <1>1, ThreadLeaves DEF Returns
<1>4. /\ session' = session /\ shutdownAt' = shutdownAt /\ suspendAt' = suspendAt
      /\ singleton' = singleton /\ startup' = startup
  BY <1>1 DEF processVars, acquireVars
<1>5. StartupInv' /\ CallsInv' /\ \A d \in Brokers : KeptAt(d)'
  BY <1>1, <1>4, InvParts, BrokersRest DEF brokerVars, portVars, StartupInv
<1>6. SessionInv'
  BY <1>4, InvParts DEF SessionInv
<1> QED  BY <1>2, <1>3, <1>5, <1>6, Whole

\* Only the port and the links change.
LEMMA PortChanges ==
    ASSUME IInv, UNCHANGED <<kind, stopped, ops, acquireVars, processVars, handleVars, threadVars>>,
           PortTypes', up' \in [Brokers -> BOOLEAN], \A d \in Brokers : owner' = d => owner = d
    PROVE  IInv'
<1>1. BrokerTypes' /\ ProcessTypes'
  BY InvParts, PartsSame DEF BrokerTypes
<1>2. HandleTypes' /\ ThreadTypes' /\ AcquireTypes' /\ Awaiting' /\ HandleInv'
  BY HandlesRest DEF processVars
<1>3. StartupInv' /\ CallsInv' /\ \A d \in Brokers : KeptAt(d)'
  BY InvParts, BrokersRest DEF acquireVars, processVars, StartupInv
<1>4. SessionInv'
  BY InvParts DEF SessionInv, acquireVars, processVars
<1> QED  BY <1>1, <1>2, <1>3, <1>4, Whole

LEMMA PortMovesKeeps ==
    ASSUME IInv, PortMoves
    PROVE  IInv'
<1>1. PortTypes /\ BrokerTypes
  BY InvParts
<1>2. PortTypes' /\ \A d \in Brokers : owner' # d
  BY <1>1, Apart DEF PortMoves, PortTypes
<1>3. up' \in [Brokers -> BOOLEAN]
  <2>1. \A c \in Brokers : (up[c] /\ c \notin Linked) \in BOOLEAN
    OBVIOUS
  <2>2. up' = [c \in Brokers |-> up[c] /\ c \notin Linked]
    BY DEF PortMoves
  <2> QED  BY <2>1, <2>2, Zenon
<1> QED  BY <1>2, <1>3, PortChanges DEF PortMoves

LEMMA LinkBreaksKeeps ==
    ASSUME IInv, NEW b \in Brokers, LinkBreaks(b)
    PROVE  IInv'
<1>1. PortTypes /\ BrokerTypes
  BY InvParts
<1>2. moves' \in 0 .. MaxMoves
  BY <1>1, Apart DEF LinkBreaks, PortTypes
<1>3. CASE owner = b
  <2>1. Released(b)
    BY <1>3 DEF LinkBreaks
  <2>2. /\ owner' \in Brokers \cup {Other, Foreign, None} /\ up' \in [Brokers -> BOOLEAN]
        /\ owner' # b /\ (owner' = owner \/ owner' = None)
    BY <1>1, <2>1, PortFacts
  <2>3. PortTypes' /\ \A d \in Brokers : owner' = d => owner = d
    BY <1>2, <2>2, Apart DEF PortTypes
  <2> QED  BY <2>2, <2>3, PortChanges DEF LinkBreaks
<1>4. CASE owner # b
  <2>1. up' = [up EXCEPT ![b] = FALSE] /\ owner' = owner
    BY <1>4 DEF LinkBreaks
  <2>2. up' \in [Brokers -> BOOLEAN] /\ PortTypes'
    BY <1>1, <1>2, <2>1 DEF PortTypes, BrokerTypes
  <2> QED  BY <2>1, <2>2, PortChanges DEF LinkBreaks
<1> QED  BY <1>3, <1>4

LEMMA ProxyHealsKeeps ==
    ASSUME IInv, NEW b \in Brokers, ProxyHeals(b)
    PROVE  IInv'
<1>1. /\ Heals(b) /\ owner' = IF owner = None THEN b ELSE owner
      /\ up' = [up EXCEPT ![b] = TRUE]
      /\ UNCHANGED <<moves, kind, stopped, ops, acquireVars, processVars, handleVars, threadVars>>
  BY DEF ProxyHeals
<1>2. PortTypes /\ BrokerTypes /\ ProcessTypes /\ StartupInv /\ CallsInv /\ SessionInv
  BY InvParts
<1>3. PortTypes' /\ BrokerTypes' /\ ProcessTypes'
  BY <1>1, <1>2, PartsSame DEF PortTypes, BrokerTypes
<1>4. /\ HandleTypes' /\ ThreadTypes' /\ AcquireTypes' /\ Awaiting' /\ HandleInv'
      /\ singleton' = singleton /\ startup' = startup
      /\ \A d \in Brokers : Kept(d)' = Kept(d)
  BY <1>1, HandlesRest DEF processVars
<1>5. /\ session' = session /\ shutdownAt' = shutdownAt /\ suspendAt' = suspendAt
  BY <1>1 DEF processVars
<1>6. StartupInv'
  <2>1. owner # None => owner' = owner
    BY <1>1
  <2>2. owner = None => owner' = b /\ kind[b] = "proxy"
    BY <1>1 DEF Heals
  <2> QED  BY <1>1, <1>2, <1>4, <1>5, <2>1, <2>2 DEF StartupInv
<1>7. CallsInv' /\ SessionInv'
  BY <1>1, <1>2, <1>4, <1>5, CallsRest DEF SessionInv
<1>8. ASSUME NEW d \in Brokers
      PROVE  KeptAt(d)'
  <2>1. KeptAt(d) /\ KeptAt(b)
    BY InvParts
  <2>2. CASE d = b
    <3>1. Kept(b)'
      BY <1>1, <1>4, <2>1 DEF KeptAt
    <3> QED  BY <2>2, <3>1 DEF KeptAt
  <2>3. CASE d # b
    <3>1. owner' = d => owner = d
      BY <1>1, <2>3
    <3> QED  BY <1>1, <1>4, <2>1, <3>1, KeptRest
  <2> QED  BY <2>2, <2>3
<1> QED  BY <1>3, <1>4, <1>6, <1>7, <1>8, Whole

-----------------------------------------------------------------------------
(* Steps that begin a call.                                                *)

\* stop() of a broker.
LEMMA StopCalled ==
    ASSUME IInv, NEW b \in Brokers, NEW by \in Awaited, CallStop(b, by),
           owner' = owner, \A d \in Brokers : ~Noted(ops[d], by),
           startup'.broker = IF by = "startup" THEN b ELSE startup.broker,
           shutdownAt' = IF by = "shutdown" THEN "stop" ELSE shutdownAt,
           \A g \in Closures : suspendAt'[g] = IF by = g THEN "stop" ELSE suspendAt[g],
           \A d \in Brokers : d # b \/ by \in Closures => (Kept(d) => Kept(d)')
    PROVE  BrokerTypes' /\ CallsInv' /\ \A d \in Brokers : KeptAt(d)'
<1>1. TypeOK /\ BrokerTypes /\ CallsInv
  BY InvParts
<1>2. by \in Clients /\ (by \in Closers \/ by \in Closures)
  BY Apart DEF Awaited, Closers
<1>3. /\ CallsInv' /\ ops' \in [Brokers -> Seq(Entry)]
      /\ ops'[b] = Append(ops[b], [op |-> "stop", by |-> by])
      /\ \A d \in Brokers \ {b} : ops'[d] = ops[d]
  <2>1. Call(b, "stop", by) /\ "stop" \in {"start", "stop"}
    BY DEF CallStop
  <2> QED  BY <1>1, <1>2, <2>1, CallsMade
<1>4. /\ kind' = kind /\ stopped' \in [Brokers -> BOOLEAN] /\ up' \in [Brokers -> BOOLEAN]
      /\ stopped'[b] = (kind[b] = "proxy") /\ \A d \in Brokers \ {b} : stopped'[d] = stopped[d]
  BY <1>1 DEF CallStop, BrokerTypes
<1>5. BrokerTypes'
  BY <1>1, <1>3, <1>4 DEF BrokerTypes
<1>6. KeptAt(b)'
  <2>1. KeptAt(b) /\ (by \in Closers \/ (Kept(b) => Kept(b)'))
    BY <1>2, InvParts
  <2> QED  BY <1>1, <1>2, <1>3, <1>4, <2>1, KeptStopped
<1>7. ASSUME NEW d \in Brokers \ {b}
      PROVE  KeptAt(d)'
  <2>1. KeptAt(d)
    BY InvParts
  <2> QED  BY <1>3, <1>4, <2>1, KeptRest
<1>8. \A d \in Brokers : KeptAt(d)'
  BY <1>6, <1>7
<1> QED  BY <1>3, <1>5, <1>8

\* start() of the broker everybody uses, by a call, a timer or onResume.
LEMMA StartCalled ==
    ASSUME IInv, NEW b \in Brokers, singleton = b, NEW by \in Threads \cup {"resume"},
           CallStart(b, by), UNCHANGED <<owner, acquireVars, shutdownAt, suspendAt>>
    PROVE  BrokerTypes' /\ CallsInv' /\ StartupInv' /\ \A d \in Brokers : KeptAt(d)'
<1>1. TypeOK /\ BrokerTypes /\ CallsInv /\ StartupInv
  BY InvParts
<1>2. by \in Clients /\ by \notin Awaited
  BY Apart DEF Awaited
<1>3. singleton' = singleton /\ startup' = startup
  BY DEF acquireVars
<1>4. /\ CallsInv' /\ ops' \in [Brokers -> Seq(Entry)]
      /\ \A d \in Brokers \ {b} : ops'[d] = ops[d]
  <2>1. /\ Call(b, "start", by) /\ "start" \in {"start", "stop"}
        /\ by # "startup" /\ by # "shutdown" /\ by \notin Closures
    BY <1>2 DEF CallStart, Awaited
  <2> QED  BY <1>1, <1>2, <1>3, <2>1, CallsMade
<1>5. /\ kind' = kind /\ up' = up /\ stopped' \in [Brokers -> BOOLEAN]
      /\ \A d \in Brokers \ {b} : stopped'[d] = stopped[d]
  BY <1>1 DEF CallStart, BrokerTypes
<1>6. BrokerTypes'
  BY <1>1, <1>4, <1>5 DEF BrokerTypes
<1>7. startup'.at = "none"
  BY <1>1, <1>3, Apart DEF StartupInv
<1>8. StartupInv'
  BY <1>7 DEF StartupInv
<1>9. \A d \in Brokers : Kept(d) => Kept(d)'
  BY <1>3 DEF Kept
<1>10. KeptAt(b)'
  BY <1>3 DEF KeptAt, Kept
<1>11. ASSUME NEW d \in Brokers \ {b}
       PROVE  KeptAt(d)'
  <2>1. KeptAt(d)
    BY InvParts
  <2> QED  BY <1>4, <1>5, <1>9, <2>1, KeptRest
<1>12. \A d \in Brokers : KeptAt(d)'
  BY <1>10, <1>11
<1> QED  BY <1>4, <1>6, <1>8, <1>12

\* What getOrCreateBroker() promises to a session.
Promise ==
    /\ PortTypes' /\ BrokerTypes' /\ AcquireTypes' /\ ProcessTypes'
    /\ StartupInv' /\ CallsInv' /\ SessionInv' /\ \A d \in Brokers : KeptAt(d)'
    /\ singleton' \in {singleton, None} /\ (Healthy => singleton' = singleton)
    /\ startup.at # "none" => startup'.at # "none"
    /\ ~Healthy /\ ~shuttingDown => startup'.at # "none"
    /\ session' = session /\ shutdownAt' = shutdownAt

\* Nothing has to begin.
LEMMA AcquiredAlready ==
    ASSUME IInv, UNCHANGED <<brokerVars, acquireVars, portVars, processVars>>
    PROVE  /\ PortTypes' /\ BrokerTypes' /\ AcquireTypes' /\ ProcessTypes'
           /\ StartupInv' /\ CallsInv' /\ SessionInv' /\ \A d \in Brokers : KeptAt(d)'
           /\ singleton' = singleton /\ startup' = startup
           /\ session' = session /\ shutdownAt' = shutdownAt
<1>1. PortTypes' /\ BrokerTypes' /\ AcquireTypes' /\ ProcessTypes'
  BY InvParts, PartsSame
<1>2. /\ session' = session /\ shutdownAt' = shutdownAt /\ suspendAt' = suspendAt
      /\ singleton' = singleton /\ startup' = startup
  BY DEF processVars, acquireVars
<1>3. StartupInv' /\ CallsInv' /\ \A d \in Brokers : KeptAt(d)'
  BY <1>2, InvParts, BrokersRest DEF brokerVars, portVars, StartupInv
<1>4. SessionInv'
  BY <1>2, InvParts DEF SessionInv
<1> QED  BY <1>1, <1>2, <1>3, <1>4

\* A startup begins.
LEMMA Begun ==
    ASSUME IInv, Begin, UNCHANGED <<portVars, processVars>>, session # None
    PROVE  /\ BrokerTypes' /\ AcquireTypes' /\ StartupInv' /\ CallsInv'
           /\ \A d \in Brokers : KeptAt(d)'
           /\ singleton' = None /\ startup'.at # "none" /\ ~Healthy /\ startup.at = "none"
<1>1. /\ TypeOK /\ PortTypes /\ BrokerTypes /\ AcquireTypes /\ StartupInv /\ CallsInv /\ SessionInv
  BY InvParts
<1>2. Acquisition = "begin" /\ startup = Idle /\ startup.at = "none" /\ ~Healthy
  BY DEF Begin, Acquisition, Idle, Healthy
<1>3. shutdownAt = "none" /\ shutdownAt' = shutdownAt /\ suspendAt' = suspendAt /\ owner' = owner
  BY <1>1 DEF SessionInv, processVars, portVars
<1>4. \A d \in Brokers : ~Noted(ops[d], "startup")
  BY <1>1, <1>2, NothingBegun
<1>5. startup.broker \notin Brokers
  BY <1>2, Apart DEF Idle
<1>6. CASE singleton # None
  <2>1. PICK b \in Brokers : singleton = b
    BY <1>1, <1>6 DEF AcquireTypes
  <2>2. /\ CallStop(b, "startup") /\ singleton' = None
        /\ startup' = [at |-> "retiring", broker |-> b, outdated |-> FALSE]
    BY <1>6, <2>1 DEF Begin
  <2>3. /\ startup' \in Startups /\ startup'.at = "retiring" /\ startup'.broker = b
    BY <2>2 DEF Startups
  <2>4. \A d \in Brokers : d # b => ~Kept(d)
    BY <1>5, <2>1 DEF Kept
  <2>5. BrokerTypes' /\ CallsInv' /\ \A d \in Brokers : KeptAt(d)'
    BY <1>3, <1>4, <2>2, <2>3, <2>4, StopCalled, ClosureFacts DEF Awaited
  <2>6. AcquireTypes' /\ StartupInv'
    BY <1>3, <2>2, <2>3 DEF AcquireTypes, StartupInv
  <2> QED  BY <1>2, <2>2, <2>3, <2>5, <2>6
<1>7. CASE singleton = None
  <2>1. PICK b \in Brokers :
          /\ Make(b, "primary")
          /\ startup' = [at |-> "starting", broker |-> b, outdated |-> FALSE]
          /\ UNCHANGED singleton
    BY <1>7 DEF Begin
  <2>2. /\ startup' \in Startups /\ startup'.at = "starting" /\ startup'.broker = b
        /\ singleton' = None
    BY <1>7, <2>1 DEF Startups
  <2>3. owner # b /\ ops[b] = <<>>
    BY <2>1 DEF Make, Referred
  <2>4. /\ CallsInv' /\ ops' \in [Brokers -> Seq(Entry)]
        /\ ops'[b] = Append(ops[b], [op |-> "start", by |-> "startup"])
        /\ \A d \in Brokers \ {b} : ops'[d] = ops[d]
    <3>1. Call(b, "start", "startup") /\ "start" \in {"start", "stop"} /\ "startup" \in Clients
      BY <2>1, Apart DEF Make
    <3> QED  BY <1>1, <1>3, <1>4, <2>2, <3>1, CallsMade, ClosureFacts
  <2>5. ops'[b] = <<Start>>
    <3>1. Start \in Entry
      BY Apart DEF Start, Entry
    <3>2. ops'[b] = Append(<<>>, Start)
      BY <2>3, <2>4 DEF Start
    <3> QED  BY <3>1, <3>2, FewCalls
  <2>6. /\ kind' \in [Brokers -> {"none", "primary", "proxy"}] /\ kind'[b] = "primary"
        /\ stopped' \in [Brokers -> BOOLEAN] /\ up' \in [Brokers -> BOOLEAN]
        /\ \A d \in Brokers \ {b} : kind'[d] = kind[d] /\ stopped'[d] = stopped[d]
    BY <1>1, <2>1 DEF Make, BrokerTypes
  <2>7. BrokerTypes' /\ AcquireTypes'
    BY <1>7, <2>2, <2>4, <2>6 DEF BrokerTypes, AcquireTypes
  <2>8. StartupInv'
    BY <1>3, <2>2, <2>3, <2>5, <2>6 DEF StartupInv
  <2>9. ASSUME NEW d \in Brokers
        PROVE  KeptAt(d)'
    <3>1. CASE d = b
      BY <2>2, <3>1 DEF KeptAt, Kept
    <3>2. CASE d # b
      <4>1. KeptAt(d) /\ ~Kept(d)
        BY <1>5, <1>7, InvParts, Apart DEF Kept
      <4> QED  BY <1>3, <2>4, <2>6, <3>2, <4>1, KeptRest
    <3> QED  BY <3>1, <3>2
  <2> QED  BY <1>2, <2>2, <2>4, <2>7, <2>8, <2>9
<1> QED  BY <1>6, <1>7

LEMMA Acquired ==
    ASSUME IInv, Acquire, UNCHANGED <<portVars, processVars>>, session # None
    PROVE  Promise
<1>1. CASE Begin
  <2>1. /\ BrokerTypes' /\ AcquireTypes' /\ StartupInv' /\ CallsInv'
        /\ \A d \in Brokers : KeptAt(d)'
        /\ singleton' = None /\ startup'.at # "none" /\ ~Healthy
    BY <1>1, Begun
  <2>2. PortTypes' /\ ProcessTypes'
    BY InvParts, PartsSame
  <2>3. session' = session /\ shutdownAt' = shutdownAt
    BY DEF processVars
  <2>4. SessionInv'
    BY <2>3, InvParts DEF SessionInv
  <2> QED  BY <2>1, <2>2, <2>3, <2>4 DEF Promise
<1>2. CASE Acquisition # "begin" /\ UNCHANGED <<brokerVars, acquireVars>>
  <2>1. /\ PortTypes' /\ BrokerTypes' /\ AcquireTypes' /\ ProcessTypes'
        /\ StartupInv' /\ CallsInv' /\ SessionInv' /\ \A d \in Brokers : KeptAt(d)'
        /\ singleton' = singleton /\ startup' = startup
        /\ session' = session /\ shutdownAt' = shutdownAt
    BY <1>2, AcquiredAlready
  <2>2. ~Healthy /\ ~shuttingDown => startup.at # "none"
    <3>1. startup = Idle <=> startup.at = "none"
      BY InvParts, StartupFacts
    <3> QED  BY <1>2, <3>1 DEF Acquisition, Healthy
  <2> QED  BY <2>1, <2>2 DEF Promise
<1> QED  BY <1>1, <1>2 DEF Acquire

LEMMA SessionPreparedKeeps ==
    ASSUME IInv, NEW s \in Sessions, SessionPrepared(s), \A t \in Threads : pc[t] # "ensuring"
    PROVE  IInv'
<1>1. /\ stage[s] = "preparing" /\ UNCHANGED <<portVars, processVars, resolving, threadVars>>
  BY DEF SessionPrepared
<1>2. HandleTypes /\ ThreadTypes /\ Awaiting /\ HandleInv /\ AcquireTypes
  BY InvParts
<1>3. /\ ThreadTypes' /\ pc' = pc /\ brk' = brk /\ resolving' = resolving
  BY <1>1, <1>2, PartsSame DEF threadVars
<1>4. CASE session # s
  <2>1. /\ stage' = [stage EXCEPT ![s] = "over"]
        /\ UNCHANGED <<brokerVars, acquireVars, disposed, current>>
    BY <1>4 DEF SessionPrepared
  <2>2. /\ PortTypes' /\ BrokerTypes' /\ AcquireTypes' /\ ProcessTypes'
        /\ StartupInv' /\ CallsInv' /\ SessionInv' /\ \A d \in Brokers : KeptAt(d)'
        /\ singleton' = singleton /\ startup' = startup
        /\ session' = session /\ shutdownAt' = shutdownAt
    BY <1>1, <2>1, AcquiredAlready
  <2>3. /\ HandleTypes' /\ disposed' = disposed /\ current' = current
        /\ stage'[s] = "over" /\ \A r \in Sessions \ {s} : stage'[r] = stage[r]
    BY <1>1, <1>2, <2>1 DEF HandleTypes, Stages
  <2>4. disposed[s]
    BY <1>1, <1>2, <1>4 DEF HandleInv
  <2>5. Awaiting' /\ HandleInv'
    BY <1>2, <1>3, <2>2, <2>3, <2>4 DEF Awaiting, HandleInv
  <2> QED  BY <1>3, <2>2, <2>3, <2>5, Whole
<1>5. CASE session = s
  <2>1. /\ disposed' = [disposed EXCEPT ![s] = FALSE]
        /\ current' = [current EXCEPT ![s] = IF Healthy THEN singleton ELSE None]
        /\ stage' = [stage EXCEPT ![s] =
                        IF Healthy \/ shuttingDown THEN "live" ELSE "acquiring"]
        /\ Acquire
    BY <1>5 DEF SessionPrepared
  <2>2. Promise
    BY <1>1, <1>5, <2>1, Apart, Acquired
  <2>3. /\ singleton' \in {singleton, None} /\ (Healthy => singleton' = singleton)
        /\ startup.at # "none" => startup'.at # "none"
        /\ ~Healthy /\ ~shuttingDown => startup'.at # "none"
        /\ session' = session /\ shutdownAt' = shutdownAt /\ AcquireTypes'
    BY <2>2 DEF Promise
  <2>4. singleton \in Brokers \cup {None}
    BY <1>2, StartupFacts
  <2>5. /\ HandleTypes'
        /\ current'[s] = IF Healthy THEN singleton ELSE None
        /\ stage'[s] = IF Healthy \/ shuttingDown THEN "live" ELSE "acquiring"
        /\ \A r \in Sessions \ {s} :
              disposed'[r] = disposed[r] /\ current'[r] = current[r] /\ stage'[r] = stage[r]
    BY <1>1, <1>2, <2>1, <2>4 DEF HandleTypes, Stages
  <2>6. /\ startup = Idle <=> startup.at = "none"
        /\ startup' = Idle => startup'.at = "none"
    BY <1>2, StartupFacts DEF Idle
  <2>7. Awaiting'
    <3>1. ASSUME NEW r \in Sessions, stage'[r] = "acquiring"
          PROVE  startup' # Idle
      <4>1. CASE r = s
        BY <2>3, <2>5, <2>6, <3>1, <4>1
      <4>2. CASE r # s
        BY <1>2, <2>3, <2>5, <2>6, <3>1, <4>2 DEF Awaiting
      <4> QED  BY <4>1, <4>2
    <3>2. \A t \in Threads : pc'[t] = "resolving" => startup' # Idle
      BY <1>2, <1>3, <2>3, <2>6 DEF Awaiting
    <3> QED  BY <3>1, <3>2 DEF Awaiting
  <2>8. HandleInv'
    <3>1. ASSUME NEW r \in Sessions
          PROVE  /\ disposed'[r] \/ session' = r \/ stage'[r] = "none"
                 /\ disposed'[r] \/ stage'[r] = "none" \/ current'[r] \in {None, singleton'}
                 /\ resolving'[r] => startup'.at # "none"
      <4>1. CASE r = s
        BY <1>2, <1>3, <1>5, <2>3, <2>5, <4>1 DEF HandleInv
      <4>2. CASE r # s
        BY <1>2, <1>3, <1>5, <2>3, <2>5, <4>2 DEF HandleInv
      <4> QED  BY <4>1, <4>2
    <3> QED  BY <1>3, <3>1 DEF HandleInv
  <2> QED  BY <1>3, <2>2, <2>5, <2>7, <2>8, Whole DEF Promise
<1> QED  BY <1>4, <1>5

LEMMA EnsureReadyKeeps ==
    ASSUME IInv, NEW t \in Threads, EnsureReady(t), \A u \in Threads : pc[u] # "ensuring"
    PROVE  IInv'
<1>1. PICK s \in Sessions : Of(t) = s
  BY Apart
<1>2. /\ pc[t] = "idle" /\ stage[s] \in {"acquiring", "live", "over"} /\ ~disposed[s]
      /\ UNCHANGED <<portVars, processVars, stage, disposed>>
  BY <1>1 DEF EnsureReady
<1>3. HandleTypes /\ ThreadTypes /\ Awaiting /\ HandleInv /\ AcquireTypes /\ SessionInv
  BY InvParts
<1>4. session = s /\ session # None /\ shutdownAt = "none" /\ current[s] \in {None, singleton}
  BY <1>2, <1>3, Apart DEF HandleInv, SessionInv
<1>5. ASSUME NEW b \in Brokers, b = singleton, Reaches(t, b), UNCHANGED <<brokerVars, acquireVars, resolving>>,
             current' = current \/ current' = [current EXCEPT ![s] = b]
      PROVE  IInv'
  <2>1. /\ PortTypes' /\ BrokerTypes' /\ AcquireTypes' /\ ProcessTypes'
        /\ StartupInv' /\ CallsInv' /\ SessionInv' /\ \A d \in Brokers : KeptAt(d)'
        /\ singleton' = singleton /\ startup' = startup
        /\ session' = session /\ shutdownAt' = shutdownAt
    BY <1>2, <1>5, AcquiredAlready
  <2>2. /\ ThreadTypes' /\ pc'[t] = "ensuring" /\ brk'[t] = b
        /\ \A u \in Threads \ {t} : pc'[u] = pc[u] /\ brk'[u] = brk[u]
    BY <1>3, <1>5 DEF Reaches, ThreadTypes, Points
  <2>3. /\ HandleTypes' /\ stage' = stage /\ disposed' = disposed /\ resolving' = resolving
        /\ \A r \in Sessions : current'[r] \in {current[r], b}
    BY <1>2, <1>3, <1>5 DEF HandleTypes
  <2>4. Awaiting'
    BY <1>3, <2>1, <2>2, <2>3 DEF Awaiting
  <2>5. b # None
    BY Apart
  <2>6. HandleInv'
    BY <1>3, <1>4, <1>5, <2>1, <2>2, <2>3, <2>5 DEF HandleInv
  <2> QED  BY <2>1, <2>2, <2>3, <2>4, <2>6, Whole
<1>6. CASE current[s] # None
  <2>1. PICK b \in Brokers : b = current[s]
    BY <1>3, <1>6 DEF HandleTypes
  <2>2. Reaches(t, b) /\ UNCHANGED <<brokerVars, acquireVars, current, resolving>>
    BY <1>1, <1>6, <2>1 DEF EnsureReady
  <2> QED  BY <1>4, <1>5, <1>6, <2>1, <2>2
<1>7. CASE current[s] = None /\ ~resolving[s] /\ Healthy
  <2>1. PICK b \in Brokers : b = singleton
    BY <1>3, <1>7 DEF Healthy, AcquireTypes
  <2>2. /\ Reaches(t, b) /\ current' = [current EXCEPT ![s] = b]
        /\ UNCHANGED <<brokerVars, acquireVars, resolving>>
    BY <1>1, <1>7, <2>1 DEF EnsureReady
  <2> QED  BY <1>5, <2>1, <2>2
<1>8. CASE current[s] = None /\ (resolving[s] \/ ~Healthy)
  <2>1. /\ resolving[s] \/ ~shuttingDown
        /\ pc' = [pc EXCEPT ![t] = "resolving"]
        /\ resolving' = [resolving EXCEPT ![s] = TRUE]
        /\ IF resolving[s] THEN UNCHANGED <<brokerVars, acquireVars>> ELSE Acquire
        /\ UNCHANGED <<current, brk>>
    BY <1>1, <1>8 DEF EnsureReady
  <2>2. /\ PortTypes' /\ BrokerTypes' /\ AcquireTypes' /\ ProcessTypes'
        /\ StartupInv' /\ CallsInv' /\ SessionInv' /\ \A d \in Brokers : KeptAt(d)'
        /\ singleton' \in {singleton, None}
        /\ startup.at # "none" => startup'.at # "none"
        /\ startup'.at # "none"
        /\ session' = session /\ shutdownAt' = shutdownAt
    <3>1. CASE resolving[s]
      <4>1. UNCHANGED <<brokerVars, acquireVars, portVars, processVars>>
        BY <1>2, <2>1, <3>1
      <4>2. startup.at # "none"
        BY <1>3, <3>1 DEF HandleInv
      <4> QED  BY <4>1, <4>2, AcquiredAlready
    <3>2. CASE ~resolving[s]
      <4>1. Promise /\ ~Healthy /\ ~shuttingDown
        BY <1>2, <1>4, <1>8, <2>1, <3>2, Acquired
      <4> QED  BY <4>1 DEF Promise
    <3> QED  BY <3>1, <3>2
  <2>3. startup' # Idle
    BY <2>2 DEF Idle
  <2>4. /\ ThreadTypes' /\ \A u \in Threads : pc'[u] # "ensuring"
    BY <1>3, <2>1 DEF ThreadTypes, Points
  <2>5. /\ HandleTypes' /\ stage' = stage /\ disposed' = disposed /\ current' = current
    BY <1>2, <1>3, <2>1 DEF HandleTypes
  <2>6. Awaiting'
    BY <2>3 DEF Awaiting
  <2>7. HandleInv'
    <3>1. ASSUME NEW r \in Sessions
          PROVE  /\ disposed'[r] \/ session' = r \/ stage'[r] = "none"
                 /\ disposed'[r] \/ stage'[r] = "none" \/ current'[r] \in {None, singleton'}
                 /\ resolving'[r] => startup'.at # "none"
      <4>1. disposed'[r] \/ session' = r \/ stage'[r] = "none"
        BY <1>3, <2>2, <2>5 DEF HandleInv
      <4>2. disposed'[r] \/ stage'[r] = "none" \/ current'[r] \in {None, singleton'}
        BY <1>4, <1>8, <2>2, <2>5, <4>1
      <4> QED  BY <2>2, <4>1, <4>2
    <3> QED  BY <2>4, <3>1 DEF HandleInv
  <2> QED  BY <2>2, <2>4, <2>5, <2>6, <2>7, Whole
<1> QED  BY <1>6, <1>7, <1>8

LEMMA BrokerReadyKeeps ==
    ASSUME IInv, NEW t \in Threads, BrokerReady(t)
    PROVE  IInv'
<1>1. PICK at \in {"rebinding", "bridging"} :
        /\ pc[t] = "ensuring" /\ pc' = [pc EXCEPT ![t] = at]
        /\ CallStart(brk[t], t) \/ UNCHANGED brokerVars
        /\ UNCHANGED <<portVars, acquireVars, processVars, handleVars, brk>>
  BY DEF BrokerReady
<1>2. HandleTypes /\ ThreadTypes /\ Awaiting /\ HandleInv /\ AcquireTypes /\ SessionInv
  BY InvParts
<1>3. PICK b \in Brokers : brk[t] = b /\ singleton = b
  BY <1>1, <1>2 DEF HandleInv, ThreadTypes
<1>4. PortTypes' /\ AcquireTypes' /\ ProcessTypes' /\ HandleTypes'
  BY <1>1, InvParts, PartsSame
<1>5. /\ session' = session /\ shutdownAt' = shutdownAt /\ suspendAt' = suspendAt
      /\ singleton' = singleton /\ startup' = startup /\ owner' = owner
      /\ stage' = stage /\ disposed' = disposed /\ current' = current /\ resolving' = resolving
  BY <1>1 DEF processVars, acquireVars, handleVars, portVars
<1>6. BrokerTypes' /\ CallsInv' /\ StartupInv' /\ \A d \in Brokers : KeptAt(d)'
  <2>1. CASE CallStart(brk[t], t)
    BY <1>1, <1>3, <1>5, <2>1, StartCalled
  <2>2. CASE UNCHANGED brokerVars
    BY <1>1, <2>2, AcquiredAlready
  <2> QED  BY <1>1, <2>1, <2>2
<1>7. ThreadTypes' /\ \A u \in Threads : pc'[u] \in {pc[u], "rebinding", "bridging"}
  BY <1>1, <1>2 DEF ThreadTypes, Points
<1>8. Awaiting' /\ HandleInv' /\ SessionInv'
  BY <1>1, <1>2, <1>5, <1>7 DEF Awaiting, HandleInv, SessionInv
<1> QED  BY <1>4, <1>6, <1>7, <1>8, Whole

LEMMA ShutdownStopsKeeps ==
    ASSUME IInv, ShutdownStops
    PROVE  IInv'
<1>1. /\ shutdownAt = "startup" /\ startup = Idle /\ singleton' = None
      /\ UNCHANGED <<portVars, startup, shuttingDown, suspending, handlers, session,
                     suspendAt, suspended, frozen, handleVars, threadVars>>
  BY DEF ShutdownStops
<1>2. /\ TypeOK /\ ProcessTypes /\ AcquireTypes /\ HandleTypes /\ ThreadTypes /\ Awaiting
      /\ HandleInv /\ SessionInv /\ CallsInv
  BY InvParts
<1>3. startup.at = "none" /\ startup.broker \notin Brokers /\ session = None
  BY <1>1, <1>2, Apart DEF Idle, SessionInv
<1>4. PortTypes' /\ AcquireTypes' /\ HandleTypes' /\ ThreadTypes'
  BY <1>1, InvParts, PartsSame DEF AcquireTypes
<1>5. /\ session' = session /\ suspendAt' = suspendAt /\ startup' = startup /\ owner' = owner
      /\ stage' = stage /\ disposed' = disposed /\ resolving' = resolving /\ current' = current
      /\ pc' = pc /\ brk' = brk
  BY <1>1 DEF handleVars, threadVars, portVars
<1>6. shutdownAt' \in {"unpublish", "stop"}
  BY <1>1 DEF ShutdownStops
<1>7. ProcessTypes'
  BY <1>1, <1>2, <1>6 DEF ProcessTypes
<1>8. StartupInv' /\ Awaiting' /\ SessionInv'
  BY <1>1, <1>2, <1>3, <1>5, <1>6 DEF StartupInv, Awaiting, SessionInv
<1>9. HandleInv'
  <2>1. \A s \in Sessions : disposed[s] \/ stage[s] = "none"
    BY <1>2, <1>3, Apart DEF HandleInv
  <2>2. \A t \in Threads : pc[t] # "ensuring"
    BY <1>1, <1>2 DEF HandleInv
  <2> QED  BY <1>2, <1>5, <2>1, <2>2 DEF HandleInv
<1>10. BrokerTypes' /\ CallsInv' /\ \A d \in Brokers : KeptAt(d)'
  <2>1. CASE singleton = None
    <3>1. UNCHANGED brokerVars
      BY <2>1 DEF ShutdownStops
    <3>2. StartupInv' /\ CallsInv' /\ \A d \in Brokers : KeptAt(d)'
      BY <1>1, <1>3, <1>5, <2>1, <3>1, BrokersRest DEF brokerVars
    <3> QED  BY <3>1, <3>2, InvParts, PartsSame
  <2>2. CASE singleton # None
    <3>1. PICK b \in Brokers : singleton = b
      BY <1>2, <2>2 DEF AcquireTypes
    <3>2. shutdownAt' = "stop" /\ CallStop(b, "shutdown")
      BY <2>2, <3>1 DEF ShutdownStops
    <3>3. \A d \in Brokers : ~Noted(ops[d], "shutdown")
      BY <1>1, <1>2, NothingBegun
    <3>4. \A d \in Brokers : d # b => ~Kept(d)
      BY <1>3, <3>1 DEF Kept
    <3> QED  BY <1>5, <3>2, <3>3, <3>4, StopCalled, ClosureFacts DEF Awaited
  <2> QED  BY <2>1, <2>2
<1> QED  BY <1>4, <1>7, <1>8, <1>9, <1>10, Whole

LEMMA SuspendStopsKeeps ==
    ASSUME IInv, NEW g \in Closures, SuspendStops(g)
    PROVE  IInv'
<1>1. /\ suspendAt[g] = "startup" /\ startup = Idle
      /\ suspended' = [suspended EXCEPT ![g] = None] /\ frozen' \in {TRUE, frozen}
      /\ \E at \in {"none", "stop"} : suspendAt' = [suspendAt EXCEPT ![g] = at]
      /\ UNCHANGED <<portVars, acquireVars, shuttingDown, suspending, handlers, session,
                     shutdownAt, handleVars, threadVars>>
  BY DEF SuspendStops
<1>2. TypeOK /\ ProcessTypes /\ SessionInv /\ CallsInv
  BY InvParts
<1>3. PortTypes' /\ ProcessTypes'
  BY <1>1, InvParts, PartsSame DEF ProcessTypes
<1>4. /\ HandleTypes' /\ ThreadTypes' /\ AcquireTypes' /\ Awaiting' /\ HandleInv'
      /\ singleton' = singleton /\ startup' = startup
      /\ \A d \in Brokers : Kept(d)' = Kept(d)
  BY <1>1, HandlesRest
<1>5. session' = session /\ shutdownAt' = shutdownAt /\ owner' = owner /\ startup.at = "none"
  BY <1>1 DEF portVars, Idle
<1>6. SessionInv' /\ StartupInv'
  BY <1>2, <1>4, <1>5 DEF SessionInv, StartupInv
<1>7. BrokerTypes' /\ CallsInv' /\ \A d \in Brokers : KeptAt(d)'
  <2> \A h \in Closures : suspendAt'[h] = suspendAt[h] \/ suspendAt[h] # "stop"
    BY <1>1, <1>2 DEF ProcessTypes
  <2>1. CASE suspended[g] = None
    <3>1. UNCHANGED brokerVars
      BY <2>1 DEF SuspendStops
    <3>2. StartupInv' /\ CallsInv' /\ \A d \in Brokers : KeptAt(d)'
      BY <1>1, <1>4, <1>5, <3>1, BrokersRest DEF brokerVars
    <3> QED  BY <3>1, <3>2, InvParts, PartsSame
  <2>2. CASE suspended[g] # None
    <3>1. PICK b \in Brokers : suspended[g] = b
      BY <1>2, <2>2, InvParts DEF ProcessTypes
    <3>2. suspendAt' = [suspendAt EXCEPT ![g] = "stop"] /\ CallStop(b, g)
      BY <2>2, <3>1 DEF SuspendStops
    <3>3. \A d \in Brokers : ~Noted(ops[d], g)
      BY <1>1, <1>2, NothingBegun
    <3>4. \A h \in Closures : suspendAt'[h] = IF g = h THEN "stop" ELSE suspendAt[h]
      BY <1>2, <3>2 DEF ProcessTypes
    <3>5. g \in Awaited /\ g # "startup" /\ g # "shutdown"
      BY Apart DEF Awaited
    <3> QED  BY <1>4, <1>5, <3>2, <3>3, <3>4, <3>5, StopCalled
  <2> QED  BY <2>1, <2>2
<1> QED  BY <1>3, <1>4, <1>6, <1>7, Whole

LEMMA ResumeKeeps ==
    ASSUME IInv, Resume
    PROVE  IInv'
<1>1. /\ frozen' = FALSE /\ suspending' \in {FALSE, suspending}
      /\ shuttingDown' \in {FALSE, shuttingDown}
      /\ UNCHANGED <<portVars, acquireVars, handlers, session, suspended, shutdownAt,
                     suspendAt, handleVars, threadVars>>
  BY DEF Resume
<1>2. ProcessTypes /\ SessionInv /\ AcquireTypes
  BY InvParts
<1>3. PortTypes' /\ ProcessTypes'
  BY <1>1, InvParts, PartsSame DEF ProcessTypes
<1>4. /\ HandleTypes' /\ ThreadTypes' /\ AcquireTypes' /\ Awaiting' /\ HandleInv'
      /\ singleton' = singleton /\ startup' = startup
  BY <1>1, HandlesRest
<1>5. /\ session' = session /\ shutdownAt' = shutdownAt /\ suspendAt' = suspendAt
      /\ owner' = owner
  BY <1>1 DEF portVars
<1>6. SessionInv'
  BY <1>2, <1>4, <1>5 DEF SessionInv
<1>7. BrokerTypes' /\ CallsInv' /\ StartupInv' /\ \A d \in Brokers : KeptAt(d)'
  <2>1. CASE UNCHANGED brokerVars
    <3>1. StartupInv' /\ CallsInv' /\ \A d \in Brokers : KeptAt(d)'
      BY <1>4, <1>5, <2>1, InvParts, BrokersRest DEF brokerVars, StartupInv
    <3> QED  BY <2>1, <3>1, InvParts, PartsSame
  <2>2. CASE ~ UNCHANGED brokerVars
    <3>1. singleton # None /\ CallStart(singleton, "resume")
      BY <2>2 DEF Resume
    <3>2. PICK b \in Brokers : singleton = b
      BY <1>2, <3>1 DEF AcquireTypes
    <3> QED  BY <1>1, <1>5, <3>1, <3>2, StartCalled
  <2> QED  BY <2>1, <2>2
<1> QED  BY <1>3, <1>4, <1>6, <1>7, Whole

-----------------------------------------------------------------------------
(* The invariant holds.                                                    *)

LEMMA InitHolds == Init => IInv
<1> SUFFICES ASSUME Init
             PROVE  IInv
  OBVIOUS
<1>1. Idle.at = "none" /\ Idle.broker = None
  BY DEF Idle
<1>2. Start \in Entry
  BY Apart DEF Start, Entry
<1>3. /\ <<>> \in Seq(Entry) /\ Covered(<<>>, Closers) /\ Single(<<>>)
      /\ \A by : ~Noted(<<>>, by)
  BY <1>2, FewCalls
<1>4. /\ PortTypes /\ AcquireTypes /\ ProcessTypes /\ HandleTypes /\ ThreadTypes /\ Awaiting
  <2>1. PortTypes /\ AcquireTypes
    BY Apart DEF Init, PortTypes, AcquireTypes
  <2>2. ProcessTypes
    BY DEF Init, ProcessTypes
  <2>3. HandleTypes /\ ThreadTypes
    BY DEF Init, HandleTypes, ThreadTypes, Stages, Points
  <2>4. Awaiting
    BY DEF Init, Awaiting
  <2> QED  BY <2>1, <2>2, <2>3, <2>4
<1>5. BrokerTypes
  BY <1>3 DEF Init, BrokerTypes
<1>6. StartupInv /\ HandleInv /\ SessionInv
  BY <1>1 DEF Init, StartupInv, HandleInv, SessionInv
<1>7. \A b \in Brokers : ops[b] = <<>> /\ kind[b] = "none" /\ owner # b
  BY Apart DEF Init
<1>8. CallsInv
  BY <1>3, <1>7 DEF CallsInv, CallsAt
<1>9. \A b \in Brokers : KeptAt(b)
  BY <1>7 DEF KeptAt, Heals
<1> QED  BY <1>4, <1>5, <1>6, <1>8, <1>9, TypeParts DEF IInv

LEMMA StutterKeeps ==
    ASSUME IInv, UNCHANGED vars
    PROVE  IInv'
<1>1. UNCHANGED <<portVars, brokerVars, acquireVars, processVars, handleVars, threadVars>>
  BY DEF vars
<1>2. HandleTypes' /\ ThreadTypes' /\ AcquireTypes' /\ Awaiting' /\ HandleInv'
  BY <1>1, HandlesRest DEF processVars
<1>3. /\ PortTypes' /\ BrokerTypes' /\ ProcessTypes'
      /\ StartupInv' /\ CallsInv' /\ SessionInv' /\ \A d \in Brokers : KeptAt(d)'
  BY <1>1, AcquiredAlready
<1> QED  BY <1>2, <1>3, Whole

LEMMA NextKeeps == IInv /\ [Next]_vars => IInv'
<1> SUFFICES ASSUME IInv, [Next]_vars
             PROVE  IInv'
  OBVIOUS
<1>1. CASE UNCHANGED vars
  BY <1>1, StutterKeeps
<1>2. CASE Resumed
  BY <1>2, ShutdownStopsKeeps, SuspendStopsKeeps, BrokerReadyKeeps DEF Resumed
<1>3. CASE Drained /\ Lifecycle
  <2>1. ASSUME NEW b \in Brokers, NEW i \in DOMAIN ops[b],
               \/ StaleStopped(b, i) \/ PrimaryStarted(b, i) \/ PrimaryFailed(b, i)
               \/ ProxyStarted(b, i) \/ ProxyFailed(b, i) \/ CandidateStopped(b, i)
        PROVE  IInv'
    BY <2>1, StaleStoppedKeeps, PrimaryStartedKeeps, PrimaryFailedKeeps, ProxyStartedKeeps,
       ProxyFailedKeeps, CandidateStoppedKeeps
  <2>2. ASSUME NEW b \in Brokers, NEW i \in DOMAIN ops[b],
               \/ ShutdownStopped(b, i) \/ \E g \in Closures : SuspendStopped(b, i, g)
               \/ ResumeStarted(b, i) \/ ResumeFailed(b, i)
               \/ \E t \in Threads : Rebound(t, b, i) \/ ReboundFailed(t, b, i)
        PROVE  IInv'
    BY <2>2, ShutdownStoppedKeeps, SuspendStoppedKeeps, ResumeStartedKeeps, ResumeFailedKeeps,
       ReboundKeeps, ReboundFailedKeeps
  <2>3. CASE Published \/ ShutdownDone \/ \E g \in Closures : Freeze(g)
    BY <2>3, PublishedKeeps, ShutdownDoneKeeps, FreezeKeeps
  <2> QED  BY <1>3, <2>1, <2>2, <2>3 DEF Lifecycle
<1>4. CASE Drained /\ Events
  <2>1. \A t \in Threads : pc[t] # "ensuring"
    BY <1>4 DEF Drained
  <2>2. CASE SessionShutdown \/ \E g \in Closures : Suspend(g)
    BY <2>1, <2>2, SessionShutdownKeeps, SuspendKeeps
  <2>3. CASE \E s \in Sessions : SessionStart(s) \/ SessionPrepared(s)
    BY <2>1, <2>3, SessionStartKeeps, SessionPreparedKeeps
  <2>4. CASE \E t \in Threads : EnsureReady(t) \/ BridgeWaited(t)
    BY <2>1, <2>4, EnsureReadyKeeps, BridgeWaitedKeeps
  <2>5. CASE \E b \in Brokers : ProxyHeals(b) \/ LinkBreaks(b)
    BY <2>5, ProxyHealsKeeps, LinkBreaksKeeps
  <2> QED  BY <1>4, <2>2, <2>3, <2>4, <2>5 DEF Events
<1>5. CASE PortMoves \/ Resume
  BY <1>5, PortMovesKeeps, ResumeKeeps
<1> QED  BY <1>1, <1>2, <1>3, <1>4, <1>5 DEF Next

\* Whatever the interleaving of session events, signals, calls and timers: who holds
\* which broker, and what is still under way on it, agree at every step of
\* index.ts and lazy.ts.
THEOREM LifecycleInvariance == Spec => []IInv
BY InitHolds, NextKeeps, PTL DEF Spec

\* The variables keep their types, and nobody waits for a startup that is over.
THEOREM LifecycleTypes == Spec => []TypeOK
<1>1. IInv => TypeOK
  BY DEF IInv
<1> QED  BY <1>1, LifecycleInvariance, PTL

\* What it means for a broker to be stopped by a startup or a shutdown.
LEMMA ClosedFacts ==
    ASSUME IInv, NEW b \in Brokers, Closed(ops[b], Closers)
    PROVE  /\ \E i \in DOMAIN ops[b] : ops[b][i].op = "stop"
           /\ \/ startup.broker = b /\ startup.at # "none" /\ singleton = None
              \/ shutdownAt = "stop" /\ singleton = None /\ startup.at = "none"
<1>1. TypeOK /\ CallsInv /\ StartupInv /\ SessionInv /\ AcquireTypes
  BY InvParts
<1>2. DOMAIN ops[b] = 1 .. Len(ops[b])
  BY <1>1, BrokerFacts
<1>3. PICK i \in 1 .. Len(ops[b]) : ops[b][i].op = "stop" /\ ops[b][i].by \in Closers
  BY DEF Closed, Closes
<1>4. CASE ops[b][i].by = "startup"
  <2>1. startup.broker = b
    BY <1>1, <1>3, <1>4 DEF CallsInv, CallsAt, Noted
  <2>2. startup.at # "none"
    BY <1>1, <2>1, StartupFacts, Apart
  <2> QED  BY <1>1, <1>2, <1>3, <2>1, <2>2 DEF StartupInv
<1>5. CASE ops[b][i].by = "shutdown"
  <2>1. shutdownAt = "stop"
    BY <1>1, <1>3, <1>5 DEF CallsInv, CallsAt, Noted
  <2> QED  BY <1>1, <1>2, <1>3, <2>1 DEF SessionInv
<1> QED  BY <1>3, <1>4, <1>5 DEF Closers

LEMMA CompetesFacts ==
    ASSUME IInv, NEW b \in Brokers, Competes(b)
    PROVE  Kept(b) \/ (owner = b /\ Closed(ops[b], Closers))
BY InvParts DEF Competes, KeptAt

\* There is never more than one broker that is kept.
LEMMA KeptOnce ==
    ASSUME IInv, NEW b \in Brokers, NEW c \in Brokers, Kept(b), Kept(c)
    PROVE  b = c
<1>1. startup.at # "none" => singleton = None
  BY InvParts DEF StartupInv
<1> QED  BY <1>1, Apart DEF Kept

\* The process never sets two brokers on the port, one for the startup and one
\* that an earlier session, a failed attempt or a late start() left behind.
THEOREM OneBrokerHolds == Spec => []OneBroker
<1>1. IInv => OneBroker
  <2> SUFFICES ASSUME IInv
               PROVE  OneBroker
    OBVIOUS
  <2>1. ASSUME NEW b \in Brokers, NEW c \in Brokers, Competes(b), Competes(c)
        PROVE  b = c
    <3>1. ASSUME NEW d \in Brokers, NEW e \in Brokers, Kept(d), Closed(ops[e], Closers)
          PROVE  d = e
      BY <3>1, ClosedFacts, Apart DEF Kept
    <3>2. /\ Kept(b) \/ (owner = b /\ Closed(ops[b], Closers))
          /\ Kept(c) \/ (owner = c /\ Closed(ops[c], Closers))
      BY <2>1, CompetesFacts
    <3> QED  BY <3>1, <3>2, KeptOnce
  <2> DEFINE T == {b \in Brokers : Competes(b)}
  <2>2. CASE T = {}
    <3>1. Cardinality(T) = 0
      BY <2>2, FS_EmptySet
    <3> QED  BY <3>1 DEF OneBroker
  <2>3. CASE T # {}
    <3>1. PICK b \in T : TRUE
      BY <2>3
    <3>2. T = {b}
      BY <2>1, <3>1
    <3>3. Cardinality(T) = 1
      BY <3>2, FS_Singleton
    <3> QED  BY <3>3 DEF OneBroker
  <2> QED  BY <2>2, <2>3
<1> QED  BY <1>1, LifecycleInvariance, PTL

\* A broker that holds the port, or may take it, is never lost: it is the singleton,
\* it is the candidate of the startup, or its stop() is under way.
THEOREM NoOrphanHolds == Spec => []NoOrphanBroker
<1>1. IInv => NoOrphanBroker
  <2> SUFFICES ASSUME IInv, NEW b \in Brokers, Competes(b)
               PROVE  \/ singleton = b \/ startup.broker = b
                      \/ \E i \in DOMAIN ops[b] : ops[b][i].op = "stop"
    BY DEF NoOrphanBroker
  <2> QED  BY CompetesFacts, ClosedFacts DEF Kept
<1> QED  BY <1>1, LifecycleInvariance, PTL

\* After session_shutdown nothing of the process holds the port, may take it, or is
\* about to start, whatever was under way when the session ended.
THEOREM ShutdownFinalHolds == Spec => []ShutdownIsFinal
<1>1. IInv => ShutdownIsFinal
  <2> SUFFICES ASSUME IInv, session = None, shutdownAt = "none"
               PROVE  /\ singleton = None /\ startup = Idle
                      /\ \A b \in Brokers : ~Competes(b)
                      /\ \A b \in Brokers : kind[b] = "primary" =>
                            \A i \in DOMAIN ops[b] : ops[b][i].op # "start"
    BY DEF ShutdownIsFinal
  <2>1. singleton = None /\ startup.at = "none"
    BY InvParts DEF SessionInv
  <2>2. startup = Idle /\ startup.broker = None
    BY <2>1, InvParts, StartupFacts
  <2>3. \A b \in Brokers : ~Kept(b) /\ ~Closed(ops[b], Closers)
    BY <2>1, <2>2, ClosedFacts, Apart DEF Kept
  <2>4. \A b \in Brokers : ~Competes(b)
    BY <2>3, CompetesFacts
  <2>5. ASSUME NEW b \in Brokers, kind[b] = "primary", NEW i \in DOMAIN ops[b],
               ops[b][i].op = "start"
        PROVE  FALSE
    <3>1. Covered(ops[b], Closers)
      BY <2>3, <2>5, InvParts DEF KeptAt
    <3>2. i \in 1 .. Len(ops[b])
      BY InvParts, BrokerFacts
    <3>3. Closed(ops[b], Closers)
      BY <2>5, <3>1, <3>2 DEF Covered, Closed
    <3> QED  BY <2>3, <3>3
  <2> QED  BY <2>1, <2>2, <2>4, <2>5
<1> QED  BY <1>1, LifecycleInvariance, PTL

-----------------------------------------------------------------------------
(* Suspension, without tool calls.                                         *)

\* No broker that competes is closed by the suspension, but those are about to be.
LEMMA QuietRest ==
    ASSUME NEW d \in Brokers, QuietAt(d), ops'[d] = ops[d], kind'[d] = kind[d],
           stopped'[d] = stopped[d], owner' = d => owner = d
    PROVE  QuietAt(d)'
BY DEF QuietAt, Heals

\* A call is over on a broker that is quiet: a stop() releases the port, and a start()
\* that takes it is followed by the stop() of the suspension.
LEMMA QuietOver ==
    ASSUME IInv, NEW b \in Brokers, NEW i \in DOMAIN ops[b], NEW op \in {"start", "stop"}, NEW by,
           Ends(b, i, op, by), Ended(b, i), UNCHANGED <<kind, stopped>>,
           \/ op = "stop" /\ Released(b)
           \/ op = "start" /\ (owner' = owner \/ (kind[b] = "primary" /\ owner' = b))
    PROVE  \A d \in Brokers : QuietAt(d) => QuietAt(d)'
<1> DEFINE C == Closures
<1>1. /\ i \in 1 .. Len(ops[b]) /\ (kind[b] = "primary" => i = 1) /\ ops[b] \in Seq(Entry)
      /\ ops[b][i].op = op
  BY EndsFacts
<1>2. PortTypes /\ BrokerTypes
  BY InvParts
<1>3. ops'[b] = RemoveAt(ops[b], i) /\ \A d \in Brokers \ {b} : ops'[d] = ops[d]
  BY <1>2 DEF Ended, BrokerTypes
<1>4. /\ ~Closes(ops[b][i], C) /\ Closed(ops[b], C) => Closed(RemoveAt(ops[b], i), C)
      /\ i = 1 /\ Covered(ops[b], C) => Covered(RemoveAt(ops[b], i), C)
  BY <1>1, Removed
<1>5. op = "start" => ~Closes(ops[b][i], C) /\ (Covered(ops[b], C) => Closed(ops[b], C))
  BY <1>1 DEF Closes, Covered, Closed
<1>6. /\ op = "stop" => owner' # b /\ (owner' = owner \/ owner' = None)
      /\ op = "start" => owner' = owner \/ (kind[b] = "primary" /\ owner' = b)
  BY <1>2, PortFacts
<1>7. ASSUME NEW d \in Brokers, QuietAt(d)
      PROVE  QuietAt(d)'
  <2>1. CASE d = b
    BY <1>1, <1>3, <1>4, <1>5, <1>6, <1>7, <2>1 DEF QuietAt, Heals
  <2>2. CASE d # b
    <3>1. owner' = d => owner = d
      BY <1>6, <2>2, Apart
    <3> QED  BY <1>3, <1>7, <2>2, <3>1, QuietRest
  <2> QED  BY <2>1, <2>2
<1> QED  BY <1>7

\* A step that leaves session, signals and their closures alone.
LEMMA SuspendRest ==
    ASSUME SuspendInv, UNCHANGED processVars,
           suspending => \A t \in Threads : pc'[t] = "ensuring" => pc[t] = "ensuring",
           suspending /\ startup.at # "none" =>
              /\ singleton' = singleton
              /\ startup'.at # "none" => startup'.outdated = startup.outdated,
           suspending /\ startup.at = "none" => singleton' = singleton /\ startup'.at = "none",
           suspending /\ startup.at = "none" => \A b \in Brokers : QuietAt(b) => QuietAt(b)'
    PROVE  SuspendInv'
<1>1. /\ suspendAt' = suspendAt /\ suspended' = suspended /\ shutdownAt' = shutdownAt
      /\ handlers' = handlers /\ suspending' = suspending /\ shuttingDown' = shuttingDown
  BY DEF processVars
<1>2. CASE ~suspending
  BY <1>1, <1>2 DEF SuspendInv
<1>3. CASE suspending
  <2>1. /\ shutdownAt = "none" /\ shuttingDown /\ \A t \in Threads : pc'[t] # "ensuring"
    BY <1>3 DEF SuspendInv
  <2>2. ASSUME NEW g \in Closures, WillStop(g)
        PROVE  WillStop(g)'
    BY <1>1, <1>3, <2>2 DEF WillStop
  <2>3. Quiet => Quiet'
    BY <1>3 DEF Quiet
  <2> QED  BY <1>1, <1>3, <2>1, <2>2, <2>3 DEF SuspendInv
<1> QED  BY <1>2, <1>3 DEF SuspendInv

\* While the process is being suspended its startup ends without a broker, or goes on.
LEMMA SuspendedStartup ==
    ASSUME IInv, SuspendInv, startup.at # "none", UNCHANGED processVars,
           suspending => \/ Settle(None)
                         \/ Waits /\ startup'.outdated = startup.outdated /\ startup'.at # "none"
    PROVE  SuspendInv'
<1>1. CASE suspending /\ Settle(None)
  <2>1. singleton' = singleton /\ startup'.at = "none"
    BY <1>1 DEF Settle, Idle
  <2>2. \A t \in Threads : pc'[t] = "ensuring" => pc[t] = "ensuring"
    BY <1>1 DEF Settle
  <2> QED  BY <2>1, <2>2, SuspendRest
<1>2. CASE suspending /\ Waits /\ startup'.outdated = startup.outdated /\ startup'.at # "none"
  BY <1>2, SuspendRest DEF Waits, threadVars
<1>3. CASE ~suspending
  BY <1>3, SuspendRest
<1> QED  BY <1>1, <1>2, <1>3

LEMMA StartupSuspends ==
    ASSUME IInv, SuspendInv, NEW b \in Brokers, NEW i \in DOMAIN ops[b],
           \/ StaleStopped(b, i) \/ PrimaryStarted(b, i) \/ PrimaryFailed(b, i)
           \/ ProxyStarted(b, i) \/ ProxyFailed(b, i) \/ CandidateStopped(b, i)
    PROVE  SuspendInv'
<1>1. startup.at # "none" /\ UNCHANGED processVars
  BY DEF StaleStopped, PrimaryStarted, PrimaryFailed, ProxyStarted, ProxyFailed, CandidateStopped
<1>2. suspending => Cancelled
  BY DEF SuspendInv, Cancelled
<1>3. startup \in Startups
  BY <1>1, GoesOnFacts
<1>4. \A at \in {"publishing", "cleaning", "cancelling"} : GoesOn(at) =>
          startup'.outdated = startup.outdated /\ startup'.at # "none"
  BY <1>3 DEF GoesOn, Startups
<1>5. ASSUME suspending
      PROVE  \/ Settle(None)
             \/ Waits /\ startup'.outdated = startup.outdated /\ startup'.at # "none"
  <2>1. CASE StaleStopped(b, i)
    BY <1>2, <1>5, <2>1 DEF StaleStopped
  <2>2. CASE PrimaryStarted(b, i)
    BY <1>4, <2>2 DEF PrimaryStarted
  <2>3. CASE PrimaryFailed(b, i)
    BY <1>3, <2>3 DEF PrimaryFailed, Successor, Startups
  <2>4. CASE ProxyStarted(b, i)
    BY <1>2, <1>4, <1>5, <2>4 DEF ProxyStarted, Retire
  <2>5. CASE ProxyFailed(b, i)
    BY <1>4, <2>5 DEF ProxyFailed, Retire
  <2>6. CASE CandidateStopped(b, i)
    BY <2>6 DEF CandidateStopped
  <2> QED  BY <2>1, <2>2, <2>3, <2>4, <2>5, <2>6
<1> QED  BY <1>1, <1>5, SuspendedStartup

LEMMA PublishedSuspends ==
    ASSUME IInv, SuspendInv, Published
    PROVE  SuspendInv'
<1>1. startup.at # "none" /\ UNCHANGED processVars
  BY DEF Published
<1>2. suspending => Cancelled
  BY DEF SuspendInv, Cancelled
<1>3. startup \in Startups
  BY <1>1, GoesOnFacts
<1>4. GoesOn("cancelling") => startup'.outdated = startup.outdated /\ startup'.at # "none"
  BY <1>3 DEF GoesOn, Startups
<1>5. suspending => Waits /\ startup'.outdated = startup.outdated /\ startup'.at # "none"
  BY <1>2, <1>4 DEF Published, Retire
<1> QED  BY <1>1, <1>5, SuspendedStartup

\* Another call is over: the start() of a timer or of onResume.
LEMMA StartSuspends ==
    ASSUME IInv, SuspendInv, NEW b \in Brokers, NEW i \in DOMAIN ops[b],
           NEW by, Ends(b, i, "start", by), Ended(b, i), Started(b) \/ owner' = owner,
           UNCHANGED <<kind, stopped, acquireVars, processVars>>,
           \A t \in Threads : pc'[t] = "ensuring" => pc[t] = "ensuring"
    PROVE  SuspendInv'
<1>1. owner' = owner \/ (kind[b] = "primary" /\ owner' = b)
  BY InvParts, PortFacts
<1>2. \A d \in Brokers : QuietAt(d) => QuietAt(d)'
  BY <1>1, QuietOver
<1> QED  BY <1>2, SuspendRest DEF acquireVars

LEMMA CallsSuspend ==
    ASSUME IInv, SuspendInv, NEW b \in Brokers, NEW i \in DOMAIN ops[b],
           \/ ResumeStarted(b, i) \/ ResumeFailed(b, i)
           \/ \E t \in Threads : Rebound(t, b, i) \/ ReboundFailed(t, b, i)
    PROVE  SuspendInv'
<1>1. CASE ResumeStarted(b, i)
  BY <1>1, StartSuspends DEF ResumeStarted, threadVars
<1>2. CASE ResumeFailed(b, i)
  BY <1>2, StartSuspends DEF ResumeFailed, threadVars, portVars
<1>3. ASSUME NEW t \in Threads, Rebound(t, b, i)
      PROVE  SuspendInv'
  <2>1. \A u \in Threads : pc'[u] = "ensuring" => pc[u] = "ensuring"
    BY <1>3, InvParts DEF Rebound, ThreadTypes
  <2> QED  BY <1>3, <2>1, StartSuspends DEF Rebound
<1>4. ASSUME NEW t \in Threads, ReboundFailed(t, b, i)
      PROVE  SuspendInv'
  <2>1. \A u \in Threads : pc'[u] = "ensuring" => pc[u] = "ensuring"
    BY <1>4, InvParts DEF ReboundFailed, Returns, ThreadTypes
  <2> QED  BY <1>4, <2>1, StartSuspends DEF ReboundFailed, portVars
<1> QED  BY <1>1, <1>2, <1>3, <1>4

\* A step of a closure that does not wait for the startup.
LEMMA ClosureSuspends ==
    ASSUME SuspendInv, NEW g \in Closures, suspendAt[g] # "startup",
           \A h \in Closures \ {g} : suspendAt'[h] = suspendAt[h],
           \A b \in Brokers : QuietAt(b) => QuietAt(b)',
           UNCHANGED <<acquireVars, pc, shuttingDown, suspending, handlers, suspended,
                       shutdownAt>>
    PROVE  SuspendInv'
<1>1. ASSUME NEW h \in Closures, WillStop(h)
      PROVE  WillStop(h)'
  BY <1>1 DEF WillStop, acquireVars
<1>2. Quiet => Quiet'
  BY DEF Quiet, acquireVars
<1> QED  BY <1>1, <1>2 DEF SuspendInv

LEMMA SuspendStoppedSuspends ==
    ASSUME IInv, SuspendInv, NEW b \in Brokers, NEW i \in DOMAIN ops[b], NEW g \in Closures,
           SuspendStopped(b, i, g)
    PROVE  SuspendInv'
<1>1. /\ Ends(b, i, "stop", g) /\ Released(b) /\ Ended(b, i)
      /\ suspendAt' = [suspendAt EXCEPT ![g] = "freeze"]
      /\ UNCHANGED <<kind, stopped, acquireVars, shuttingDown, suspending, handlers, suspended,
                     shutdownAt, threadVars>>
  BY DEF SuspendStopped
<1>2. suspendAt[g] = "stop"
  BY <1>1, EndsFacts
<1>3. \A d \in Brokers : QuietAt(d) => QuietAt(d)'
  BY <1>1, QuietOver
<1>4. \A h \in Closures \ {g} : suspendAt'[h] = suspendAt[h]
  BY <1>1, InvParts DEF ProcessTypes
<1> QED  BY <1>1, <1>2, <1>3, <1>4, ClosureSuspends DEF threadVars

LEMMA ShutdownSuspends ==
    ASSUME IInv, SuspendInv, ShutdownDone \/ SessionShutdown \/ ShutdownStops
                             \/ \E b \in Brokers : \E i \in DOMAIN ops[b] : ShutdownStopped(b, i)
    PROVE  SuspendInv'
<1>1. CASE SessionShutdown
  BY <1>1 DEF SessionShutdown, SuspendInv
<1>2. ASSUME NEW b \in Brokers, NEW i \in DOMAIN ops[b], ShutdownStopped(b, i)
      PROVE  SuspendInv'
  <2>1. shutdownAt = "stop"
    BY <1>2, EndsFacts DEF ShutdownStopped
  <2> QED  BY <1>2, <2>1 DEF ShutdownStopped, SuspendInv
<1>3. CASE ShutdownStops
  <2>1. shutdownAt = "startup"
    BY <1>3 DEF ShutdownStops
  <2> QED  BY <1>3, <2>1 DEF ShutdownStops, SuspendInv
<1>4. CASE ShutdownDone
  BY <1>4 DEF ShutdownDone, SuspendInv
<1> QED  BY <1>1, <1>2, <1>3, <1>4

\* What competes while the startup is over and no session_shutdown is under way is
\* the singleton.
LEMMA OnlySingleton ==
    ASSUME IInv, startup.at = "none", shutdownAt = "none", NEW b \in Brokers, b # singleton
    PROVE  QuietAt(b)
<1>1. startup.broker = None
  BY InvParts, StartupFacts
<1>2. ~Kept(b) /\ ~Closed(ops[b], Closers)
  BY <1>1, ClosedFacts, Apart DEF Kept
<1>3. KeptAt(b)
  BY InvParts
<1>4. Covered(ops[b], Closers) => Covered(ops[b], Closures)
  BY <1>2 DEF Covered, Closed
<1> QED  BY <1>2, <1>3, <1>4 DEF KeptAt, QuietAt

LEMMA SuspendStopsSuspends ==
    ASSUME IInv, SuspendInv, NEW g \in Closures, SuspendStops(g)
    PROVE  SuspendInv'
<1>1. /\ suspendAt[g] = "startup" /\ startup = Idle
      /\ suspended' = [suspended EXCEPT ![g] = None]
      /\ \E at \in {"none", "stop"} : suspendAt' = [suspendAt EXCEPT ![g] = at]
      /\ UNCHANGED <<portVars, acquireVars, shuttingDown, suspending, handlers, session,
                     shutdownAt, handleVars, threadVars>>
  BY DEF SuspendStops
<1>2. startup.at = "none" /\ startup' = startup /\ singleton' = singleton /\ pc' = pc
      /\ owner' = owner
  BY <1>1 DEF Idle, acquireVars, threadVars, portVars
<1>3. ASSUME NEW h \in Closures \ {g}, WillStop(h)
      PROVE  WillStop(h)'
  <2>1. suspendAt'[h] = suspendAt[h] /\ suspended'[h] = suspended[h]
    BY <1>1, InvParts DEF ProcessTypes
  <2> QED  BY <1>2, <1>3, <2>1 DEF WillStop
<1>4. ASSUME suspending, Quiet \/ WillStop(g)
      PROVE  Quiet'
  <2>1. shutdownAt = "none"
    BY <1>4 DEF SuspendInv
  <2>2. \A b \in Brokers : b # suspended[g] => QuietAt(b)
    BY <1>2, <1>4, <2>1, OnlySingleton DEF Quiet, WillStop
  <2>3. CASE suspended[g] = None
    <3>1. UNCHANGED brokerVars
      BY <2>3 DEF SuspendStops
    <3>2. \A b \in Brokers : QuietAt(b)'
      BY <1>2, <2>2, <2>3, <3>1, QuietRest, Apart DEF brokerVars
    <3> QED  BY <1>2, <3>2 DEF Quiet
  <2>4. CASE suspended[g] # None
    <3>1. PICK b \in Brokers : b = suspended[g]
      BY <2>4, InvParts DEF ProcessTypes
    <3>2. CallStop(b, g)
      BY <2>4, <3>1 DEF SuspendStops
    <3>3. TypeOK /\ BrokerTypes
      BY InvParts
    <3> DEFINE x == [op |-> "stop", by |-> g]
    <3>4. x \in Entry /\ Closes(x, Closures)
      BY Apart DEF Entry, Closes
    <3> HIDE DEF x
    <3>5. /\ Append(ops[b], x) \in Seq(Entry) /\ Closed(Append(ops[b], x), Closures)
          /\ Covered(Append(ops[b], x), Closures)
      BY <3>3, <3>4, BrokerFacts, Appended
    <3>6. /\ ops'[b] = Append(ops[b], x) /\ \A d \in Brokers \ {b} : ops'[d] = ops[d]
          /\ kind' = kind /\ stopped'[b] = (kind[b] = "proxy")
          /\ \A d \in Brokers \ {b} : stopped'[d] = stopped[d]
      BY <3>2, <3>3, <3>5 DEF CallStop, Call, BrokerTypes, x
    <3>7. QuietAt(b)'
      BY <3>5, <3>6 DEF QuietAt, Heals
    <3>8. ASSUME NEW d \in Brokers \ {b}
          PROVE  QuietAt(d)'
      BY <1>2, <2>2, <3>1, <3>6, QuietRest
    <3> QED  BY <1>2, <3>7, <3>8 DEF Quiet
  <2> QED  BY <2>3, <2>4
<1>5. UNCHANGED <<shutdownAt, handlers, suspending, shuttingDown>>
  BY <1>1
<1>6. suspending => (\E h \in Closures : WillStop(h)') \/ Quiet'
  <2>1. suspending => (\E h \in Closures : WillStop(h)) \/ Quiet
    BY DEF SuspendInv
  <2> QED  BY <1>3, <1>4, <2>1
<1> QED  BY <1>2, <1>5, <1>6 DEF SuspendInv

LEMMA SuspendSuspends ==
    ASSUME IInv, SuspendInv, NEW g \in Closures, Suspend(g), \A t \in Threads : pc[t] # "ensuring"
    PROVE  SuspendInv'
<1>1. /\ handlers /\ suspending' = TRUE /\ shuttingDown' = TRUE
      /\ Outdate
      /\ suspendAt' = [suspendAt EXCEPT ![g] = "startup"]
      /\ suspended' = [suspended EXCEPT ![g] = singleton]
      /\ UNCHANGED <<singleton, handlers, shutdownAt, threadVars>>
  BY DEF Suspend
<1>2. startup'.at = startup.at /\ (startup.at # "none" => startup'.outdated)
  BY <1>1, Outdated
<1>3. shutdownAt = "none" /\ pc' = pc
  BY <1>1 DEF SuspendInv, threadVars
<1>4. suspendAt'[g] = "startup" /\ suspended'[g] = singleton
  BY <1>1, InvParts DEF ProcessTypes
<1>5. WillStop(g)'
  BY <1>1, <1>2, <1>4 DEF WillStop
<1> QED  BY <1>1, <1>3, <1>5 DEF SuspendInv

LEMMA FreezeSuspends ==
    ASSUME IInv, SuspendInv, NEW g \in Closures, Freeze(g)
    PROVE  SuspendInv'
<1>1. /\ suspendAt[g] = "freeze" /\ suspendAt' = [suspendAt EXCEPT ![g] = "none"]
      /\ UNCHANGED <<owner, kind, stopped, ops, pc, acquireVars, shuttingDown, suspending,
                     handlers, suspended, shutdownAt>>
  BY DEF Freeze, portVars, brokerVars, threadVars
<1>2. \A b \in Brokers : QuietAt(b) => QuietAt(b)'
  BY <1>1, QuietRest
<1>3. \A h \in Closures \ {g} : suspendAt'[h] = suspendAt[h]
  BY <1>1, InvParts DEF ProcessTypes
<1> QED  BY <1>1, <1>2, <1>3, ClosureSuspends

LEMMA ResumeSuspends ==
    ASSUME IInv, SuspendInv, Resume
    PROVE  SuspendInv'
<1>1. UNCHANGED <<owner, acquireVars, handlers, suspended, shutdownAt, suspendAt, threadVars>>
  BY DEF Resume, portVars
<1>2. CASE handlers /\ suspending
  BY <1>1, <1>2 DEF Resume, SuspendInv
<1>3. CASE ~(handlers /\ suspending)
  <2>1. UNCHANGED <<suspending, shuttingDown, kind, stopped, ops>>
    BY <1>3 DEF Resume, brokerVars
  <2>2. \A b \in Brokers : QuietAt(b) => QuietAt(b)'
    BY <1>1, <2>1, QuietRest
  <2>3. Quiet => Quiet'
    BY <1>1, <2>2 DEF Quiet, acquireVars
  <2>4. \A g \in Closures : WillStop(g)' = WillStop(g)
    BY <1>1 DEF WillStop, acquireVars
  <2> QED  BY <1>1, <2>1, <2>3, <2>4 DEF SuspendInv, threadVars
<1> QED  BY <1>2, <1>3

LEMMA SessionStartSuspends ==
    ASSUME IInv, SuspendInv, NEW s \in Sessions, SessionStart(s)
    PROVE  SuspendInv'
<1>1. /\ shutdownAt = "none"
      /\ UNCHANGED <<owner, kind, stopped, ops, acquireVars, shuttingDown, suspending,
                     shutdownAt, suspendAt, suspended, threadVars>>
  BY DEF SessionStart, portVars, brokerVars
<1>2. \A b \in Brokers : QuietAt(b) => QuietAt(b)'
  BY <1>1, QuietRest
<1>3. Quiet => Quiet'
  BY <1>1, <1>2 DEF Quiet, acquireVars
<1>4. \A g \in Closures : WillStop(g)' = WillStop(g)
  BY <1>1 DEF WillStop, acquireVars
<1> QED  BY <1>1, <1>3, <1>4 DEF SuspendInv, threadVars

LEMMA SessionPreparedSuspends ==
    ASSUME IInv, SuspendInv, NEW s \in Sessions, SessionPrepared(s)
    PROVE  SuspendInv'
<1>1. UNCHANGED <<portVars, processVars, threadVars>>
  BY DEF SessionPrepared
<1>2. suspending => UNCHANGED <<brokerVars, acquireVars>>
  <2>1. suspending => Acquisition # "begin"
    BY DEF SuspendInv, Acquisition
  <2>2. suspending /\ Acquire => UNCHANGED <<brokerVars, acquireVars>>
    BY <2>1 DEF Acquire, Begin
  <2> QED  BY <2>2 DEF SessionPrepared
<1>3. suspending => \A b \in Brokers : QuietAt(b) => QuietAt(b)'
  BY <1>1, <1>2, QuietRest DEF portVars, brokerVars
<1> QED  BY <1>1, <1>2, <1>3, SuspendRest DEF acquireVars, threadVars

LEMMA ThreadsSuspend ==
    ASSUME IInv, SuspendInv, Calls = {}, NEW t \in Threads,
           EnsureReady(t) \/ BridgeWaited(t) \/ BrokerReady(t)
    PROVE  SuspendInv'
<1>1. t \in Sessions
  BY DEF Threads
<1>2. CASE EnsureReady(t)
  <2>1. ~suspending /\ UNCHANGED processVars
    BY <1>1, <1>2 DEF EnsureReady
  <2> QED  BY <2>1, SuspendRest
<1>3. CASE BridgeWaited(t)
  <2>1. UNCHANGED <<portVars, brokerVars, acquireVars, processVars>>
    BY <1>3 DEF BridgeWaited
  <2>2. \A u \in Threads : pc'[u] = "ensuring" => pc[u] = "ensuring"
    BY <1>3, InvParts DEF BridgeWaited, Returns, ThreadTypes
  <2>3. \A b \in Brokers : QuietAt(b) => QuietAt(b)'
    BY <2>1, QuietRest DEF portVars, brokerVars
  <2> QED  BY <2>1, <2>2, <2>3, SuspendRest DEF acquireVars
<1>4. CASE BrokerReady(t)
  <2>1. ~suspending /\ UNCHANGED processVars
    BY <1>4 DEF BrokerReady, SuspendInv
  <2> QED  BY <2>1, SuspendRest
<1> QED  BY <1>2, <1>3, <1>4

LEMMA PortSuspends ==
    ASSUME IInv, SuspendInv,
           PortMoves \/ \E b \in Brokers : ProxyHeals(b) \/ LinkBreaks(b)
    PROVE  SuspendInv'
<1>1. UNCHANGED <<kind, stopped, ops, acquireVars, processVars, threadVars>>
  BY DEF PortMoves, ProxyHeals, LinkBreaks
<1>2. PortTypes /\ BrokerTypes
  BY InvParts
<1>3. (\A d \in Brokers : owner' = d => owner = d) \/ \E b \in Brokers : ProxyHeals(b)
  <2>1. PortMoves => \A d \in Brokers : owner' # d
    BY Apart DEF PortMoves
  <2>2. ASSUME NEW b \in Brokers, LinkBreaks(b)
        PROVE  owner' = owner \/ owner' = None
    BY <2>2 DEF LinkBreaks, Released
  <2> QED  BY <2>1, <2>2, Apart
<1>4. CASE \A d \in Brokers : owner' = d => owner = d
  <2>1. \A b \in Brokers : QuietAt(b) => QuietAt(b)'
    BY <1>1, <1>4, QuietRest
  <2> QED  BY <1>1, <2>1, SuspendRest DEF acquireVars, threadVars
<1>5. CASE \E b \in Brokers : ProxyHeals(b)
  <2>1. PICK b \in Brokers : Heals(b)
    BY <1>5 DEF ProxyHeals
  <2>2. suspending => startup.at # "none" \/ singleton = b
    <3>1. Kept(b)
      BY <2>1, InvParts DEF KeptAt
    <3> QED  BY <3>1, InvParts, StartupFacts, Apart DEF Kept
  <2>3. suspending => \E g \in Closures : WillStop(g)
    BY <2>1 DEF SuspendInv, Quiet, QuietAt
  <2>4. \A g \in Closures : WillStop(g)' = WillStop(g)
    BY <1>1 DEF WillStop, acquireVars, processVars
  <2> QED  BY <1>1, <2>3, <2>4 DEF SuspendInv, threadVars, processVars
<1> QED  BY <1>3, <1>4, <1>5

LEMMA SuspendKeepsOn ==
    ASSUME Calls = {}
    PROVE  IInv /\ SuspendInv /\ [Next]_vars => SuspendInv'
<1> SUFFICES ASSUME IInv, SuspendInv, [Next]_vars
             PROVE  SuspendInv'
  OBVIOUS
<1>1. CASE UNCHANGED vars
  <2>1. UNCHANGED <<owner, kind, stopped, ops, acquireVars, processVars, threadVars>>
    BY <1>1 DEF vars, portVars, brokerVars
  <2>2. \A b \in Brokers : QuietAt(b) => QuietAt(b)'
    BY <2>1, QuietRest
  <2> QED  BY <2>1, <2>2, SuspendRest DEF acquireVars, threadVars
<1>2. CASE Resumed
  BY <1>2, ShutdownSuspends, SuspendStopsSuspends, ThreadsSuspend DEF Resumed
<1>3. CASE Drained /\ Lifecycle
  <2>1. ASSUME NEW b \in Brokers, NEW i \in DOMAIN ops[b],
               \/ StaleStopped(b, i) \/ PrimaryStarted(b, i) \/ PrimaryFailed(b, i)
               \/ ProxyStarted(b, i) \/ ProxyFailed(b, i) \/ CandidateStopped(b, i)
        PROVE  SuspendInv'
    BY <2>1, StartupSuspends
  <2>2. ASSUME NEW b \in Brokers, NEW i \in DOMAIN ops[b],
               ShutdownStopped(b, i) \/ \E g \in Closures : SuspendStopped(b, i, g)
        PROVE  SuspendInv'
    BY <2>2, ShutdownSuspends, SuspendStoppedSuspends
  <2>3. ASSUME NEW b \in Brokers, NEW i \in DOMAIN ops[b],
               \/ ResumeStarted(b, i) \/ ResumeFailed(b, i)
               \/ \E t \in Threads : Rebound(t, b, i) \/ ReboundFailed(t, b, i)
        PROVE  SuspendInv'
    BY <2>3, CallsSuspend
  <2>4. CASE Published \/ ShutdownDone \/ \E g \in Closures : Freeze(g)
    BY <2>4, PublishedSuspends, ShutdownSuspends, FreezeSuspends
  <2> QED  BY <1>3, <2>1, <2>2, <2>3, <2>4 DEF Lifecycle
<1>4. CASE Drained /\ ~frozen /\ Events
  <2>1. ~frozen /\ \A t \in Threads : pc[t] # "ensuring"
    BY <1>4 DEF Drained
  <2>2. CASE SessionShutdown \/ \E g \in Closures : Suspend(g)
    BY <2>1, <2>2, ShutdownSuspends, SuspendSuspends
  <2>3. CASE \E s \in Sessions : SessionStart(s) \/ SessionPrepared(s)
    BY <2>3, SessionStartSuspends, SessionPreparedSuspends
  <2>4. CASE \E t \in Threads : EnsureReady(t) \/ BridgeWaited(t)
    BY <2>4, ThreadsSuspend
  <2>5. CASE \E b \in Brokers : ProxyHeals(b) \/ LinkBreaks(b)
    BY <2>5, PortSuspends
  <2> QED  BY <1>4, <2>2, <2>3, <2>4, <2>5 DEF Events
<1>5. CASE PortMoves \/ Resume
  BY <1>5, PortSuspends, ResumeSuspends
<1> QED  BY <1>1, <1>2, <1>3, <1>4, <1>5 DEF Next

\* A process that Ctrl+Z stopped does not hold the port once every closure of
\* onSuspend is over, as long as no tool call starts a broker again while one runs:
\* a recovery timer does not, since it looks at suspending first.  Suspensions may
\* follow each other before their closures are over.  Run session_hostage shows what
\* a tool call does.
THEOREM SuspendedHolds ==
    ASSUME Calls = {}
    PROVE  Spec => []SuspendedWithoutPort
<1>1. Init => SuspendInv
  BY DEF Init, SuspendInv
<1>2. IInv /\ SuspendInv => SuspendedWithoutPort
  <2> SUFFICES ASSUME IInv, SuspendInv, suspending, \A g \in Closures : suspendAt[g] = "none",
                      NEW b \in Brokers, owner = b
               PROVE  FALSE
    BY DEF SuspendedWithoutPort
  <2>1. Closed(ops[b], Closures)
    BY DEF SuspendInv, WillStop, Quiet, QuietAt
  <2>2. PICK g \in Closures : Noted(ops[b], g)
    BY <2>1 DEF Closed, Closes, Noted
  <2> QED  BY <2>2, InvParts DEF CallsInv, CallsAt
<1> QED  BY <1>1, <1>2, SuspendKeepsOn, LifecycleInvariance, PTL DEF Spec

=============================================================================
