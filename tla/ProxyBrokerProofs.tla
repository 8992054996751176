------------------------- MODULE ProxyBrokerProofs -------------------------
(***************************************************************************)
(* Theorems about ProxyBroker, for every value of its constants.           *)
(***************************************************************************)
EXTENDS ProxyBroker, FiniteSetTheorems, SequenceTheorems, TLAPS

-----------------------------------------------------------------------------
(* What the shared steps do to the variables they touch.                   *)

\* The three that are not proxies are told apart, and so are the owner's peers.
LEMMA Outsiders ==
    /\ Primary \notin Procs /\ Foreign \notin Procs /\ None \notin Procs
    /\ Primary # Foreign /\ Primary # None /\ Foreign # None
<1>1. {Primary, Foreign, None} \cap Procs = {}
  BY ProxyAssumption
<1>2. Cardinality({Primary, Foreign, None}) = 3
  BY ProxyAssumption
<1>3. ASSUME NEW a, NEW b, {Primary, Foreign, None} = {a, b}  PROVE  FALSE
  <2>1. /\ Cardinality({a, b}) \in Nat
        /\ Cardinality({a, b}) <= 2
    <3>1. IsFiniteSet({}) /\ Cardinality({}) = 0
      BY FS_EmptySet
    <3>2. IsFiniteSet({b}) /\ Cardinality({b}) = 1
      BY FS_Singleton
    <3>3. Cardinality({b} \cup {a}) = IF a \in {b} THEN 1 ELSE 2
      BY <3>2, FS_AddElement
    <3>4. {b} \cup {a} = {a, b}
      OBVIOUS
    <3> QED  BY <3>3, <3>4
  <2> QED  BY <1>2, <1>3, <2>1
<1>4. Primary # Foreign
  <2> SUFFICES ASSUME Primary = Foreign PROVE FALSE
    OBVIOUS
  <2> QED  BY <1>3
<1>5. Primary # None
  <2> SUFFICES ASSUME Primary = None PROVE FALSE
    OBVIOUS
  <2>1. {Primary, Foreign, None} = {Primary, Foreign}
    OBVIOUS
  <2> QED  BY <1>3, <2>1
<1>6. Foreign # None
  <2> SUFFICES ASSUME Foreign = None PROVE FALSE
    OBVIOUS
  <2>1. {Primary, Foreign, None} = {Primary, Foreign}
    OBVIOUS
  <2> QED  BY <1>3, <2>1
<1> QED  BY <1>1, <1>4, <1>5, <1>6

\* Resume() moves calls to points of a call.
LEMMA ResumeType ==
    ASSUME pc \in [Calls -> CallState], NEW p, NEW moves,
           \A s \in DOMAIN moves : moves[s] \in CallState,
           Resume(p, moves)
    PROVE  pc' \in [Calls -> CallState]
<1>1. \A c \in Calls : Over(c, pc[c]) \in CallState
  BY DEF Over, CallState
<1>2. \A c \in Calls, s \in DOMAIN moves : Over(c, moves[s]) \in CallState
  BY DEF Over, CallState
<1> QED  BY <1>2 DEF Resume

\* So does Goto().
LEMMA GotoType ==
    ASSUME pc \in [Calls -> CallState], NEW c, NEW point \in CallState, Goto(c, point)
    PROVE  pc' \in [Calls -> CallState]
<1>1. Over(c, point) \in CallState
  BY DEF Over, CallState
<1> QED  BY <1>1 DEF Goto

\* The moves themselves.
LEMMA MovesType ==
    /\ \A s \in DOMAIN RejectedCalls : RejectedCalls[s] \in CallState
    /\ \A s \in DOMAIN WonCalls : WonCalls[s] \in CallState
    /\ \A s \in DOMAIN LostCalls : LostCalls[s] \in CallState
    /\ \A s \in DOMAIN FailedCalls :
          FailedCalls[s] \in CallState
<1>1. \A s \in DOMAIN RejectedCalls : RejectedCalls[s] \in CallState
  BY DEF RejectedCalls, CallState
<1>2. \A s \in DOMAIN WonCalls : WonCalls[s] \in CallState
  BY DEF WonCalls, CallState
<1>3. \A s \in DOMAIN LostCalls : LostCalls[s] \in CallState
  BY DEF LostCalls, CallState
<1> QED  BY <1>1, <1>2, <1>3 DEF FailedCalls

\* What a step of one call can touch: its own place, the question it has sent,
\* and, while its proxy is not stopped, a handshake or a promotion it starts.
LEMMA CallFootprint ==
    ASSUME TypeOK, NEW c \in Calls, CallStep(c)
    PROVE  /\ UNCHANGED <<envVars, sock, valid, inbox, viewVars, promoted, healing,
                          timer, runVars>>
           /\ Home[c] \in Procs
           /\ \/ promo' = promo
              \/ /\ promo[Home[c]] = "none" /\ ~stopped[Home[c]] /\ ~promoted[Home[c]]
                 /\ promo' = [promo EXCEPT ![Home[c]] = "binding"]
           /\ \/ connecting' = connecting
              \/ /\ ~stopped[Home[c]]
                 /\ connecting' = [connecting EXCEPT ![Home[c]] = TRUE]
           /\ \/ asked' = asked
              \/ asked' = [asked EXCEPT ![Home[c]] = @ \cup {c}]
              \/ asked' = [asked EXCEPT ![Home[c]] = @ \ {c}]
           /\ pc[c] # "probing"
           /\ \E point \in CallState :
                 /\ pc' = [pc EXCEPT ![c] = point]
                 /\ point = "pending" => ~stopped[Home[c]]
<1> DEFINE p == Home[c]
           Moved(sent) == \E point \in CallState :
                             /\ pc' = [pc EXCEPT ![c] = point]
                             /\ point = "pending" => sent
<1>0. /\ p \in Procs /\ pc[c] \in CallState
      /\ \A point \in CallState : Over(c, point) \in CallState
      /\ \A point : Over(c, point) = "pending" => point = "pending"
  BY ProxyAssumption DEF TypeOK, Over, CallState
<1>1. ASSUME NEW point \in CallState, Goto(c, point), NEW sent, point = "pending" => sent
      PROVE  Moved(sent)
  BY <1>0, <1>1 DEF Goto
<1>2. ASSUME NEW sent \in CallState, NEW waiting \in CallState, waiting # "pending",
             Send(c, sent, waiting), ~stopped[p]
      PROVE  /\ \/ connecting' = connecting
                \/ connecting' = [connecting EXCEPT ![p] = TRUE]
             /\ \/ asked' = asked
                \/ asked' = [asked EXCEPT ![p] = @ \cup {c}]
             /\ Moved(~stopped[p])
  BY <1>1, <1>2 DEF Send
<1>3. CASE EnsureReady(c)
  BY <1>0, <1>1, <1>2, <1>3 DEF EnsureReady, leadVars, linkVars, CallState
<1>4. CASE PollAgain(c)
  BY <1>0, <1>2, <1>4 DEF PollAgain, leadVars, CallState
<1>5. CASE WaitOver(c)
  BY <1>0, <1>1, <1>5 DEF WaitOver, leadVars, linkVars, CallState
<1>6. ASSUME NEW refused \in CallState \ {"pending"}, NEW won \in CallState \ {"pending"},
             NEW joined \in CallState \ {"pending"}, Elect(c, refused, won, joined)
      PROVE  /\ \/ promo' = promo
                \/ /\ promo[p] = "none" /\ ~stopped[p] /\ ~promoted[p]
                   /\ promo' = [promo EXCEPT ![p] = "binding"]
             /\ Moved(FALSE)
             /\ UNCHANGED <<envVars, linkVars, viewVars, promoted, healing, timer, runVars>>
  <2>1. Moved(FALSE)
    BY <1>1, <1>6 DEF Elect
  <2>2. \/ promo' = promo
        \/ /\ promo[p] = "none" /\ ~stopped[p] /\ ~promoted[p]
           /\ promo' = [promo EXCEPT ![p] = "binding"]
    <3>1. promo = [q \in Procs |-> promo[q]]
      BY DEF TypeOK
    <3>2. promo' = [promo EXCEPT ![p] = IF promo[p] = "none" /\ ~stopped[p] /\ ~promoted[p]
                                        THEN "binding" ELSE promo[p]]
      BY <1>6 DEF Elect
    <3> QED  BY <1>0, <3>1, <3>2
  <2> QED  BY <1>6, <2>1, <2>2 DEF Elect
<1>7. CASE CatchNotReady(c)
  BY <1>0, <1>6, <1>7 DEF CatchNotReady, linkVars, CallState
<1>8. CASE CheckProbe(c)
  BY <1>0, <1>1, <1>8 DEF CheckProbe, leadVars, linkVars, CallState
<1>9. CASE Request(c)
  BY <1>0, <1>1, <1>2, <1>9 DEF Request, leadVars, CallState
<1>10. CASE CatchUnlinked(c)
  BY <1>0, <1>6, <1>10 DEF CatchUnlinked, linkVars, CallState
<1>11. CASE Answer(c)
  BY <1>0, <1>1, <1>11 DEF Answer, leadVars, CallState
<1>12. CASE Timeout(c)
  BY <1>0, <1>1, <1>12 DEF Timeout, leadVars, CallState
<1> QED  BY <1>3, <1>4, <1>5, <1>7, <1>8, <1>9, <1>10, <1>11, <1>12 DEF CallStep

\* The frames there are, and what sending, reading and removing one yields.
LEMMA FramesType ==
    /\ Closed \in Frames
    /\ \A up \in BOOLEAN : [kind |-> "notify", to |-> None, up |-> up] \in Frames
    /\ \A t \in Threads, up \in BOOLEAN : [kind |-> "reply", to |-> t, up |-> up] \in Frames
    /\ \A f \in Frames : f.up \in BOOLEAN /\ (f.kind = "reply" => f.to \in Threads)
BY DEF Frames, Closed

\* Of two frames or more, one is left when the first is read.
LEMMA TailNotEmpty == ASSUME NEW s \in Seq(Frames), Len(s) > 1  PROVE Tail(s) # <<>>
<1>1. Len(s) \in Nat /\ s # <<>>
  BY LenProperties, EmptySeq
<1>2. Tail(s) \in Seq(Frames) /\ Len(Tail(s)) = Len(s) - 1
  BY <1>1, HeadTailProperties
<1>3. Len(Tail(s)) # 0
  BY <1>1, <1>2
<1>4. Len(<<>>) = 0
  OBVIOUS
<1> QED  BY <1>3, <1>4, Zenon

\* RemoveAt() takes out one element and keeps the others in their order.
LEMMA RemoveAtProperties ==
    ASSUME NEW S, NEW s \in Seq(S), NEW k \in DOMAIN s
    PROVE  /\ RemoveAt(s, k) \in Seq(S)
           /\ Len(RemoveAt(s, k)) = Len(s) - 1
           /\ \A i \in 1..(Len(s) - 1) :
                 RemoveAt(s, k)[i] = IF i < k THEN s[i] ELSE s[i + 1]
<1> DEFINE front == SubSeq(s, 1, k - 1)
           back  == SubSeq(s, k + 1, Len(s))
<1>1. Len(s) \in Nat /\ k \in 1..Len(s) /\ \A i \in 1..Len(s) : s[i] \in S
  BY LenProperties, ElementOfSeq
<1>2. /\ front \in Seq(S) /\ Len(front) = k - 1
      /\ \A i \in 1..(k - 1) : front[i] = s[i]
  <2>1. 1 \in Int /\ k - 1 \in Int /\ \A i \in 1..(k - 1) : s[i] \in S
    BY <1>1
  <2>2. /\ SubSeq(s, 1, k - 1) \in Seq(S)
        /\ Len(SubSeq(s, 1, k - 1)) = IF 1 <= k - 1 THEN (k - 1) - 1 + 1 ELSE 0
        /\ \A i \in 1..((k - 1) - 1 + 1) : SubSeq(s, 1, k - 1)[i] = s[1 + i - 1]
    BY <2>1, SubSeqProperties
  <2> QED  BY <1>1, <2>2
<1>3. /\ back \in Seq(S) /\ Len(back) = Len(s) - k
      /\ \A i \in 1..(Len(s) - k) : back[i] = s[k + i]
  <2>1. k + 1 \in Int /\ Len(s) \in Int /\ \A i \in (k + 1)..Len(s) : s[i] \in S
    BY <1>1
  <2>2. /\ SubSeq(s, k + 1, Len(s)) \in Seq(S)
        /\ Len(SubSeq(s, k + 1, Len(s)))
             = IF k + 1 <= Len(s) THEN Len(s) - (k + 1) + 1 ELSE 0
        /\ \A i \in 1..(Len(s) - (k + 1) + 1) :
              SubSeq(s, k + 1, Len(s))[i] = s[(k + 1) + i - 1]
    BY <2>1, SubSeqProperties
  <2> QED  BY <1>1, <2>2
<1> HIDE DEF front, back
<1>4. /\ front \o back \in Seq(S)
      /\ Len(front \o back) = Len(front) + Len(back)
      /\ \A i \in 1..(Len(front) + Len(back)) :
            (front \o back)[i] = IF i <= Len(front) THEN front[i] ELSE back[i - Len(front)]
  BY <1>2, <1>3, ConcatProperties, Zenon
<1>5. RemoveAt(s, k) = front \o back
  BY DEF RemoveAt, front, back
<1>6. Len(front) + Len(back) = Len(s) - 1
  BY <1>1, <1>2, <1>3
<1>7. /\ RemoveAt(s, k) \in Seq(S) /\ Len(RemoveAt(s, k)) = Len(s) - 1
      /\ \A i \in 1..(Len(s) - 1) :
            RemoveAt(s, k)[i] = IF i <= Len(front) THEN front[i] ELSE back[i - Len(front)]
  BY <1>4, <1>5, <1>6, Zenon
<1>8. ASSUME NEW i \in 1..(Len(s) - 1)
      PROVE  RemoveAt(s, k)[i] = IF i < k THEN s[i] ELSE s[i + 1]
  <2>1. CASE i < k
    <3>1. i \in 1..(k - 1) /\ i <= Len(front)
      BY <1>1, <1>2, <2>1
    <3> QED  BY <1>2, <1>7, <2>1, <3>1
  <2>2. CASE i >= k
    <3>1. /\ i - Len(front) \in 1..(Len(s) - k) /\ ~(i <= Len(front))
          /\ k + (i - Len(front)) = i + 1
      BY <1>1, <1>2, <2>2
    <3>2. back[i - Len(front)] = s[i + 1]
      BY <1>3, <3>1
    <3> QED  BY <1>1, <1>7, <2>2, <3>1, <3>2
  <2> QED  BY <1>1, <2>1, <2>2
<1> QED  BY <1>7, <1>8

\* An owner that leaves closes what is connected to it.
LEMMA OwnerLeavesType ==
    ASSUME TypeOK, OwnerLeaves
    PROVE  /\ owner' = None /\ bridge' = FALSE
           /\ inbox' \in [Procs -> Seq(Frames)] /\ asked' \in [Procs -> SUBSET Threads]
<1>1. inbox' \in [Procs -> Seq(Frames)]
  BY FramesType DEF OwnerLeaves, TypeOK
<1> QED  BY <1>1 DEF OwnerLeaves

\* A socket that is dropped leaves nothing behind.
LEMMA DropSocketType ==
    ASSUME TypeOK, NEW p \in Procs, DropSocket(p)
    PROVE  /\ sock' \in [Procs -> {"none", "open", "closing"}]
           /\ valid' \in [Procs -> BOOLEAN]
           /\ inbox' \in [Procs -> Seq(Frames)] /\ asked' \in [Procs -> SUBSET Threads]
BY DEF DropSocket, TypeOK

-----------------------------------------------------------------------------
(* Type correctness.                                                       *)

LEMMA TypeInit == Init => TypeOK
BY Outsiders, ProxyAssumption DEF Init, TypeOK, Brokers, CallState

LEMMA TypeStep == TypeOK /\ [Next]_vars => TypeOK'
<1> SUFFICES ASSUME TypeOK, [Next]_vars  PROVE TypeOK'
  OBVIOUS
<1> USE DEF envVars, linkVars, viewVars, leadVars, runVars
<1> DEFINE Promotion == {"none", "binding", "retreating", "connecting", "probing", "rejected"}
           Starting  == {"none", "preparing", "connecting", "probing", "rejected"}
           Stopping  == {"none", "connect", "promotion", "closing", "broker"}
<1>a. inbox \in [Procs -> Seq(Frames)] /\ asked \in [Procs -> SUBSET Threads]
  BY DEF TypeOK
<1>b. connecting \in [Procs -> BOOLEAN] /\ pc \in [Calls -> CallState]
  BY DEF TypeOK
<1>c. /\ promo \in [Procs -> Promotion] /\ startAt \in [Procs -> Starting]
      /\ stopAt \in [Procs -> Stopping]
  BY DEF TypeOK
<1>d. healing \in [Procs -> BOOLEAN] /\ timer \in [Procs -> BOOLEAN]
  BY DEF TypeOK
<1>1. CASE OwnerExits
  <2>1. exits' \in 0..MaxExits
    BY <1>1, ProxyAssumption DEF OwnerExits, TypeOK
  <2>2. OwnerLeaves
    BY <1>1 DEF OwnerExits
  <2>3. /\ owner' = None /\ bridge' = FALSE
        /\ inbox' \in [Procs -> Seq(Frames)] /\ asked' \in [Procs -> SUBSET Threads]
    BY <2>2, OwnerLeavesType
  <2> QED  BY <1>1, <2>1, <2>3 DEF OwnerExits, TypeOK
<1>2. CASE PortTaken
  BY <1>2, ProxyAssumption, Outsiders DEF PortTaken, TypeOK, Brokers
<1>3. CASE BridgeFlips
  <2>1. bridge' \in BOOLEAN /\ [kind |-> "notify", to |-> None, up |-> ~bridge] \in Frames
    BY <1>3, FramesType DEF BridgeFlips, TypeOK
  <2>2. inbox' \in [Procs -> Seq(Frames)]
    BY <1>3, <2>1 DEF BridgeFlips, TypeOK
  <2> QED  BY <1>3, <2>1, <2>2 DEF BridgeFlips, TypeOK
<1>4. ASSUME NEW p \in Procs, ProxyStep(p)  PROVE TypeOK'
  <2>1. ASSUME NEW t \in Threads, OwnerReplies(p, t)  PROVE TypeOK'
    <3>1. inbox' \in [Procs -> Seq(Frames)]
      BY <2>1, FramesType DEF OwnerReplies, TypeOK
    <3> QED  BY <2>1, <3>1 DEF OwnerReplies, TypeOK
  <2>2. ASSUME NEW t \in Threads, ProbeTimeout(p, t)  PROVE TypeOK'
    <3>1. inbox' \in [Procs -> Seq(Frames)]
      <4>1. \A i \in DOMAIN inbox[p] : RemoveAt(inbox[p], i) \in Seq(Frames)
        BY RemoveAtProperties DEF TypeOK
      <4>2. \/ inbox' = inbox
            \/ \E i \in DOMAIN inbox[p] : inbox' = [inbox EXCEPT ![p] = RemoveAt(inbox[p], i)]
        BY <2>2 DEF ProbeTimeout
      <4> QED  BY <1>a, <4>1, <4>2
    <3>2. pc' \in [Calls -> CallState]
      BY <2>2 DEF ProbeTimeout, TypeOK, CallState
    <3> QED  BY <2>2, <3>1, <3>2 DEF ProbeTimeout, TypeOK
  <2>3. CASE ReadNotify(p)
    BY <2>3 DEF ReadNotify, TypeOK
  <2>4. CASE ReadReply(p)
    <3>1. /\ inbox[p] \in Seq(Frames) /\ inbox[p] # <<>>
          /\ Next1(p).kind = "reply" /\ Next1(p) \in Frames
      BY <2>4, HeadTailProperties DEF ReadReply, TypeOK, Next1
    <3>2. /\ Next1(p).to \in Threads
          /\ Next1(p).to \notin {"promotion", "start"} => Next1(p).to \in Calls
      BY <3>1, FramesType DEF Threads
    <3>3. inbox' \in [Procs -> Seq(Frames)]
      <4>1. Tail(inbox[p]) \in Seq(Frames)
        BY <3>1, HeadTailProperties, Zenon
      <4>2. ASSUME Len(inbox[p]) > 1  PROVE Tail(Tail(inbox[p])) \in Seq(Frames)
        <5>1. Tail(inbox[p]) # <<>>
          BY <3>1, <4>2, TailNotEmpty
        <5> QED  BY <4>1, <5>1, HeadTailProperties, Zenon
      <4>3. \/ inbox' = [inbox EXCEPT ![p] = Tail(inbox[p])]
            \/ Len(inbox[p]) > 1 /\ inbox' = [inbox EXCEPT ![p] = Tail(Tail(inbox[p]))]
        BY <2>4 DEF ReadReply
      <4> QED  BY <1>a, <4>1, <4>2, <4>3
    <3>4. pc' \in [Calls -> CallState]
      <4>1. CASE Next1(p).to = "promotion"
        BY <2>4, <4>1, ResumeType, MovesType DEF ReadReply, TypeOK
      <4>2. CASE Next1(p).to = "start"
        BY <2>4, <4>2 DEF ReadReply, TypeOK
      <4>3. CASE Next1(p).to \notin {"promotion", "start"}
        <5>1. "ready" \in CallState /\ "waiting" \in CallState
          BY DEF CallState
        <5> QED  BY <2>4, <4>3, <5>1, GotoType DEF ReadReply, TypeOK
      <4> QED  BY <4>1, <4>2, <4>3
    <3>5. /\ valid' \in [Procs -> BOOLEAN] /\ snap' \in [Procs -> {"none", "up", "down"}]
          /\ err' \in [Procs -> BOOLEAN]
          /\ UNCHANGED <<envVars, sock, asked, connecting, promoted, stopped>>
      BY <2>4 DEF ReadReply, TypeOK
    <3>6. CASE Next1(p).to = "promotion"
      <4>1. promo' = [promo EXCEPT ![p] = "none"] /\ startAt' = startAt
        BY <2>4, <3>6 DEF ReadReply
      <4>2. healing' \in [Procs -> BOOLEAN] /\ timer' \in [Procs -> BOOLEAN]
        BY <1>d, <2>4, <3>6 DEF ReadReply
      <4>3. stopAt' \in [Procs -> Stopping]
        BY <1>c, <2>4, <3>6 DEF ReadReply, StopGoesOn
      <4> QED  BY <3>3, <3>4, <3>5, <4>1, <4>2, <4>3 DEF TypeOK
    <3>7. CASE Next1(p).to # "promotion"
      <4>1. UNCHANGED <<promo, healing, timer, stopAt>>
        BY <2>4, <3>7 DEF ReadReply
      <4>2. /\ startAt' \in [Procs -> Starting]
            /\ \A q \in Procs : startAt'[q] = "connecting" => startAt[q] = "connecting"
        BY <1>c, <2>4, <3>7 DEF ReadReply
      <4> QED  BY <3>3, <3>4, <3>5, <4>1, <4>2 DEF TypeOK
    <3> QED  BY <3>6, <3>7
  <2>5. CASE ReadClose(p)
    BY <2>5 DEF ReadClose, TypeOK
  <2>6. CASE SocketGone(p)
    <3>1. pc' \in [Calls -> CallState]
      BY <2>6, ResumeType, MovesType DEF SocketGone, TypeOK
    <3> QED  BY <2>6, <3>1, DropSocketType DEF SocketGone, Heal, Rejected, TypeOK
  <2>7. CASE HealTimerFires(p)
    BY <2>7 DEF HealTimerFires, Heal, TypeOK
  <2>8. CASE ConnectOk(p)
    <3>1. pc' \in [Calls -> CallState]
      BY <2>8 DEF ConnectOk, TypeOK, CallState
    <3>2. asked' \in [Procs -> SUBSET Threads] /\ inbox' \in [Procs -> Seq(Frames)]
      BY <2>8 DEF ConnectOk, TypeOK, Threads
    <3> QED  BY <2>8, <3>1, <3>2 DEF ConnectOk, StopGoesOn, AfterConnect, TypeOK
  <2>9. CASE ConnectFail(p)
    <3>1. pc' \in [Calls -> CallState]
      <4> DEFINE moves == [connecting |-> "catching", linking |-> "unlinked",
                           relinking |-> "settled"]
      <4>1. \A s \in DOMAIN moves : moves[s] \in CallState
        BY DEF CallState
      <4>2. Resume(p, moves)
        BY <2>9 DEF ConnectFail
      <4> HIDE DEF moves
      <4> QED  BY <1>b, <4>1, <4>2, ResumeType
    <3> QED  BY <2>9, <3>1 DEF ConnectFail, StopGoesOn, AfterConnect, TypeOK
  <2>10. CASE PromoteWins(p)
    <3>1. pc' \in [Calls -> CallState]
      BY <2>10, ResumeType, MovesType DEF PromoteWins, TypeOK
    <3>2. /\ promo' \in [Procs -> Promotion] /\ startAt' = startAt
          /\ \A q \in Procs : promo'[q] = "connecting" => promo[q] = "connecting"
      BY <1>c, <2>10 DEF PromoteWins
    <3>3. /\ promoted' \in [Procs -> BOOLEAN] /\ healing' \in [Procs -> BOOLEAN]
          /\ timer' \in [Procs -> BOOLEAN] /\ snap' \in [Procs -> {"none", "up", "down"}]
          /\ err' \in [Procs -> BOOLEAN]
      <4>1. CASE stopped[p]
        BY <2>10, <4>1 DEF PromoteWins, TypeOK
      <4>2. CASE ~stopped[p]
        <5>1. /\ promoted' = [promoted EXCEPT ![p] = TRUE]
              /\ healing' = [healing EXCEPT ![p] = FALSE]
              /\ timer' = [timer EXCEPT ![p] = FALSE]
              /\ snap' = [snap EXCEPT ![p] = "down"]
              /\ err' = [err EXCEPT ![p] = FALSE]
          BY <2>10, <4>2 DEF PromoteWins
        <5> QED  BY <5>1 DEF TypeOK
      <4> QED  BY <4>1, <4>2
    <3>4. stopAt' \in [Procs -> Stopping]
      BY <1>c, <2>10 DEF PromoteWins, StopGoesOn
    <3>5. owner' \in Brokers /\ UNCHANGED <<bridge, exits, stops, linkVars, stopped>>
      BY <2>10 DEF PromoteWins, Brokers
    <3> QED  BY <3>1, <3>2, <3>3, <3>4, <3>5 DEF TypeOK
  <2>11. CASE Retreat(p)
    <3>1. pc' \in [Calls -> CallState]
      BY <2>11, ResumeType, MovesType DEF Retreat, TypeOK
    <3> QED  BY <2>11, <3>1, OwnerLeavesType DEF Retreat, HealAgain, StopGoesOn, TypeOK
  <2>12. CASE PromoteLoses(p)
    <3>1. asked' \in [Procs -> SUBSET Threads] /\ connecting' \in [Procs -> BOOLEAN]
      <4>1. \/ asked' = asked
            \/ asked' = [asked EXCEPT ![p] = @ \cup {"promotion"}]
        BY <2>12 DEF PromoteLoses
      <4>2. \/ connecting' = connecting
            \/ connecting' = [connecting EXCEPT ![p] = TRUE]
        BY <2>12 DEF PromoteLoses
      <4>3. asked' \in [Procs -> SUBSET Threads]
        BY <1>a, <4>1 DEF Threads
      <4> QED  BY <1>b, <4>2, <4>3
    <3>2. promo' \in [Procs -> Promotion]
      BY <1>c, <2>12 DEF PromoteLoses
    <3>3. \A q \in Procs : promo'[q] = "connecting" => promo[q] = "connecting" \/ connecting'[q]
      BY <1>b, <1>c, <2>12 DEF PromoteLoses
    <3>4. \A q \in Procs : connecting[q] => connecting'[q]
      BY <1>b, <2>12 DEF PromoteLoses
    <3> QED  BY <2>12, <3>1, <3>2, <3>3, <3>4 DEF PromoteLoses, TypeOK
  <2>13. CASE PromoteGivesUp(p)
    <3>1. pc' \in [Calls -> CallState]
      BY <2>13, ResumeType, MovesType DEF PromoteGivesUp, TypeOK
    <3> QED  BY <2>13, <3>1 DEF PromoteGivesUp, HealAgain, StopGoesOn, TypeOK
  <2>14. CASE ReconnectFailed(p)
    <3>1. pc' \in [Calls -> CallState]
      BY <2>14, ResumeType, MovesType DEF ReconnectFailed, TypeOK
    <3> QED  BY <2>14, <3>1, DropSocketType DEF ReconnectFailed, Rejected, StopGoesOn, TypeOK
  <2>15. CASE Start(p)
    BY <2>15 DEF Start, TypeOK
  <2>16. CASE StartConnects(p)
    <3>1. asked' \in [Procs -> SUBSET Threads] /\ connecting' \in [Procs -> BOOLEAN]
      <4>1. \/ asked' = asked
            \/ asked' = [asked EXCEPT ![p] = @ \cup {"start"}]
        BY <2>16 DEF StartConnects
      <4>2. \/ connecting' = connecting
            \/ connecting' = [connecting EXCEPT ![p] = TRUE]
        BY <2>16 DEF StartConnects
      <4>3. asked' \in [Procs -> SUBSET Threads]
        BY <1>a, <4>1 DEF Threads
      <4> QED  BY <1>b, <4>2, <4>3
    <3>2. startAt' \in [Procs -> Starting]
      BY <1>c, <2>16 DEF StartConnects
    <3>3. \A q \in Procs : startAt'[q] = "connecting" => startAt[q] = "connecting" \/ connecting'[q]
      BY <1>b, <1>c, <2>16 DEF StartConnects
    <3>4. \A q \in Procs : connecting[q] => connecting'[q]
      BY <1>b, <2>16 DEF StartConnects
    <3> QED  BY <2>16, <3>1, <3>2, <3>3, <3>4 DEF StartConnects, TypeOK
  <2>17. CASE StartFails(p)
    BY <2>17 DEF StartFails, TypeOK
  <2>18. CASE Stop(p)
    <3>1. pc' \in [Calls -> CallState]
      BY <2>18, ResumeType, MovesType DEF Stop, TypeOK
    <3> QED  BY <2>18, <3>1, DropSocketType, ProxyAssumption
             DEF Stop, Rejected, AfterConnect, TypeOK
  <2>19. CASE StopCloses(p)
    BY <2>19, DropSocketType DEF StopCloses, TypeOK
  <2>20. CASE StopReleases(p)
    BY <2>20, OwnerLeavesType DEF StopReleases, TypeOK
  <2> QED  BY <1>4, <2>1, <2>2, <2>3, <2>4, <2>5, <2>6, <2>7, <2>8, <2>9, <2>10, <2>11,
              <2>12, <2>13, <2>14, <2>15, <2>16, <2>17, <2>18, <2>19, <2>20 DEF ProxyStep
<1>5. ASSUME NEW c \in Calls, CallStep(c)  PROVE TypeOK'
  <2>1. /\ UNCHANGED <<envVars, sock, valid, inbox, viewVars, promoted, healing,
                        timer, runVars>>
        /\ Home[c] \in Procs
    BY <1>5, CallFootprint, Zenon
  <2>2. /\ promo' \in [Procs -> Promotion]
        /\ \A p \in Procs : promo'[p] = "connecting" => promo[p] = "connecting"
    <3>1. \/ promo' = promo
          \/ promo' = [promo EXCEPT ![Home[c]] = "binding"]
      BY <1>5, CallFootprint, Zenon
    <3> QED  BY <1>c, <2>1, <3>1
  <2>3. connecting' \in [Procs -> BOOLEAN] /\ \A p \in Procs : connecting[p] => connecting'[p]
    <3>1. \/ connecting' = connecting
          \/ connecting' = [connecting EXCEPT ![Home[c]] = TRUE]
      BY <1>5, CallFootprint, Zenon
    <3> QED  BY <1>b, <2>1, <3>1
  <2>4. asked' \in [Procs -> SUBSET Threads]
    <3>1. c \in Threads
      BY DEF Threads
    <3>2. \/ asked' = asked
          \/ asked' = [asked EXCEPT ![Home[c]] = @ \cup {c}]
          \/ asked' = [asked EXCEPT ![Home[c]] = @ \ {c}]
      BY <1>5, CallFootprint, Zenon
    <3> QED  BY <1>a, <2>1, <3>1, <3>2
  <2>5. pc' \in [Calls -> CallState]
    <3>1. \E point \in CallState : pc' = [pc EXCEPT ![c] = point]
      BY <1>5, CallFootprint, Zenon
    <3> QED  BY <1>b, <3>1
  <2> QED  BY <2>1, <2>2, <2>3, <2>4, <2>5 DEF TypeOK
<1>6. CASE UNCHANGED vars
  BY <1>6 DEF vars, TypeOK, Probing
<1> QED  BY <1>1, <1>2, <1>3, <1>4, <1>5, <1>6 DEF Next, OwnerStep

-----------------------------------------------------------------------------
(* Answers on their way.  A probe has one answer at most, its function is    *)
(* still waiting for it, and the owner does not answer it again.             *)

Replies(s) == {t \in Threads : \E i \in 1..Len(s) : s[i].kind = "reply" /\ s[i].to = t}
Single(s)  == \A i, j \in 1..Len(s) :
                 s[i].kind = "reply" /\ s[j].kind = "reply" /\ s[i].to = s[j].to => i = j

ReplyAt(p) ==
    /\ inbox[p] # <<>> => sock[p] = "open"
    /\ Replies(inbox[p]) \subseteq Probing(p) \ asked[p]
    /\ Single(inbox[p])

ReplyInv == \A p \in Procs : ReplyAt(p)

LEMMA NoReplies == Replies(<<>>) = {} /\ Single(<<>>)
BY DEF Replies, Single

LEMMA AppendOther ==
    ASSUME NEW s \in Seq(Frames), NEW f \in Frames, f.kind # "reply", Single(s)
    PROVE  Replies(Append(s, f)) = Replies(s) /\ Single(Append(s, f))
<1>1. /\ Len(Append(s, f)) = Len(s) + 1 /\ Len(s) \in Nat
      /\ \A i \in 1..Len(s) : Append(s, f)[i] = s[i]
      /\ Append(s, f)[Len(s) + 1] = f
  BY AppendProperties, LenProperties
<1>2. \A i \in 1..(Len(s) + 1) : i \in 1..Len(s) \/ i = Len(s) + 1
  BY <1>1
<1>3. \A i \in 1..(Len(s) + 1) : Append(s, f)[i].kind = "reply" => i \in 1..Len(s)
  BY <1>1, <1>2
<1>4. \A i \in 1..Len(s) : i \in 1..(Len(s) + 1)
  BY <1>1
<1> QED  BY <1>1, <1>3, <1>4 DEF Replies, Single

LEMMA AppendReply ==
    ASSUME NEW s \in Seq(Frames), NEW f \in Frames, f.kind = "reply",
           f.to \notin Replies(s), Single(s)
    PROVE  Replies(Append(s, f)) = Replies(s) \cup {f.to} /\ Single(Append(s, f))
<1>1. /\ Len(Append(s, f)) = Len(s) + 1 /\ Len(s) \in Nat
      /\ \A i \in 1..Len(s) : Append(s, f)[i] = s[i]
      /\ Append(s, f)[Len(s) + 1] = f
  BY AppendProperties, LenProperties
<1>2. \A i \in 1..(Len(s) + 1) : i \in 1..Len(s) \/ i = Len(s) + 1
  BY <1>1
<1>3. \A i \in 1..Len(s) : i \in 1..(Len(s) + 1)
  BY <1>1
<1>4. Len(s) + 1 \in 1..(Len(s) + 1)
  BY <1>1
<1>5. f.to \in Threads
  BY FramesType
<1>6. \A i \in 1..Len(s) : s[i].kind = "reply" => s[i].to # f.to
  BY <1>5 DEF Replies
<1>7. Replies(Append(s, f)) = Replies(s) \cup {f.to}
  BY <1>1, <1>2, <1>3, <1>4, <1>5 DEF Replies
<1>8. Single(Append(s, f))
  BY <1>1, <1>2, <1>6 DEF Single
<1> QED  BY <1>7, <1>8

\* Reading or dropping one frame answers one probe at most.
LEMMA RemoveOne ==
    ASSUME NEW s \in Seq(Frames), NEW r \in Seq(Frames), NEW k \in 1..Len(s),
           Len(r) = Len(s) - 1,
           \A i \in 1..(Len(s) - 1) : r[i] = IF i < k THEN s[i] ELSE s[i + 1],
           Single(s)
    PROVE  /\ Replies(r) \subseteq Replies(s) /\ Single(r)
           /\ s[k].kind = "reply" => s[k].to \notin Replies(r)
<1> DEFINE at(i) == IF i < k THEN i ELSE i + 1
<1>1. Len(s) \in Nat
  BY LenProperties
<1>2. \A i \in 1..Len(r) : at(i) \in 1..Len(s) /\ at(i) # k /\ r[i] = s[at(i)]
  BY <1>1
<1>3. \A i, j \in 1..Len(r) : at(i) = at(j) => i = j
  BY <1>1
<1> HIDE DEF at
<1>4. Replies(r) \subseteq Replies(s)
  BY <1>2 DEF Replies
<1>5. Single(r)
  BY <1>2, <1>3 DEF Single
<1>6. s[k].kind = "reply" => s[k].to \notin Replies(r)
  BY <1>2 DEF Replies, Single
<1> QED  BY <1>4, <1>5, <1>6

LEMMA ReadOne ==
    ASSUME NEW s \in Seq(Frames), s # <<>>, Single(s)
    PROVE  /\ Tail(s) \in Seq(Frames) /\ Replies(Tail(s)) \subseteq Replies(s) /\ Single(Tail(s))
           /\ Head(s).kind = "reply" => Head(s).to \in Replies(s) \ Replies(Tail(s))
<1>1. /\ Tail(s) \in Seq(Frames) /\ Len(Tail(s)) = Len(s) - 1
      /\ \A i \in 1..Len(Tail(s)) : Tail(s)[i] = s[i + 1]
      /\ Head(s) \in Frames
  BY HeadTailProperties
<1>2. Len(s) \in Nat /\ Len(s) > 0 /\ Head(s) = s[1]
  BY LenProperties, EmptySeq
<1>3. 1 \in 1..Len(s) /\ \A i \in 1..(Len(s) - 1) : ~(i < 1)
  BY <1>2
<1>4. \A i \in 1..(Len(s) - 1) : Tail(s)[i] = IF i < 1 THEN s[i] ELSE s[i + 1]
  BY <1>1, <1>3
<1>5. /\ Replies(Tail(s)) \subseteq Replies(s) /\ Single(Tail(s))
      /\ s[1].kind = "reply" => s[1].to \notin Replies(Tail(s))
  BY <1>1, <1>3, <1>4, RemoveOne
<1>6. s[1].kind = "reply" => s[1].to \in Replies(s)
  BY <1>1, <1>2, <1>3, FramesType DEF Replies
<1> QED  BY <1>1, <1>2, <1>5, <1>6

\* The answer a proxy reads is for a function of its own.
LEMMA AnswerIsAwaited ==
    ASSUME TypeOK, NEW p \in Procs, ReplyAt(p), inbox[p] # <<>>, Next1(p).kind = "reply"
    PROVE  Next1(p).to \in Probing(p)
<1>1. inbox[p] \in Seq(Frames)
  BY DEF TypeOK
<1> QED  BY <1>1, ReadOne DEF ReplyAt, Next1

\* Process q is not touched, up to what is sent to it.
SameLink(q) == sock'[q] = sock[q] /\ valid'[q] = valid[q] /\ connecting'[q] = connecting[q]
SameLead(q) == /\ snap'[q] = snap[q] /\ promoted'[q] = promoted[q] /\ promo'[q] = promo[q]
               /\ healing'[q] = healing[q] /\ timer'[q] = timer[q]
SameRun(q)  == /\ stopped'[q] = stopped[q] /\ stopAt'[q] = stopAt[q]
               /\ startAt'[q] = startAt[q]
SameCalls(q) == \A c \in Calls : Home[c] = q => pc'[c] = pc[c]
Untouched(q) == SameLink(q) /\ SameLead(q) /\ SameRun(q) /\ SameCalls(q)

\* A step of one process does not touch another.
LEMMA Elsewhere ==
    ASSUME TypeOK, NEW p \in Procs, ReplyAt(p), ProxyStep(p), NEW q \in Procs, q # p
    PROVE  Untouched(q)
<1> USE DEF envVars, linkVars, viewVars, leadVars, runVars
<1>0. /\ sock = [r \in Procs |-> sock[r]] /\ valid = [r \in Procs |-> valid[r]]
      /\ connecting = [r \in Procs |-> connecting[r]] /\ snap = [r \in Procs |-> snap[r]]
      /\ promoted = [r \in Procs |-> promoted[r]] /\ promo = [r \in Procs |-> promo[r]]
      /\ healing = [r \in Procs |-> healing[r]] /\ timer = [r \in Procs |-> timer[r]]
      /\ stopped = [r \in Procs |-> stopped[r]] /\ stopAt = [r \in Procs |-> stopAt[r]]
      /\ startAt = [r \in Procs |-> startAt[r]] /\ pc = [c \in Calls |-> pc[c]]
      /\ \A c \in Calls : Home[c] \in Procs
  BY ProxyAssumption DEF TypeOK
<1>1. ASSUME NEW moves, Resume(p, moves)  PROVE \A c \in Calls : Home[c] = q => pc'[c] = pc[c]
  BY <1>0, <1>1 DEF Resume
<1>2. ASSUME NEW from, NEW to, StopGoesOn(p, from, to)  PROVE stopAt'[q] = stopAt[q]
  BY <1>0, <1>2 DEF StopGoesOn
<1>a. ASSUME DropSocket(p)  PROVE sock'[q] = sock[q] /\ valid'[q] = valid[q]
  BY <1>0, <1>a DEF DropSocket
<1>b. ASSUME NEW at, Heal(p, at)
      PROVE  healing'[q] = healing[q] /\ timer'[q] = timer[q] /\ promo'[q] = promo[q]
  BY <1>0, <1>b DEF Heal
<1>c. ASSUME HealAgain(p)  PROVE healing'[q] = healing[q] /\ timer'[q] = timer[q]
  BY <1>0, <1>c DEF HealAgain
<1> USE DEF Untouched, SameLink, SameLead, SameRun, SameCalls
<1>3. ASSUME NEW t \in Threads, OwnerReplies(p, t)  PROVE Untouched(q)
  BY <1>0, <1>3 DEF OwnerReplies
<1>4. ASSUME NEW t \in Threads, ProbeTimeout(p, t)  PROVE Untouched(q)
  BY <1>0, <1>4, ProxyAssumption DEF ProbeTimeout, Probing
<1>5. CASE ReadNotify(p)
  BY <1>0, <1>5 DEF ReadNotify
<1>6. CASE ReadReply(p)
  <2>1. Next1(p).to \in Probing(p)
    BY <1>6, AnswerIsAwaited DEF ReadReply
  <2>2. /\ UNCHANGED <<sock, connecting, promoted, stopped>>
        /\ valid'[q] = valid[q] /\ snap'[q] = snap[q]
    BY <1>0, <1>6 DEF ReadReply
  <2>3. CASE Next1(p).to = "promotion"
    BY <1>0, <1>1, <1>2, <1>6, <2>2, <2>3 DEF ReadReply
  <2>4. CASE Next1(p).to = "start"
    BY <1>0, <1>6, <2>2, <2>4 DEF ReadReply
  <2>5. CASE Next1(p).to \notin {"promotion", "start"}
    <3>1. Next1(p).to \in Calls /\ Home[Next1(p).to] = p
      BY <2>1, <2>5 DEF Probing
    <3> QED  BY <1>0, <1>6, <2>2, <2>5, <3>1 DEF ReadReply, Goto
  <2> QED  BY <2>3, <2>4, <2>5
<1>7. CASE ReadClose(p)
  BY <1>0, <1>7 DEF ReadClose
<1>8. CASE SocketGone(p)
  BY <1>0, <1>1, <1>a, <1>b, <1>8 DEF SocketGone
<1>9. CASE HealTimerFires(p)
  BY <1>0, <1>b, <1>9 DEF HealTimerFires
<1>10. CASE ConnectOk(p)
  BY <1>0, <1>2, <1>10 DEF ConnectOk
<1>11. CASE ConnectFail(p)
  BY <1>0, <1>1, <1>2, <1>11 DEF ConnectFail
<1>12. CASE PromoteWins(p)
  BY <1>0, <1>1, <1>2, <1>12 DEF PromoteWins
<1>13. CASE Retreat(p)
  BY <1>0, <1>1, <1>2, <1>c, <1>13 DEF Retreat
<1>14. CASE PromoteLoses(p)
  BY <1>0, <1>14 DEF PromoteLoses
<1>15. CASE PromoteGivesUp(p)
  BY <1>0, <1>1, <1>2, <1>c, <1>15 DEF PromoteGivesUp
<1>16. CASE ReconnectFailed(p)
  BY <1>0, <1>1, <1>2, <1>a, <1>16 DEF ReconnectFailed
<1>17. CASE Start(p)
  BY <1>0, <1>17 DEF Start
<1>18. CASE StartConnects(p)
  BY <1>0, <1>18 DEF StartConnects
<1>19. CASE StartFails(p)
  BY <1>0, <1>19 DEF StartFails
<1>20. CASE Stop(p)
  BY <1>0, <1>1, <1>a, <1>20 DEF Stop
<1>21. CASE StopCloses(p)
  BY <1>0, <1>a, <1>21 DEF StopCloses
<1>22. CASE StopReleases(p)
  BY <1>0, <1>22 DEF StopReleases
<1> HIDE DEF Untouched, SameLink, SameLead, SameRun, SameCalls
<1> QED  BY <1>3, <1>4, <1>5, <1>6, <1>7, <1>8, <1>9, <1>10, <1>11, <1>12, <1>13,
            <1>14, <1>15, <1>16, <1>17, <1>18, <1>19, <1>20, <1>21, <1>22 DEF ProxyStep

\* What is sent to another process changes only if the owner leaves.
LEMMA SentElsewhere ==
    ASSUME TypeOK, NEW p \in Procs, ProxyStep(p), NEW q \in Procs, q # p
    PROVE  OwnerLeaves \/ (inbox'[q] = inbox[q] /\ asked'[q] = asked[q])
<1> USE DEF envVars, linkVars
<1>0. inbox = [r \in Procs |-> inbox[r]] /\ asked = [r \in Procs |-> asked[r]]
  BY DEF TypeOK
<1>a. ASSUME DropSocket(p)  PROVE inbox'[q] = inbox[q] /\ asked'[q] = asked[q]
  BY <1>0, <1>a DEF DropSocket
<1>1. ASSUME NEW t \in Threads, OwnerReplies(p, t)
      PROVE  inbox'[q] = inbox[q] /\ asked'[q] = asked[q]
  BY <1>0, <1>1 DEF OwnerReplies
<1>2. ASSUME NEW t \in Threads, ProbeTimeout(p, t)
      PROVE  inbox'[q] = inbox[q] /\ asked'[q] = asked[q]
  BY <1>0, <1>2 DEF ProbeTimeout
<1>3. CASE ReadNotify(p) \/ ReadClose(p)
  BY <1>0, <1>3 DEF ReadNotify, ReadClose
<1>4. CASE ReadReply(p)
  BY <1>0, <1>4 DEF ReadReply
<1>5. CASE ConnectOk(p)
  BY <1>0, <1>5 DEF ConnectOk
<1>6. CASE PromoteLoses(p) \/ StartConnects(p)
  BY <1>0, <1>6 DEF PromoteLoses, StartConnects
<1>7. CASE SocketGone(p) \/ ReconnectFailed(p) \/ Stop(p) \/ StopCloses(p)
  BY <1>a, <1>7 DEF SocketGone, ReconnectFailed, Stop, StopCloses
<1>8. CASE HealTimerFires(p) \/ PromoteGivesUp(p) \/ PromoteWins(p)
  BY <1>8 DEF HealTimerFires, PromoteGivesUp, PromoteWins
<1>9. CASE ConnectFail(p) \/ Start(p) \/ StartFails(p)
  BY <1>9 DEF ConnectFail, Start, StartFails
<1>10. CASE Retreat(p) \/ StopReleases(p)
  BY <1>10 DEF Retreat, StopReleases
<1> QED  BY <1>1, <1>2, <1>3, <1>4, <1>5, <1>6, <1>7, <1>8, <1>9, <1>10 DEF ProxyStep

LEMMA ProbingElsewhere ==
    ASSUME NEW q, Untouched(q)  PROVE Probing(q)' = Probing(q)
<1>1. promo'[q] = promo[q] /\ startAt'[q] = startAt[q] /\ \A c \in Calls : Home[c] = q => pc'[c] = pc[c]
  BY DEF Untouched, SameLead, SameRun, SameCalls
<1> QED  BY <1>1 DEF Probing

LEMMA RepliesKept ==
    ASSUME TypeOK, NEW q \in Procs, ReplyAt(q), sock'[q] = sock[q],
           Probing(q) \ asked[q] \subseteq Probing(q)' \ asked'[q],
           \/ inbox'[q] = inbox[q]
           \/ sock[q] = "open" /\ \E f \in Frames : f.kind # "reply" /\ inbox'[q] = Append(inbox[q], f)
    PROVE  ReplyAt(q)'
<1>1. CASE inbox'[q] = inbox[q]
  BY <1>1 DEF ReplyAt, Single, Replies
<1>2. ASSUME sock[q] = "open", NEW f \in Frames, f.kind # "reply", inbox'[q] = Append(inbox[q], f)
      PROVE  ReplyAt(q)'
  <2>1. Replies(inbox'[q]) = Replies(inbox[q]) /\ Single(inbox'[q])
    BY <1>2, AppendOther DEF TypeOK, ReplyAt
  <2> QED  BY <1>2, <2>1 DEF ReplyAt, Single, Replies
<1> QED  BY <1>1, <1>2

LEMMA RepliesGone == ASSUME NEW q, inbox'[q] = <<>>  PROVE ReplyAt(q)'
BY NoReplies DEF ReplyAt, Single, Replies

\* An owner that leaves closes sockets and answers no more.
LEMMA OwnerLeavesReplies ==
    ASSUME TypeOK, NEW q \in Procs, ReplyAt(q), OwnerLeaves, sock'[q] = sock[q],
           Probing(q)' = Probing(q)
    PROVE  ReplyAt(q)'
<1>1. asked'[q] = {}
  BY DEF OwnerLeaves
<1>2. \/ inbox'[q] = inbox[q]
      \/ sock[q] = "open" /\ inbox'[q] = Append(inbox[q], Closed)
  BY DEF OwnerLeaves, Reached
<1>3. Closed \in Frames /\ Closed.kind # "reply"
  BY FramesType DEF Closed
<1>4. Probing(q) \ asked[q] \subseteq Probing(q)' \ asked'[q]
  BY <1>1
<1> QED  BY <1>2, <1>3, <1>4, RepliesKept

LEMMA ReplyStep ==
    ASSUME TypeOK, ReplyInv, Next, NEW q \in Procs  PROVE ReplyAt(q)'
<1> USE DEF envVars, linkVars, viewVars, leadVars, runVars
<1>0. ReplyAt(q) /\ inbox[q] \in Seq(Frames)
  BY DEF ReplyInv, TypeOK
<1>1. CASE OwnerExits
  BY <1>0, <1>1, OwnerLeavesReplies DEF OwnerExits, Probing
<1>2. CASE PortTaken
  BY <1>0, <1>2, RepliesKept DEF PortTaken, Probing
<1>3. CASE BridgeFlips
  <2> DEFINE f == [kind |-> "notify", to |-> None, up |-> ~bridge]
  <2>1. f \in Frames /\ f.kind # "reply"
    BY FramesType DEF TypeOK
  <2>2. inbox'[q] = inbox[q] \/ (sock[q] = "open" /\ inbox'[q] = Append(inbox[q], f))
    BY <1>3 DEF BridgeFlips, Reached
  <2>3. Probing(q)' = Probing(q) /\ asked' = asked /\ sock' = sock
    BY <1>3 DEF BridgeFlips, Probing
  <2> HIDE DEF f
  <2> QED  BY <1>0, <2>1, <2>2, <2>3, RepliesKept
<1>4. ASSUME NEW p \in Procs, ProxyStep(p), p # q  PROVE ReplyAt(q)'
  <2>1. Untouched(q) /\ Probing(q)' = Probing(q) /\ sock'[q] = sock[q]
    <3>1. Untouched(q)
      BY <1>4, Elsewhere DEF ReplyInv
    <3> QED  BY <3>1, ProbingElsewhere DEF Untouched, SameLink
  <2>2. CASE OwnerLeaves
    BY <1>0, <2>1, <2>2, OwnerLeavesReplies
  <2>3. CASE inbox'[q] = inbox[q] /\ asked'[q] = asked[q]
    BY <1>0, <2>1, <2>3, RepliesKept
  <2> QED  BY <1>4, <2>2, <2>3, SentElsewhere
<1>5. ASSUME NEW c \in Calls, CallStep(c)  PROVE ReplyAt(q)'
  <2>1. sock' = sock /\ inbox' = inbox /\ startAt' = startAt /\ pc[c] # "probing" /\ Home[c] \in Procs
    BY <1>5, CallFootprint, Zenon
  <2>2. promo'[q] = promo[q] \/ promo[q] = "none"
    <3>1. \/ promo' = promo
          \/ promo[Home[c]] = "none" /\ promo' = [promo EXCEPT ![Home[c]] = "binding"]
      BY <1>5, CallFootprint, Zenon
    <3>2. promo = [r \in Procs |-> promo[r]]
      BY DEF TypeOK
    <3> QED  BY <2>1, <3>1, <3>2
  <2>3. asked'[q] \subseteq asked[q] \cup {c}
    <3>1. \/ asked' = asked
          \/ asked' = [asked EXCEPT ![Home[c]] = @ \cup {c}]
          \/ asked' = [asked EXCEPT ![Home[c]] = @ \ {c}]
      BY <1>5, CallFootprint, Zenon
    <3>2. asked = [r \in Procs |-> asked[r]]
      BY DEF TypeOK
    <3> QED  BY <2>1, <3>1, <3>2
  <2>4. \A d \in Calls : d # c => pc'[d] = pc[d]
    <3>1. \E point \in CallState : pc' = [pc EXCEPT ![c] = point]
      BY <1>5, CallFootprint, Zenon
    <3>2. pc = [d \in Calls |-> pc[d]]
      BY DEF TypeOK
    <3> QED  BY <3>1, <3>2
  <2>5. c \notin Probing(q)
    BY <2>1, ProxyAssumption DEF Probing
  <2>6. Probing(q) \ asked[q] \subseteq Probing(q)' \ asked'[q]
    BY <2>1, <2>2, <2>3, <2>4, <2>5 DEF Probing
  <2> QED  BY <1>0, <2>1, <2>6, RepliesKept
<1>6. ASSUME ProxyStep(q)  PROVE ReplyAt(q)'
  <2>0. /\ sock = [r \in Procs |-> sock[r]] /\ inbox = [r \in Procs |-> inbox[r]]
        /\ asked = [r \in Procs |-> asked[r]] /\ promo = [r \in Procs |-> promo[r]]
        /\ startAt = [r \in Procs |-> startAt[r]] /\ pc = [c \in Calls |-> pc[c]]
    BY DEF TypeOK
  <2>a. ASSUME DropSocket(q)  PROVE ReplyAt(q)'
    BY <2>0, <2>a, RepliesGone DEF DropSocket
  <2>b. ASSUME NEW moves, "probing" \notin DOMAIN moves, Resume(q, moves)
        PROVE  \A c \in Calls : Home[c] = q /\ pc[c] = "probing" => pc'[c] = "probing"
    BY <2>b DEF Resume
  <2>c. /\ "probing" \notin DOMAIN WonCalls /\ "probing" \notin DOMAIN LostCalls
        /\ "probing" \notin DOMAIN [connecting |-> "catching", linking |-> "unlinked",
                                   relinking |-> "settled"]
    BY DEF WonCalls, LostCalls
  <2>1. ASSUME NEW t \in Threads, OwnerReplies(q, t)  PROVE ReplyAt(q)'
    <3> DEFINE f == [kind |-> "reply", to |-> t, up |-> bridge]
    <3>1. f \in Frames /\ f.kind = "reply" /\ f.to = t
      BY FramesType DEF TypeOK
    <3>2. /\ t \in asked[q] \cap Probing(q) /\ sock[q] = "open"
          /\ inbox'[q] = Append(inbox[q], f)
          /\ sock' = sock /\ asked'[q] = asked[q] \ {t} /\ Probing(q)' = Probing(q)
      BY <2>0, <2>1 DEF OwnerReplies, Reached, Probing
    <3> HIDE DEF f
    <3>3. Replies(inbox'[q]) = Replies(inbox[q]) \cup {t} /\ Single(inbox'[q])
      BY <1>0, <3>1, <3>2, AppendReply DEF ReplyAt
    <3>4. Replies(inbox'[q]) \subseteq Probing(q)' \ asked'[q] /\ sock'[q] = "open"
      BY <1>0, <3>2, <3>3 DEF ReplyAt
    <3> QED  BY <3>3, <3>4 DEF ReplyAt, Replies, Single
  <2>2. ASSUME NEW t \in Threads, ProbeTimeout(q, t)  PROVE ReplyAt(q)'
    <3>1. /\ sock' = sock /\ asked'[q] = asked[q] \ {t}
          /\ Probing(q) \ {t} \subseteq Probing(q)'
      BY <2>0, <2>2, ProxyAssumption DEF ProbeTimeout, Probing
    <3>2. CASE \A i \in DOMAIN inbox[q] : ~(inbox[q][i].kind = "reply" /\ inbox[q][i].to = t)
      <4>1. inbox' = inbox /\ t \notin Replies(inbox[q])
        BY <1>0, <2>2, <3>2, LenProperties DEF ProbeTimeout, Replies
      <4>2. Replies(inbox[q]) \subseteq Probing(q)' \ asked'[q]
        BY <1>0, <3>1, <4>1 DEF ReplyAt
      <4> QED  BY <1>0, <3>1, <4>1, <4>2 DEF ReplyAt, Replies, Single
    <3>3. ASSUME NEW i \in DOMAIN inbox[q], inbox[q][i].kind = "reply", inbox[q][i].to = t,
                 inbox'[q] = RemoveAt(inbox[q], i)
          PROVE  ReplyAt(q)'
      <4>1. i \in 1..Len(inbox[q])
        BY <1>0, LenProperties
      <4>2. /\ Replies(inbox'[q]) \subseteq Replies(inbox[q]) /\ Single(inbox'[q])
            /\ t \notin Replies(inbox'[q])
        <5>1. /\ RemoveAt(inbox[q], i) \in Seq(Frames)
              /\ Len(RemoveAt(inbox[q], i)) = Len(inbox[q]) - 1
              /\ \A j \in 1..(Len(inbox[q]) - 1) :
                    RemoveAt(inbox[q], i)[j] = IF j < i THEN inbox[q][j] ELSE inbox[q][j + 1]
          BY <1>0, RemoveAtProperties
        <5>2. Single(inbox[q])
          BY <1>0 DEF ReplyAt
        <5>3. /\ Replies(RemoveAt(inbox[q], i)) \subseteq Replies(inbox[q])
              /\ Single(RemoveAt(inbox[q], i))
              /\ inbox[q][i].kind = "reply" => inbox[q][i].to \notin Replies(RemoveAt(inbox[q], i))
          BY <1>0, <4>1, <5>1, <5>2, RemoveOne, Zenon
        <5> QED  BY <3>3, <5>3, Zenon
      <4>3. Replies(inbox'[q]) \subseteq Probing(q)' \ asked'[q] /\ sock'[q] = sock[q]
        BY <1>0, <3>1, <4>2 DEF ReplyAt
      <4>4. inbox[q] # <<>>
        BY <1>0, <4>1, LenProperties
      <4> QED  BY <1>0, <4>2, <4>3, <4>4 DEF ReplyAt, Replies, Single
    <3> QED  BY <2>0, <2>2, <3>2, <3>3 DEF ProbeTimeout
  <2>3. CASE ReadNotify(q)
    <3>1. inbox[q] # <<>> /\ inbox'[q] = Tail(inbox[q]) /\ sock' = sock /\ asked' = asked
      BY <2>0, <2>3 DEF ReadNotify
    <3>2. Probing(q)' = Probing(q)
      BY <2>3 DEF ReadNotify, Probing
    <3>3. Replies(inbox'[q]) \subseteq Replies(inbox[q]) /\ Single(inbox'[q])
      BY <1>0, <3>1, ReadOne DEF ReplyAt
    <3>4. Replies(inbox'[q]) \subseteq Probing(q)' \ asked'[q] /\ sock'[q] = "open"
      BY <1>0, <3>1, <3>2, <3>3 DEF ReplyAt
    <3> QED  BY <3>3, <3>4 DEF ReplyAt, Replies, Single
  <2>4. CASE ReadReply(q)
    <3> DEFINE t == Next1(q).to
    <3>1. /\ inbox[q] # <<>> /\ Next1(q).kind = "reply" /\ sock' = sock /\ asked' = asked
          /\ \/ inbox'[q] = Tail(inbox[q])
             \/ Len(inbox[q]) > 1 /\ inbox'[q] = Tail(Tail(inbox[q]))
      BY <2>0, <2>4 DEF ReadReply
    <3>2. /\ Tail(inbox[q]) \in Seq(Frames) /\ Single(Tail(inbox[q]))
          /\ Replies(Tail(inbox[q])) \subseteq Replies(inbox[q]) \ {t}
      BY <1>0, <3>1, ReadOne DEF ReplyAt, Next1
    <3>3. ASSUME Len(inbox[q]) > 1
          PROVE  /\ Single(Tail(Tail(inbox[q])))
                 /\ Replies(Tail(Tail(inbox[q]))) \subseteq Replies(Tail(inbox[q]))
      <4>1. Tail(inbox[q]) # <<>>
        BY <1>0, <3>3, TailNotEmpty
      <4> QED  BY <3>2, <4>1, ReadOne
    <3>4. Single(inbox'[q]) /\ Replies(inbox'[q]) \subseteq Replies(inbox[q]) \ {t}
      BY <3>1, <3>2, <3>3
    <3>5. Probing(q) \ {t} \subseteq Probing(q)'
      <4>1. CASE t = "promotion"
        <5>1. startAt' = startAt /\ Resume(q, LostCalls)
          BY <2>4, <4>1 DEF ReadReply
        <5> QED  BY <2>b, <2>c, <4>1, <5>1 DEF Probing
      <4>2. CASE t = "start"
        <5>1. promo' = promo /\ pc' = pc
          BY <2>4, <4>2 DEF ReadReply
        <5> QED  BY <4>2, <5>1 DEF Probing
      <4>3. CASE t \notin {"promotion", "start"}
        <5>1. promo' = promo /\ startAt' = startAt /\ \E to : Goto(t, to)
          BY <2>4, <4>3 DEF ReadReply
        <5>2. \A c \in Calls : c # t => pc'[c] = pc[c]
          BY <2>0, <5>1 DEF Goto
        <5> QED  BY <5>1, <5>2 DEF Probing
      <4> QED  BY <4>1, <4>2, <4>3
    <3>6. Replies(inbox'[q]) \subseteq Probing(q)' \ asked'[q] /\ sock'[q] = "open"
      BY <1>0, <3>1, <3>4, <3>5 DEF ReplyAt
    <3> QED  BY <3>4, <3>6 DEF ReplyAt, Replies, Single
  <2>5. CASE ReadClose(q) \/ ConnectOk(q)
    <3>1. inbox'[q] = <<>>
      BY <2>0, <2>5 DEF ReadClose, ConnectOk
    <3> QED  BY <3>1, RepliesGone
  <2>6. CASE SocketGone(q) \/ ReconnectFailed(q) \/ Stop(q) \/ StopCloses(q)
    BY <2>6, <2>a DEF SocketGone, ReconnectFailed, Stop, StopCloses
  <2>7. CASE HealTimerFires(q)
    <3>1. promo'[q] = promo[q] \/ promo[q] = "none"
      BY <2>0, <2>7 DEF HealTimerFires, Heal
    <3>2. Probing(q) \subseteq Probing(q)' /\ sock' = sock /\ inbox' = inbox /\ asked' = asked
      BY <2>7, <3>1 DEF HealTimerFires, Probing
    <3> QED  BY <1>0, <3>2, RepliesKept
  <2>8. CASE ConnectFail(q)
    <3>1. promo[q] = "probing" => promo'[q] = "probing"
      BY <2>0, <2>8 DEF ConnectFail
    <3>2. startAt[q] = "probing" => startAt'[q] = "probing"
      BY <2>0, <2>8 DEF ConnectFail
    <3>3. \A c \in Calls : Home[c] = q /\ pc[c] = "probing" => pc'[c] = "probing"
      BY <2>8, <2>b, <2>c DEF ConnectFail
    <3>4. Probing(q) \subseteq Probing(q)' /\ sock' = sock /\ inbox' = inbox /\ asked' = asked
      BY <2>8, <3>1, <3>2, <3>3 DEF ConnectFail, Probing
    <3> QED  BY <1>0, <3>4, RepliesKept
  <2>9. CASE PromoteWins(q) \/ PromoteGivesUp(q)
    <3>1. promo[q] # "probing" /\ startAt' = startAt
      BY <2>9 DEF PromoteWins, PromoteGivesUp
    <3>2. \A c \in Calls : Home[c] = q /\ pc[c] = "probing" => pc'[c] = "probing"
      BY <2>9, <2>b, <2>c DEF PromoteWins, PromoteGivesUp
    <3>3. Probing(q) \subseteq Probing(q)' /\ sock' = sock /\ inbox' = inbox /\ asked' = asked
      BY <2>9, <3>1, <3>2 DEF PromoteWins, PromoteGivesUp, Probing
    <3> QED  BY <1>0, <3>3, RepliesKept
  <2>10. CASE PromoteLoses(q)
    <3>1. promo[q] # "probing" /\ startAt' = startAt /\ pc' = pc /\ sock' = sock /\ inbox' = inbox
          /\ asked'[q] \subseteq asked[q] \cup {"promotion"}
      BY <2>0, <2>10 DEF PromoteLoses
    <3>2. Probing(q) \ asked[q] \subseteq Probing(q)' \ asked'[q]
      BY <3>1, ProxyAssumption DEF Probing
    <3> QED  BY <1>0, <3>1, <3>2, RepliesKept
  <2>11. CASE Retreat(q)
    <3>1. promo[q] # "probing" /\ startAt' = startAt /\ sock' = sock /\ OwnerLeaves
      BY <2>11 DEF Retreat
    <3>2. \A c \in Calls : Home[c] = q /\ pc[c] = "probing" => pc'[c] = "probing"
      BY <2>11, <2>b, <2>c DEF Retreat
    <3>3. asked'[q] = {} /\ Probing(q) \ asked[q] \subseteq Probing(q)'
      BY <3>1, <3>2 DEF OwnerLeaves, Probing
    <3>4. inbox'[q] = inbox[q] \/ (sock[q] = "open" /\ inbox'[q] = Append(inbox[q], Closed))
      BY <3>1 DEF OwnerLeaves, Reached
    <3>5. Closed \in Frames /\ Closed.kind # "reply"
      BY FramesType DEF Closed
    <3> QED  BY <1>0, <3>1, <3>3, <3>4, <3>5, RepliesKept
  <2>12. CASE Start(q) \/ StartFails(q)
    <3>1. startAt[q] # "probing" /\ promo' = promo /\ pc' = pc /\ sock' = sock
          /\ inbox' = inbox /\ asked' = asked
      BY <2>12 DEF Start, StartFails
    <3>2. Probing(q) \subseteq Probing(q)'
      BY <3>1 DEF Probing
    <3> QED  BY <1>0, <3>1, <3>2, RepliesKept
  <2>13. CASE StartConnects(q)
    <3>1. startAt[q] # "probing" /\ promo' = promo /\ pc' = pc /\ sock' = sock /\ inbox' = inbox
          /\ asked'[q] \subseteq asked[q] \cup {"start"}
      BY <2>0, <2>13 DEF StartConnects
    <3>2. Probing(q) \ asked[q] \subseteq Probing(q)' \ asked'[q]
      BY <3>1, ProxyAssumption DEF Probing
    <3> QED  BY <1>0, <3>1, <3>2, RepliesKept
  <2>14. CASE StopReleases(q)
    BY <1>0, <2>14, OwnerLeavesReplies DEF StopReleases, Probing
  <2> QED  BY <1>6, <2>1, <2>2, <2>3, <2>4, <2>5, <2>6, <2>7, <2>8, <2>9, <2>10, <2>11,
              <2>12, <2>13, <2>14 DEF ProxyStep
<1> QED  BY <1>1, <1>2, <1>3, <1>4, <1>5, <1>6 DEF Next, OwnerStep

-----------------------------------------------------------------------------
(* The state of one process.                                               *)

\* A listener has one keeper.
KeeperAt(p) ==
    /\ promo[p] = "retreating" => ~promoted[p] /\ stopAt[p] # "broker"
    /\ stopAt[p] = "broker" => ~promoted[p]
    /\ owner = p <=> promoted[p] \/ promo[p] = "retreating" \/ stopAt[p] = "broker"

\* What a stop() has still to wait for or to close, by where it is suspended.
StoppedAt(p) ==
    stopped[p] =>
        /\ sock[p] = "none" /\ ~timer[p]
        /\ connecting[p] => stopAt[p] = "connect"
        /\ promo[p] # "none" => stopAt[p] \in {"connect", "promotion"}
        /\ promoted[p] => stopAt[p] \in {"connect", "promotion", "closing"}
        /\ \A c \in Calls : Home[c] = p => pc[c] # "pending"

\* Nothing is stopped before the first stop(), and a healing round that awaits
\* a promotion has one to await.
HealAt(p) ==
    /\ healing[p] => promo[p] # "none"
    /\ stops = 0 =>
          /\ ~stopped[p] /\ stopAt[p] = "none" /\ promo[p] # "retreating"
          /\ sock[p] = "none" => promoted[p] \/ timer[p] \/ healing[p]

ProcAt(p) == KeeperAt(p) /\ StoppedAt(p) /\ HealAt(p)

IInv ==
    /\ TypeOK
    /\ ReplyInv
    /\ \A p \in Procs : ProcAt(p)

\* A process that is not touched keeps its invariant, if the port does not
\* change hands to it or from it.
LEMMA ProcKept ==
    ASSUME NEW q \in Procs, ProcAt(q), Untouched(q), owner' = q <=> owner = q,
           stops' = 0 => stops = 0
    PROVE  ProcAt(q)'
<1> USE DEF Untouched, SameLink, SameLead, SameRun, SameCalls, ProcAt
<1>1. KeeperAt(q)'
  BY DEF KeeperAt
<1>2. StoppedAt(q)'
  BY DEF StoppedAt
<1>3. HealAt(q)'
  BY DEF HealAt
<1> QED  BY <1>1, <1>2, <1>3

\* Where a call goes when its function is resumed or its socket dropped.
LEMMA NoNewPending ==
    ASSUME NEW p, NEW moves,
           moves \in {RejectedCalls, WonCalls, LostCalls, FailedCalls,
                     [connecting |-> "catching", linking |-> "unlinked",
                      relinking |-> "settled"]},
           Resume(p, moves)
    PROVE  \A c \in Calls : pc'[c] = "pending" => pc[c] = "pending"
<1>1. \A s \in DOMAIN moves : moves[s] # "pending"
  BY DEF RejectedCalls, WonCalls, LostCalls, FailedCalls
<1>2. \A c : \A s \in DOMAIN moves : Over(c, moves[s]) # "pending"
  BY <1>1 DEF Over
<1> QED  BY <1>2 DEF Resume

LEMMA NonePending ==
    ASSUME NEW p, Resume(p, RejectedCalls) \/ Resume(p, FailedCalls)
    PROVE  \A c \in Calls : Home[c] = p => pc'[c] # "pending"
<1>1. "pending" \in DOMAIN RejectedCalls /\ "pending" \in DOMAIN FailedCalls
  BY DEF RejectedCalls, LostCalls, FailedCalls
<1>2. /\ \A s \in DOMAIN RejectedCalls : RejectedCalls[s] # "pending"
      /\ \A s \in DOMAIN FailedCalls : FailedCalls[s] # "pending"
  BY DEF RejectedCalls, LostCalls, FailedCalls
<1>3. \A c, s : s # "pending" => Over(c, s) # "pending"
  BY DEF Over
<1> QED  BY <1>1, <1>2, <1>3 DEF Resume

\* A step of a process keeps its own invariant.
LEMMA ProcStep ==
    ASSUME TypeOK, NEW p \in Procs, ReplyAt(p), ProcAt(p), ProxyStep(p)
    PROVE  ProcAt(p)'
<1> USE DEF envVars, linkVars, viewVars, leadVars, runVars
<1> DEFINE Pend == \A c \in Calls : Home[c] = p /\ pc'[c] = "pending" => pc[c] = "pending"
<1>0. /\ sock = [r \in Procs |-> sock[r]] /\ timer = [r \in Procs |-> timer[r]]
      /\ connecting = [r \in Procs |-> connecting[r]]
      /\ promoted = [r \in Procs |-> promoted[r]] /\ promo = [r \in Procs |-> promo[r]]
      /\ healing = [r \in Procs |-> healing[r]] /\ stopped = [r \in Procs |-> stopped[r]]
      /\ stopAt = [r \in Procs |-> stopAt[r]] /\ pc = [c \in Calls |-> pc[c]]
      /\ stops \in Nat
  BY ProxyAssumption DEF TypeOK
<1>a. KeeperAt(p) /\ StoppedAt(p) /\ HealAt(p)
  BY DEF ProcAt
<1>b. inbox[p] # <<>> => sock[p] = "open"
  BY DEF ReplyAt
<1>c. p # None
  BY Outsiders
\* It is enough to look at each part.
<1>d. ASSUME KeeperAt(p)', StoppedAt(p)', HealAt(p)'  PROVE ProcAt(p)'
  BY <1>d DEF ProcAt
<1>e. ASSUME sock'[p] = sock[p], connecting'[p] = connecting[p], owner' = owner, stops' = stops,
             promoted'[p] = promoted[p], promo'[p] = promo[p], healing'[p] = healing[p],
             timer'[p] = timer[p], stopped'[p] = stopped[p], stopAt'[p] = stopAt[p], Pend
      PROVE  ProcAt(p)'
  <2>1. KeeperAt(p)'
    BY <1>a, <1>e DEF KeeperAt
  <2>2. StoppedAt(p)'
    BY <1>a, <1>e DEF StoppedAt
  <2>3. HealAt(p)'
    BY <1>a, <1>e DEF HealAt
  <2> QED  BY <1>d, <2>1, <2>2, <2>3
<1>1. ASSUME NEW t \in Threads, OwnerReplies(p, t)  PROVE ProcAt(p)'
  BY <1>0, <1>e, <1>1 DEF OwnerReplies
<1>2. ASSUME NEW t \in Threads, ProbeTimeout(p, t)  PROVE ProcAt(p)'
  <2>1. /\ UNCHANGED <<owner, stops, sock, connecting, promoted, healing, timer, stopped, stopAt>>
        /\ Pend
    BY <1>0, <1>2 DEF ProbeTimeout
  <2>2. promo'[p] = promo[p] \/ (promo[p] = "probing" /\ promo'[p] = "rejected")
    BY <1>0, <1>2, ProxyAssumption DEF ProbeTimeout, Probing
  <2>3. KeeperAt(p)'
    BY <1>a, <2>1, <2>2 DEF KeeperAt
  <2>4. StoppedAt(p)'
    BY <1>a, <2>1, <2>2 DEF StoppedAt
  <2>5. HealAt(p)'
    BY <1>a, <2>1, <2>2 DEF HealAt
  <2> QED  BY <1>d, <2>3, <2>4, <2>5
<1>3. CASE ReadNotify(p)
  BY <1>0, <1>e, <1>3 DEF ReadNotify
<1>4. CASE ReadReply(p)
  <2>1. sock[p] = "open" /\ UNCHANGED <<owner, stops, sock, connecting, promoted, stopped>>
    BY <1>b, <1>4 DEF ReadReply
  <2>2. \/ UNCHANGED <<promo, healing, timer, stopAt>>
        \/ /\ promo[p] = "probing" /\ promo'[p] = "none" /\ ~healing'[p]
           /\ stopAt'[p] = stopAt[p] \/ (stopAt[p] = "promotion" /\ stopAt'[p] = "closing")
    BY <1>0, <1>4, AnswerIsAwaited, ProxyAssumption DEF ReadReply, StopGoesOn, Probing
  <2>3. KeeperAt(p)'
    BY <1>a, <2>1, <2>2 DEF KeeperAt
  <2>4. StoppedAt(p)'
    BY <1>a, <2>1, <2>2 DEF StoppedAt
  <2>5. HealAt(p)'
    BY <1>a, <2>1, <2>2 DEF HealAt
  <2> QED  BY <1>d, <2>3, <2>4, <2>5
<1>5. CASE ReadClose(p)
  <2>1. /\ sock[p] = "open" /\ sock'[p] = "closing"
        /\ UNCHANGED <<owner, stops, connecting, promoted, promo, healing, timer, stopped, stopAt, pc>>
    BY <1>0, <1>5 DEF ReadClose
  <2>2. KeeperAt(p)'
    BY <1>a, <2>1 DEF KeeperAt
  <2>3. StoppedAt(p)'
    BY <1>a, <2>1 DEF StoppedAt
  <2>4. HealAt(p)'
    BY <1>a, <2>1 DEF HealAt
  <2> QED  BY <1>d, <2>2, <2>3, <2>4
<1>6. CASE SocketGone(p)
  <2>1. /\ sock[p] # "none" /\ sock'[p] = "none" /\ Resume(p, RejectedCalls)
        /\ UNCHANGED <<owner, stops, connecting, promoted, stopped, stopAt>>
    BY <1>0, <1>6 DEF SocketGone, DropSocket
  <2>2. /\ ~timer'[p] /\ (healing'[p] => healing[p] \/ promo'[p] # "none")
        /\ promo[p] # "none" => promo'[p] # "none"
        /\ promo'[p] = "retreating" <=> promo[p] = "retreating"
        /\ ~stopped[p] /\ ~promoted[p] => healing'[p] /\ promo'[p] # "none"
    BY <1>0, <1>6 DEF SocketGone, Heal, Rejected
  <2>3. KeeperAt(p)'
    BY <1>a, <2>1, <2>2 DEF KeeperAt
  <2>4. StoppedAt(p)'
    BY <1>a, <2>1, <2>2 DEF StoppedAt
  <2>5. HealAt(p)'
    BY <1>a, <2>1, <2>2 DEF HealAt
  <2> QED  BY <1>d, <2>3, <2>4, <2>5
<1>7. CASE HealTimerFires(p)
  <2>1. timer[p] /\ UNCHANGED <<owner, stops, sock, connecting, promoted, stopped, stopAt, pc>>
    BY <1>7 DEF HealTimerFires
  <2>2. /\ ~timer'[p] /\ (healing'[p] => healing[p] \/ promo'[p] # "none")
        /\ promo[p] # "none" => promo'[p] # "none"
        /\ promo'[p] = "retreating" <=> promo[p] = "retreating"
        /\ ~stopped[p] /\ ~promoted[p] => healing'[p] /\ promo'[p] # "none"
    BY <1>0, <1>7 DEF HealTimerFires, Heal
  <2>3. KeeperAt(p)'
    BY <1>a, <2>1, <2>2 DEF KeeperAt
  <2>4. StoppedAt(p)'
    BY <1>a, <2>1, <2>2 DEF StoppedAt
  <2>5. HealAt(p)'
    BY <1>a, <2>1, <2>2 DEF HealAt
  <2> QED  BY <1>d, <2>3, <2>4, <2>5
<1>8. CASE ConnectOk(p)
  <2>1. /\ ~stopped[p] /\ sock'[p] = "open"
        /\ UNCHANGED <<owner, stops, promoted, healing, timer, stopped>>
    BY <1>0, <1>8 DEF ConnectOk
  <2>2. /\ promo[p] # "none" => promo'[p] # "none"
        /\ promo'[p] = "retreating" <=> promo[p] = "retreating"
    BY <1>0, <1>8 DEF ConnectOk
  <2>3. /\ stopAt[p] = "none" => stopAt'[p] = "none"
        /\ stopAt'[p] = "broker" <=> stopAt[p] = "broker"
    BY <1>0, <1>8 DEF ConnectOk, StopGoesOn, AfterConnect
  <2>4. KeeperAt(p)'
    BY <1>a, <2>1, <2>2, <2>3 DEF KeeperAt
  <2>5. StoppedAt(p)'
    BY <1>a, <2>1, <2>2, <2>3 DEF StoppedAt
  <2>6. HealAt(p)'
    BY <1>a, <2>1, <2>2, <2>3 DEF HealAt
  <2> QED  BY <1>d, <2>4, <2>5, <2>6
<1>9. CASE ConnectFail(p)
  <2>1. /\ ~connecting'[p]
        /\ UNCHANGED <<owner, stops, sock, promoted, healing, timer, stopped>>
    BY <1>0, <1>9 DEF ConnectFail
  <2>2. /\ promo'[p] # "none" <=> promo[p] # "none"
        /\ promo'[p] = "retreating" <=> promo[p] = "retreating"
    BY <1>0, <1>9 DEF ConnectFail
  <2>3. \/ stopAt'[p] = stopAt[p] /\ stopAt[p] # "connect"
        \/ stopAt[p] = "connect" /\ promo[p] # "none" /\ stopAt'[p] = "promotion"
        \/ stopAt[p] = "connect" /\ promo[p] = "none" /\ stopAt'[p] = "closing"
    BY <1>0, <1>9 DEF ConnectFail, StopGoesOn, AfterConnect
  <2>4. Pend
    BY <1>9, NoNewPending DEF ConnectFail
  <2>5. KeeperAt(p)'
    BY <1>a, <2>1, <2>2, <2>3, <2>4 DEF KeeperAt
  <2>6. StoppedAt(p)'
    BY <1>a, <2>1, <2>2, <2>3, <2>4 DEF StoppedAt
  <2>7. HealAt(p)'
    BY <1>a, <2>1, <2>2, <2>3, <2>4 DEF HealAt
  <2> QED  BY <1>d, <2>5, <2>6, <2>7
<1>10. CASE PromoteWins(p)
  <2>1. promo[p] = "binding" /\ owner = None /\ owner' = p
        /\ UNCHANGED <<stops, sock, connecting, stopped>>
    BY <1>10 DEF PromoteWins
  <2>2. stopped[p] => /\ promo'[p] = "retreating"
                      /\ UNCHANGED <<promoted, healing, timer, stopAt, pc>>
    BY <1>0, <1>10 DEF PromoteWins
  <2>3. ~stopped[p] => /\ promo'[p] = "none" /\ promoted'[p] /\ ~healing'[p] /\ ~timer'[p]
                       /\ \/ stopAt'[p] = stopAt[p]
                          \/ stopAt[p] = "promotion" /\ stopAt'[p] = "closing"
    BY <1>0, <1>10 DEF PromoteWins, StopGoesOn
  <2>4. KeeperAt(p)'
    BY <1>a, <2>1, <2>2, <2>3, <1>c DEF KeeperAt
  <2>5. StoppedAt(p)'
    BY <1>a, <2>1, <2>2, <2>3 DEF StoppedAt
  <2>6. HealAt(p)'
    BY <1>a, <2>1, <2>2, <2>3 DEF HealAt
  <2> QED  BY <1>d, <2>4, <2>5, <2>6
<1>11. CASE Retreat(p)
  <2>1. promo[p] = "retreating" /\ owner' = None /\ promo'[p] = "none"
        /\ UNCHANGED <<stops, sock, connecting, promoted, stopped>>
    BY <1>0, <1>11 DEF Retreat, OwnerLeaves
  <2>2. ~healing'[p] /\ (stopped[p] /\ ~timer[p] => ~timer'[p])
    BY <1>0, <1>11 DEF Retreat, HealAgain
  <2>3. \/ stopAt'[p] = stopAt[p] /\ stopAt[p] # "promotion"
        \/ stopAt[p] = "promotion" /\ stopAt'[p] = "closing"
    BY <1>0, <1>11 DEF Retreat, StopGoesOn
  <2>4. Pend
    BY <1>11, NoNewPending DEF Retreat
  <2>5. KeeperAt(p)'
    BY <1>a, <2>1, <2>2, <2>3, <2>4, <1>c DEF KeeperAt
  <2>6. StoppedAt(p)'
    BY <1>a, <2>1, <2>2, <2>3, <2>4 DEF StoppedAt
  <2>7. HealAt(p)'
    BY <1>a, <2>1, <2>2, <2>3, <2>4 DEF HealAt
  <2> QED  BY <1>d, <2>5, <2>6, <2>7
<1>12. CASE PromoteLoses(p)
  <2>1. ~stopped[p] /\ promo[p] = "binding" /\ promo'[p] \in {"probing", "connecting"}
        /\ UNCHANGED <<owner, stops, sock, promoted, healing, timer, stopped, stopAt, pc>>
    BY <1>0, <1>12 DEF PromoteLoses
  <2>2. KeeperAt(p)'
    BY <1>a, <2>1 DEF KeeperAt
  <2>3. StoppedAt(p)'
    BY <1>a, <2>1 DEF StoppedAt
  <2>4. HealAt(p)'
    BY <1>a, <2>1 DEF HealAt
  <2> QED  BY <1>d, <2>2, <2>3, <2>4
<1>13. CASE PromoteGivesUp(p)
  <2>1. promo[p] = "binding" /\ promo'[p] = "none"
        /\ UNCHANGED <<owner, stops, sock, valid, connecting, promoted, stopped>>
    BY <1>0, <1>13 DEF PromoteGivesUp
  <2>2. ~healing'[p] /\ (stopped[p] /\ ~timer[p] => ~timer'[p])
    BY <1>0, <1>13 DEF PromoteGivesUp, HealAgain
  <2>3. ~stopped[p] /\ sock[p] = "none" /\ (timer[p] \/ healing[p]) => timer'[p]
    BY <1>0, <1>13 DEF PromoteGivesUp, HealAgain, Validated
  <2>4. \/ stopAt'[p] = stopAt[p] /\ stopAt[p] # "promotion"
        \/ stopAt[p] = "promotion" /\ stopAt'[p] = "closing"
    BY <1>0, <1>13 DEF PromoteGivesUp, StopGoesOn
  <2>5. Pend
    BY <1>13, NoNewPending DEF PromoteGivesUp
  <2>6. KeeperAt(p)'
    BY <1>a, <2>1, <2>2, <2>3, <2>4, <2>5 DEF KeeperAt
  <2>7. StoppedAt(p)'
    BY <1>a, <2>1, <2>2, <2>3, <2>4, <2>5 DEF StoppedAt
  <2>8. HealAt(p)'
    BY <1>a, <2>1, <2>2, <2>3, <2>4, <2>5 DEF HealAt
  <2> QED  BY <1>d, <2>6, <2>7, <2>8
<1>14. CASE ReconnectFailed(p)
  <2>1. promo[p] = "rejected" /\ promo'[p] = "none" /\ sock'[p] = "none"
        /\ UNCHANGED <<owner, stops, connecting, promoted, stopped>>
    BY <1>0, <1>14 DEF ReconnectFailed, DropSocket
  <2>2. ~healing'[p] /\ (timer'[p] <=> ~stopped[p])
    BY <1>0, <1>14 DEF ReconnectFailed
  <2>3. \/ stopAt'[p] = stopAt[p] /\ stopAt[p] # "promotion"
        \/ stopAt[p] = "promotion" /\ stopAt'[p] = "closing"
    BY <1>0, <1>14 DEF ReconnectFailed, StopGoesOn
  <2>4. \A c \in Calls : Home[c] = p => pc'[c] # "pending"
    BY <1>14, NonePending DEF ReconnectFailed
  <2>5. KeeperAt(p)'
    BY <1>a, <2>1, <2>2, <2>3, <2>4 DEF KeeperAt
  <2>6. StoppedAt(p)'
    BY <1>a, <2>1, <2>2, <2>3, <2>4 DEF StoppedAt
  <2>7. HealAt(p)'
    BY <1>a, <2>1, <2>2, <2>3, <2>4 DEF HealAt
  <2> QED  BY <1>d, <2>5, <2>6, <2>7
<1>15. CASE Start(p)
  <2>1. stopped[p] /\ ~stopped'[p]
        /\ UNCHANGED <<owner, stops, promoted, promo, healing, stopAt>>
    BY <1>0, <1>15 DEF Start
  <2>2. KeeperAt(p)'
    BY <1>a, <2>1 DEF KeeperAt
  <2>3. StoppedAt(p)'
    BY <1>a, <2>1 DEF StoppedAt
  <2>4. HealAt(p)'
    BY <1>a, <2>1 DEF HealAt
  <2> QED  BY <1>d, <2>2, <2>3, <2>4
<1>16. CASE StartConnects(p)
  <2>1. \/ stopped[p] /\ connecting' = connecting
        \/ ~stopped[p]
    BY <1>16 DEF StartConnects
  <2>2. UNCHANGED <<owner, stops, sock, promoted, promo, healing, timer, stopped, stopAt, pc>>
    BY <1>16 DEF StartConnects
  <2>3. KeeperAt(p)'
    BY <1>a, <2>1, <2>2 DEF KeeperAt
  <2>4. StoppedAt(p)'
    BY <1>a, <2>1, <2>2 DEF StoppedAt
  <2>5. HealAt(p)'
    BY <1>a, <2>1, <2>2 DEF HealAt
  <2> QED  BY <1>d, <2>3, <2>4, <2>5
<1>17. CASE StartFails(p)
  BY <1>0, <1>e, <1>17 DEF StartFails
<1>18. CASE Stop(p)
  <2>1. /\ ~stopped[p] /\ stopped'[p] /\ stopAt[p] = "none" /\ stops' = stops + 1
        /\ ~timer'[p] /\ UNCHANGED <<owner, connecting, promoted, healing>>
        /\ sock'[p] = "none"
    BY <1>0, <1>18 DEF Stop, DropSocket
  <2>2. /\ promo'[p] # "none" <=> promo[p] # "none"
        /\ promo'[p] = "retreating" <=> promo[p] = "retreating"
    BY <1>0, <1>18 DEF Stop, Rejected
  <2>3. /\ connecting[p] => stopAt'[p] = "connect"
        /\ ~connecting[p] /\ promo[p] # "none" => stopAt'[p] = "promotion"
        /\ ~connecting[p] /\ promo[p] = "none" => stopAt'[p] = "closing"
    BY <1>0, <1>18 DEF Stop, AfterConnect
  <2>4. \A c \in Calls : Home[c] = p => pc'[c] # "pending"
    BY <1>18, NonePending DEF Stop
  <2>5. KeeperAt(p)'
    BY <1>a, <2>1, <2>2, <2>3, <2>4 DEF KeeperAt
  <2>6. StoppedAt(p)'
    BY <1>a, <2>1, <2>2, <2>3, <2>4 DEF StoppedAt
  <2>7. HealAt(p)'
    BY <1>a, <2>1, <2>2, <2>3, <2>4, <1>0 DEF HealAt
  <2> QED  BY <1>d, <2>5, <2>6, <2>7
<1>19. CASE StopCloses(p)
  <2>1. /\ stopAt[p] = "closing" /\ sock'[p] = "none" /\ ~promoted'[p]
        /\ UNCHANGED <<owner, stops, connecting, promo, healing, timer, stopped, pc>>
    BY <1>0, <1>19 DEF StopCloses, DropSocket
  <2>2. stopAt'[p] = IF promoted[p] THEN "broker" ELSE "none"
    BY <1>0, <1>19 DEF StopCloses
  <2>3. KeeperAt(p)'
    BY <1>a, <2>1, <2>2 DEF KeeperAt
  <2>4. StoppedAt(p)'
    BY <1>a, <2>1, <2>2 DEF StoppedAt
  <2>5. HealAt(p)'
    BY <1>a, <2>1, <2>2 DEF HealAt
  <2> QED  BY <1>d, <2>3, <2>4, <2>5
<1>20. CASE StopReleases(p)
  <2>1. /\ stopAt[p] = "broker" /\ stopAt'[p] = "none" /\ owner' = None
        /\ UNCHANGED <<stops, sock, connecting, promoted, promo, healing, timer, stopped, pc>>
    BY <1>0, <1>20 DEF StopReleases, OwnerLeaves
  <2>2. KeeperAt(p)'
    BY <1>a, <2>1, <1>c DEF KeeperAt
  <2>3. StoppedAt(p)'
    BY <1>a, <2>1 DEF StoppedAt
  <2>4. HealAt(p)'
    BY <1>a, <2>1 DEF HealAt
  <2> QED  BY <1>d, <2>2, <2>3, <2>4
<1> QED  BY <1>1, <1>2, <1>3, <1>4, <1>5, <1>6, <1>7, <1>8, <1>9, <1>10, <1>11, <1>12,
            <1>13, <1>14, <1>15, <1>16, <1>17, <1>18, <1>19, <1>20 DEF ProxyStep

\* The port passes between a process that steps and nobody.
LEMMA OwnerMoves ==
    ASSUME TypeOK, NEW p \in Procs, KeeperAt(p), ProxyStep(p)
    PROVE  /\ owner' = owner \/ (owner \in {None, p} /\ owner' \in {None, p})
           /\ stops' = 0 => stops = 0
<1> USE DEF envVars
<1>1. CASE PromoteWins(p)
  BY <1>1 DEF PromoteWins
<1>2. CASE Retreat(p) \/ StopReleases(p)
  BY <1>2 DEF Retreat, StopReleases, OwnerLeaves, KeeperAt
<1>3. CASE Stop(p)
  <2>1. stops \in Nat /\ stops' = stops + 1 /\ owner' = owner
    BY <1>3, ProxyAssumption DEF Stop, TypeOK
  <2> QED  BY <2>1
<1>4. CASE \E t \in Threads : OwnerReplies(p, t) \/ ProbeTimeout(p, t)
  BY <1>4 DEF OwnerReplies, ProbeTimeout
<1>5. CASE ReadNotify(p) \/ ReadReply(p) \/ ReadClose(p) \/ SocketGone(p) \/ HealTimerFires(p)
  BY <1>5 DEF ReadNotify, ReadReply, ReadClose, SocketGone, HealTimerFires
<1>6. CASE ConnectOk(p) \/ ConnectFail(p) \/ PromoteLoses(p) \/ PromoteGivesUp(p) \/ ReconnectFailed(p)
  BY <1>6 DEF ConnectOk, ConnectFail, PromoteLoses, PromoteGivesUp, ReconnectFailed
<1>7. CASE Start(p) \/ StartConnects(p) \/ StartFails(p) \/ StopCloses(p)
  BY <1>7 DEF Start, StartConnects, StartFails, StopCloses
<1> QED  BY <1>1, <1>2, <1>3, <1>4, <1>5, <1>6, <1>7 DEF ProxyStep

\* A step of a call keeps the invariant of every process.
LEMMA CallKeepsProc ==
    ASSUME TypeOK, NEW c \in Calls, CallStep(c), NEW q \in Procs, ProcAt(q)
    PROVE  ProcAt(q)'
<1> USE DEF envVars, viewVars, runVars
<1>1. /\ UNCHANGED <<envVars, sock, valid, inbox, viewVars, promoted, healing, timer, runVars>>
      /\ Home[c] \in Procs
  BY CallFootprint, Zenon
<1>2. \/ promo'[q] = promo[q]
      \/ promo[q] = "none" /\ ~stopped[q] /\ promo'[q] = "binding"
  <2>1. \/ promo' = promo
        \/ /\ promo[Home[c]] = "none" /\ ~stopped[Home[c]] /\ ~promoted[Home[c]]
           /\ promo' = [promo EXCEPT ![Home[c]] = "binding"]
    BY CallFootprint, Zenon
  <2>2. promo = [r \in Procs |-> promo[r]]
    BY DEF TypeOK
  <2> QED  BY <1>1, <2>1, <2>2
<1>3. connecting'[q] = connecting[q] \/ ~stopped[q]
  <2>1. \/ connecting' = connecting
        \/ ~stopped[Home[c]] /\ connecting' = [connecting EXCEPT ![Home[c]] = TRUE]
    BY CallFootprint, Zenon
  <2>2. connecting = [r \in Procs |-> connecting[r]]
    BY DEF TypeOK
  <2> QED  BY <1>1, <2>1, <2>2
<1>4. \A d \in Calls : Home[d] = q /\ stopped[q] /\ pc'[d] = "pending" => pc[d] = "pending"
  <2>1. PICK point \in CallState :
           pc' = [pc EXCEPT ![c] = point] /\ (point = "pending" => ~stopped[Home[c]])
    BY CallFootprint, Zenon
  <2>2. pc = [d \in Calls |-> pc[d]]
    BY DEF TypeOK
  <2> QED  BY <2>1, <2>2
<1>5. KeeperAt(q)'
  BY <1>1, <1>2 DEF ProcAt, KeeperAt
<1>6. StoppedAt(q)'
  BY <1>1, <1>2, <1>3, <1>4 DEF ProcAt, StoppedAt
<1>7. HealAt(q)'
  BY <1>1, <1>2 DEF ProcAt, HealAt
<1> QED  BY <1>5, <1>6, <1>7 DEF ProcAt

\* The owner's steps do not touch a process, whose port is not theirs.
LEMMA OwnerKeepsProc ==
    ASSUME OwnerStep, NEW q \in Procs, ProcAt(q)
    PROVE  ProcAt(q)'
<1> USE DEF viewVars, leadVars, runVars, Untouched, SameLink, SameLead, SameRun, SameCalls
<1>1. CASE OwnerExits
  <2>1. Untouched(q) /\ stops' = stops /\ owner' # q /\ owner # q
    BY <1>1, Outsiders DEF OwnerExits, OwnerLeaves
  <2> QED  BY <2>1, ProcKept
<1>2. CASE PortTaken
  <2>1. Untouched(q) /\ stops' = stops /\ owner' # q /\ owner # q
    BY <1>2, Outsiders, ProxyAssumption DEF PortTaken, linkVars
  <2> QED  BY <2>1, ProcKept
<1>3. CASE BridgeFlips
  <2>1. Untouched(q) /\ stops' = stops /\ owner' = owner
    BY <1>3 DEF BridgeFlips
  <2> QED  BY <2>1, ProcKept
<1> QED  BY <1>1, <1>2, <1>3 DEF OwnerStep

-----------------------------------------------------------------------------
(* The theorems.                                                           *)

LEMMA InvInit == Init => IInv
<1> SUFFICES ASSUME Init  PROVE IInv
  OBVIOUS
<1>1. TypeOK
  BY TypeInit
<1>2. ReplyInv
  BY NoReplies DEF Init, ReplyInv, ReplyAt
<1>3. ASSUME NEW p \in Procs  PROVE ProcAt(p)
  BY Outsiders DEF Init, ProcAt, KeeperAt, StoppedAt, HealAt
<1> QED  BY <1>1, <1>2, <1>3 DEF IInv

LEMMA InvStep == IInv /\ [Next]_vars => IInv'
<1> SUFFICES ASSUME IInv, [Next]_vars  PROVE IInv'
  OBVIOUS
<1>0. TypeOK /\ ReplyInv /\ \A p \in Procs : ProcAt(p)
  BY DEF IInv
<1>1. TypeOK'
  BY <1>0, TypeStep
<1>2. CASE UNCHANGED vars
  <2>1. ReplyInv'
    BY <1>0, <1>2 DEF vars, linkVars, leadVars, runVars, ReplyInv, ReplyAt, Probing, Replies, Single
  <2>2. \A p \in Procs : ProcAt(p)'
    BY <1>0, <1>2, ProcKept DEF vars, envVars, linkVars, viewVars, leadVars, runVars,
       Untouched, SameLink, SameLead, SameRun, SameCalls
  <2> QED  BY <1>1, <2>1, <2>2 DEF IInv
<1>3. CASE Next
  <2>1. ReplyInv'
    BY <1>0, <1>3, ReplyStep DEF ReplyInv
  <2>2. ASSUME NEW q \in Procs  PROVE ProcAt(q)'
    <3>1. ASSUME NEW p \in Procs, ProxyStep(p), p # q  PROVE ProcAt(q)'
      <4>1. Untouched(q)
        BY <1>0, <3>1, Elsewhere DEF ReplyInv
      <4>2. owner' = q <=> owner = q
        BY <1>0, <3>1, OwnerMoves, Outsiders DEF ProcAt
      <4>3. stops' = 0 => stops = 0
        BY <1>0, <3>1, OwnerMoves DEF ProcAt
      <4> QED  BY <1>0, <4>1, <4>2, <4>3, ProcKept
    <3>2. ASSUME ProxyStep(q)  PROVE ProcAt(q)'
      BY <1>0, <3>2, ProcStep DEF ReplyInv
    <3> QED  BY <1>0, <1>3, <3>1, <3>2, OwnerKeepsProc, CallKeepsProc DEF Next
  <2> QED  BY <1>1, <2>1, <2>2 DEF IInv
<1> QED  BY <1>2, <1>3

\* The invariant holds throughout: in every reachable state each answer has a
\* function waiting for it, each listener a keeper, and each stop() as much
\* left to do as it still has stages to go through.
THEOREM ProxyInvariance == Spec => []IInv
<1>1. Init => IInv
  BY InvInit
<1>2. IInv /\ [Next]_vars => IInv'
  BY InvStep
<1> QED  BY <1>1, <1>2, PTL DEF Spec

\* Type correctness (remote.ts's fields), with every waiting function's promise
\* pending while it waits.
THEOREM ProxyTypes == Spec => []TypeOK
<1>1. IInv => TypeOK
  BY DEF IInv
<1> QED  BY <1>1, ProxyInvariance, PTL

\* A listener has someone who will close it: promoteOrReconnect(), which
\* publishes or retires its candidate, or the stop() that found it.
THEOREM ListenersHaveKeepers == Spec => []NoLeakedListener
<1>1. IInv => NoLeakedListener
  BY DEF IInv, ProcAt, KeeperAt, NoLeakedListener
<1> QED  BY <1>1, ProxyInvariance, PTL

\* stop() is final: when it has returned, nothing that was suspended in it is
\* left to connect, bind, set a timer or send.
THEOREM StopIsQuiet == Spec => []StoppedIsQuiet
<1>1. ASSUME IInv  PROVE StoppedIsQuiet
  BY <1>1 DEF IInv, ProcAt, KeeperAt, StoppedAt, StoppedIsQuiet
<1> QED  BY <1>1, ProxyInvariance, PTL

\* A process that has lost its owner keeps a timer or a promotion going until
\* it has a socket or the port.
THEOREM HealingGoesOn == Spec => []HealingContinues
<1>1. ASSUME IInv  PROVE HealingContinues
  BY <1>1 DEF IInv, ProcAt, HealAt, HealingContinues
<1> QED  BY <1>1, ProxyInvariance, PTL

-----------------------------------------------------------------------------
(* A request and its socket.                                               *)

\* A handshake is under way only while there is no open socket.
DialInv == \A p \in Procs : connecting[p] => sock[p] # "open"

LEMMA DialStep ==
    ASSUME TypeOK, ReplyInv, DialInv, [Next]_vars
    PROVE  DialInv'
<1> USE DEF envVars, linkVars, viewVars, leadVars, runVars
<1>0. /\ sock = [r \in Procs |-> sock[r]] /\ connecting = [r \in Procs |-> connecting[r]]
      /\ \A c \in Calls : Home[c] \in Procs
  BY ProxyAssumption DEF TypeOK
<1>1. CASE UNCHANGED vars \/ OwnerStep
  BY <1>1 DEF vars, OwnerStep, OwnerExits, PortTaken, BridgeFlips, DialInv
<1>2. ASSUME NEW c \in Calls, CallStep(c)  PROVE DialInv'
  <2>1. sock' = sock
    BY <1>2, CallFootprint
  <2>2. \/ connecting' = connecting
        \/ /\ connecting' = [connecting EXCEPT ![Home[c]] = TRUE]
           /\ sock[Home[c]] # "open"
    BY <1>2 DEF CallStep, EnsureReady, PollAgain, WaitOver, CatchNotReady, CatchUnlinked,
       CheckProbe, Request, Answer, Timeout, Elect, Send
  <2> QED  BY <1>0, <2>1, <2>2 DEF DialInv
<1>3. ASSUME NEW p \in Procs, ProxyStep(p)  PROVE DialInv'
  <2>1. ASSUME NEW q \in Procs, q # p  PROVE sock'[q] = sock[q] /\ connecting'[q] = connecting[q]
    BY <1>3, <2>1, Elsewhere DEF ReplyInv, Untouched, SameLink
  <2>2. connecting'[p] => sock'[p] # "open"
    <3>1. CASE \E t \in Threads : OwnerReplies(p, t) \/ ProbeTimeout(p, t)
      BY <3>1 DEF OwnerReplies, ProbeTimeout, DialInv
    <3>2. CASE ReadNotify(p) \/ ReadReply(p) \/ HealTimerFires(p)
      BY <3>2 DEF ReadNotify, ReadReply, HealTimerFires, DialInv
    <3>3. CASE ReadClose(p)
      BY <1>0, <3>3 DEF ReadClose
    <3>4. CASE SocketGone(p) \/ ReconnectFailed(p) \/ Stop(p) \/ StopCloses(p)
      BY <1>0, <3>4 DEF SocketGone, ReconnectFailed, Stop, StopCloses, DropSocket
    <3>5. CASE ConnectOk(p) \/ ConnectFail(p)
      BY <1>0, <3>5 DEF ConnectOk, ConnectFail
    <3>6. CASE PromoteLoses(p)
      BY <1>0, <3>6 DEF PromoteLoses, DialInv
    <3>7. CASE StartConnects(p)
      BY <1>0, <3>7 DEF StartConnects, DialInv
    <3>8. CASE PromoteWins(p) \/ Retreat(p) \/ PromoteGivesUp(p)
      BY <3>8 DEF PromoteWins, Retreat, PromoteGivesUp, DialInv
    <3>9. CASE Start(p) \/ StartFails(p) \/ StopReleases(p)
      BY <3>9 DEF Start, StartFails, StopReleases, DialInv
    <3> QED  BY <1>3, <3>1, <3>2, <3>3, <3>4, <3>5, <3>6, <3>7, <3>8, <3>9 DEF ProxyStep
  <2> QED  BY <2>1, <2>2 DEF DialInv
<1> QED  BY <1>1, <1>2, <1>3 DEF Next

\* What a step does to a request that outlives it.
Outlives(c) ==
    LET p == Home[c]
        replaced == connecting[p] /\ ~connecting'[p] /\ sock'[p] = "open"
    IN  \/ sock'[p] # "none" /\ (replaced => sock[p] = "closing")
        \/ stopAt[p] = "closing" /\ ~stopped[p]

LEMMA SocketStep ==
    ASSUME TypeOK, DialInv, NEW p \in Procs, ProcAt(p), ProxyStep(p),
           NEW c \in Calls, Home[c] = p, pc[c] = "pending", pc'[c] = "pending",
           sock[p] # "none"
    PROVE  Outlives(c)
<1> USE DEF envVars, linkVars, viewVars, leadVars, runVars
<1>0. sock = [r \in Procs |-> sock[r]] /\ sock[p] \in {"open", "closing"}
  BY DEF TypeOK
<1>1. CASE sock' = sock
  BY <1>1 DEF Outlives, DialInv
<1>2. CASE SocketGone(p) \/ ReconnectFailed(p) \/ Stop(p)
  BY <1>2, NonePending DEF SocketGone, ReconnectFailed, Stop
<1>3. CASE StopCloses(p)
  BY <1>3 DEF StopCloses, ProcAt, StoppedAt, Outlives
<1>4. CASE ReadClose(p)
  BY <1>0, <1>4 DEF ReadClose, Outlives
<1>5. CASE ConnectOk(p)
  BY <1>0, <1>5 DEF ConnectOk, DialInv, Outlives
<1>6. CASE \E t \in Threads : OwnerReplies(p, t) \/ ProbeTimeout(p, t)
  BY <1>1, <1>6 DEF OwnerReplies, ProbeTimeout
<1>7. CASE ReadNotify(p) \/ ReadReply(p) \/ HealTimerFires(p) \/ ConnectFail(p)
  BY <1>1, <1>7 DEF ReadNotify, ReadReply, HealTimerFires, ConnectFail
<1>8. CASE PromoteWins(p) \/ Retreat(p) \/ PromoteLoses(p) \/ PromoteGivesUp(p)
  BY <1>1, <1>8 DEF PromoteWins, Retreat, PromoteLoses, PromoteGivesUp
<1>9. CASE Start(p) \/ StartConnects(p) \/ StartFails(p) \/ StopReleases(p)
  BY <1>1, <1>9 DEF Start, StartConnects, StartFails, StopReleases
<1> QED  BY <1>2, <1>3, <1>4, <1>5, <1>6, <1>7, <1>8, <1>9 DEF ProxyStep

\* rejectPendingRequests() goes with every closeSocket() but one: a request is
\* left without its socket only when the socket was closing and is replaced, or
\* when a start() has overtaken the stop() that closes it.
THEOREM RequestsGoWithSockets == Spec => RequestsEndWithSocket
<1>1. Init => DialInv
  BY DEF Init, DialInv
<1>2. IInv /\ DialInv /\ [Next]_vars => DialInv'
  BY DialStep DEF IInv
<1>3. ASSUME IInv, DialInv, [Next]_vars, NEW c \in Calls,
             pc[c] = "pending", pc'[c] = "pending", sock[Home[c]] # "none"
      PROVE  Outlives(c)
  <2>1. TypeOK /\ ReplyInv /\ Home[c] \in Procs /\ \A p \in Procs : ProcAt(p)
    BY <1>3, ProxyAssumption DEF IInv
  <2>2. CASE sock'[Home[c]] = sock[Home[c]]
    BY <1>3, <2>1, <2>2 DEF Outlives, DialInv
  <2>3. ASSUME NEW p \in Procs, ProxyStep(p)  PROVE Outlives(c)
    <3>1. CASE p = Home[c]
      BY <1>3, <2>1, <2>3, <3>1, SocketStep
    <3>2. CASE p # Home[c]
      BY <2>1, <2>2, <2>3, <3>2, Elsewhere DEF ReplyInv, Untouched, SameLink
    <3> QED  BY <3>1, <3>2
  <2>4. ASSUME NEW d \in Calls, CallStep(d)  PROVE Outlives(c)
    BY <2>1, <2>2, <2>4, CallFootprint
  <2>5. CASE UNCHANGED vars \/ OwnerStep
    BY <2>2, <2>5 DEF vars, linkVars, OwnerStep, OwnerExits, PortTaken, BridgeFlips
  <2> QED  BY <1>3, <2>3, <2>4, <2>5 DEF Next
<1>4. IInv /\ DialInv /\ [Next]_vars =>
        [\A c \in Calls :
            LET p == Home[c]
                replaced == connecting[p] /\ ~connecting'[p] /\ sock'[p] = "open"
            IN  pc[c] = "pending" /\ pc'[c] = "pending" /\ sock[p] # "none" =>
                   \/ sock'[p] # "none" /\ (replaced => sock[p] = "closing")
                   \/ stopAt[p] = "closing" /\ ~stopped[p]]_vars
  BY <1>3 DEF Outlives
<1> QED  BY <1>1, <1>2, <1>4, ProxyInvariance, PTL DEF Spec, RequestsEndWithSocket

-----------------------------------------------------------------------------
(* What a proxy claims about the bridge, when every frame is read by itself. *)

\* The frames s tell of a bridge that is now b: the last one says so, an answer
\* repeats what was said before it, and so does the first one of a proxy that
\* claims a bridge.
Honest(s, claim, b) ==
    /\ s # <<>> => (s[Len(s)].up <=> b)
    /\ \A i \in 1..Len(s) : i > 1 /\ s[i].kind = "reply" => (s[i].up <=> s[i - 1].up)
    /\ claim => IF s = <<>> THEN b ELSE s[1].kind = "reply" => s[1].up

HonestAt(p) == Reached(p) => Honest(inbox[p], valid[p] /\ snap[p] = "up", bridge)

HonestInv == \A p \in Procs : HonestAt(p)

\* The owner tells of a change, or answers.
LEMMA HonestAppend ==
    ASSUME NEW s \in Seq(Frames), NEW claim \in BOOLEAN, NEW b \in BOOLEAN,
           Honest(s, claim, b), NEW f \in Frames, f.kind = "reply" => (f.up <=> b)
    PROVE  Honest(Append(s, f), claim, f.up)
<1>1. /\ Len(Append(s, f)) = Len(s) + 1 /\ Len(s) \in Nat /\ Append(s, f) # <<>>
      /\ \A i \in 1..Len(s) : Append(s, f)[i] = s[i]
      /\ Append(s, f)[Len(s) + 1] = f
  BY AppendProperties, LenProperties
<1>2. s = <<>> <=> Len(s) = 0
  BY EmptySeq
<1>3. ASSUME NEW i \in 1..(Len(s) + 1), i > 1, Append(s, f)[i].kind = "reply"
      PROVE  Append(s, f)[i].up <=> Append(s, f)[i - 1].up
  <2>1. CASE i \in 1..Len(s)
    <3>1. i - 1 \in 1..Len(s)
      BY <1>1, <1>3, <2>1
    <3> QED  BY <1>1, <1>3, <2>1, <3>1 DEF Honest
  <2>2. CASE i = Len(s) + 1
    <3>1. i - 1 = Len(s) /\ Len(s) \in 1..Len(s) /\ s # <<>>
      BY <1>1, <1>2, <1>3, <2>2
    <3>2. Append(s, f)[i] = f /\ Append(s, f)[i - 1] = s[Len(s)]
      BY <1>1, <2>2, <3>1
    <3>3. s[Len(s)].up <=> b
      BY <3>1 DEF Honest
    <3> QED  BY <1>3, <3>2, <3>3
  <2> QED  BY <1>1, <1>3, <2>1, <2>2
<1>4. ASSUME claim, Append(s, f)[1].kind = "reply"  PROVE Append(s, f)[1].up
  <2>1. CASE s = <<>>
    <3>1. Append(s, f)[1] = f
      BY <1>1, <1>2, <2>1
    <3>2. b
      BY <1>4, <2>1 DEF Honest
    <3> QED  BY <1>4, <3>1, <3>2
  <2>2. CASE s # <<>>
    <3>1. 1 \in 1..Len(s)
      BY <1>1, <1>2, <2>2
    <3>2. Append(s, f)[1] = s[1]
      BY <1>1, <3>1
    <3> QED  BY <1>4, <2>2, <3>2 DEF Honest
  <2> QED  BY <2>1, <2>2
<1> QED  BY <1>1, <1>3, <1>4 DEF Honest

\* A frame is read, and the proxy claims what it said.
LEMMA HonestRead ==
    ASSUME NEW s \in Seq(Frames), s # <<>>, NEW claim \in BOOLEAN, NEW b \in BOOLEAN,
           Honest(s, claim, b)
    PROVE  Honest(Tail(s), Head(s).up, b)
<1>1. /\ Tail(s) \in Seq(Frames) /\ Len(Tail(s)) = Len(s) - 1
      /\ \A i \in 1..Len(Tail(s)) : Tail(s)[i] = s[i + 1]
  BY HeadTailProperties
<1>2. Len(s) \in Nat /\ Len(s) > 0 /\ Head(s) = s[1]
  BY LenProperties, EmptySeq
<1>3. Tail(s) = <<>> <=> Len(s) = 1
  <2>1. Tail(s) = <<>> <=> Len(Tail(s)) = 0
    BY <1>1, EmptySeq
  <2> QED  BY <1>1, <1>2, <2>1
<1>4. ASSUME Tail(s) # <<>>  PROVE Tail(s)[Len(Tail(s))].up <=> b
  <2>1. Len(Tail(s)) \in 1..Len(Tail(s)) /\ Len(Tail(s)) + 1 = Len(s)
    BY <1>1, <1>2, <1>3, <1>4
  <2>2. Tail(s)[Len(Tail(s))] = s[Len(s)]
    BY <1>1, <2>1
  <2> QED  BY <2>2 DEF Honest
<1>5. ASSUME NEW i \in 1..Len(Tail(s)), Tail(s)[i].kind = "reply"
      PROVE  Tail(s)[i].up <=> s[i].up
  <2>1. i + 1 \in 1..Len(s) /\ i + 1 > 1 /\ (i + 1) - 1 = i /\ Tail(s)[i] = s[i + 1]
    BY <1>1, <1>2
  <2> QED  BY <1>5, <2>1 DEF Honest
<1>6. ASSUME NEW i \in 1..Len(Tail(s)), i > 1  PROVE Tail(s)[i - 1] = s[i]
  <2>1. i - 1 \in 1..Len(Tail(s)) /\ (i - 1) + 1 = i
    BY <1>1, <1>2, <1>6
  <2> QED  BY <1>1, <2>1
<1>7. Tail(s) = <<>> => (s[1].up <=> b)
  BY <1>2, <1>3 DEF Honest
<1>8. Tail(s) # <<>> /\ Tail(s)[1].kind = "reply" => (Tail(s)[1].up <=> s[1].up)
  <2>1. Tail(s) # <<>> => 1 \in 1..Len(Tail(s))
    BY <1>1, <1>2, <1>3
  <2> QED  BY <1>5, <2>1
<1>9. \A i \in 1..Len(Tail(s)) : i > 1 /\ Tail(s)[i].kind = "reply"
                                 => (Tail(s)[i].up <=> Tail(s)[i - 1].up)
  BY <1>5, <1>6
<1>10. Head(s).up => IF Tail(s) = <<>> THEN b ELSE Tail(s)[1].kind = "reply" => Tail(s)[1].up
  BY <1>2, <1>7, <1>8
<1> QED  BY <1>4, <1>9, <1>10 DEF Honest

\* An answer that comes too late to be read told nothing new.
LEMMA HonestRemove ==
    ASSUME NEW s \in Seq(Frames), NEW k \in 1..Len(s), s[k].kind = "reply",
           NEW claim \in BOOLEAN, NEW b \in BOOLEAN, Honest(s, claim, b)
    PROVE  Honest(RemoveAt(s, k), claim, b)
<1> DEFINE r == RemoveAt(s, k)
<1>1. /\ r \in Seq(Frames) /\ Len(r) = Len(s) - 1 /\ Len(s) \in Nat
      /\ \A i \in 1..(Len(s) - 1) : r[i] = IF i < k THEN s[i] ELSE s[i + 1]
  BY RemoveAtProperties, LenProperties
<1>2. k > 1 => (s[k].up <=> s[k - 1].up)
  BY DEF Honest
<1>3. r = <<>> <=> Len(s) = 1
  <2>1. r = <<>> <=> Len(r) = 0
    BY <1>1, EmptySeq
  <2> QED  BY <1>1, <2>1
<1> HIDE DEF r
<1>4. s[Len(s)].up <=> b
  <2>1. Len(s) # 0
    BY <1>1
  <2>2. s # <<>>
    BY <2>1, EmptySeq
  <2> QED  BY <2>2 DEF Honest
<1>5. ASSUME r # <<>>  PROVE r[Len(r)].up <=> b
  <2>1. Len(r) \in 1..(Len(s) - 1) /\ Len(r) + 1 = Len(s)
    BY <1>1, <1>3, <1>5
  <2>2. CASE Len(r) < k
    <3>1. k = Len(s) /\ k - 1 = Len(r) /\ k > 1 /\ r[Len(r)] = s[k - 1]
      BY <1>1, <2>1, <2>2
    <3> QED  BY <1>2, <1>4, <3>1
  <2>3. CASE ~(Len(r) < k)
    <3>1. r[Len(r)] = s[Len(s)]
      BY <1>1, <2>1, <2>3
    <3> QED  BY <1>4, <3>1
  <2> QED  BY <2>2, <2>3
<1>6. ASSUME NEW i \in 1..Len(r), i > 1, r[i].kind = "reply"
      PROVE  r[i].up <=> r[i - 1].up
  <2>0. i \in 1..(Len(s) - 1) /\ i - 1 \in 1..(Len(s) - 1) /\ i \in Nat
    BY <1>1, <1>6
  <2>1. CASE i < k
    <3>1. i - 1 < k /\ i \in 1..Len(s)
      BY <1>1, <2>0, <2>1
    <3>2. r[i] = s[i] /\ r[i - 1] = s[i - 1]
      BY <1>1, <2>0, <2>1, <3>1
    <3> QED  BY <1>6, <3>1, <3>2 DEF Honest
  <2>2. CASE i = k
    <3>1. i - 1 < k /\ ~(i < k) /\ i + 1 \in 1..Len(s) /\ i + 1 > 1 /\ (i + 1) - 1 = i /\ k > 1
      BY <1>1, <1>6, <2>0, <2>2
    <3>2. r[i] = s[i + 1] /\ r[i - 1] = s[k - 1]
      BY <1>1, <2>0, <2>2, <3>1
    <3>3. s[i + 1].up <=> s[i].up
      BY <1>6, <3>1, <3>2 DEF Honest
    <3> QED  BY <1>2, <2>2, <3>1, <3>2, <3>3
  <2>3. CASE i > k
    <3>1. ~(i - 1 < k) /\ ~(i < k) /\ i + 1 \in 1..Len(s) /\ i + 1 > 1 /\ (i + 1) - 1 = i
          /\ (i - 1) + 1 = i
      BY <1>1, <2>0, <2>3
    <3>2. r[i] = s[i + 1] /\ r[i - 1] = s[i]
      BY <1>1, <2>0, <3>1
    <3> QED  BY <1>6, <3>1, <3>2 DEF Honest
  <2> QED  BY <2>0, <2>1, <2>2, <2>3
<1>7. ASSUME claim  PROVE IF r = <<>> THEN b ELSE r[1].kind = "reply" => r[1].up
  <2>0. s # <<>>
    <3>1. Len(s) # 0
      BY <1>1
    <3> QED  BY <3>1, EmptySeq
  <2>1. s[1].kind = "reply" => s[1].up
    BY <1>7, <2>0 DEF Honest
  <2>2. CASE r = <<>>
    <3>1. Len(s) = 1
      BY <1>3, <2>2, Zenon
    <3>2. k = 1
      BY <3>1
    <3> QED  BY <1>4, <2>1, <2>2, <3>1, <3>2
  <2>3. CASE r # <<>> /\ k = 1
    <3>1. 1 \in 1..(Len(s) - 1) /\ ~(1 < k) /\ 1 + 1 \in 1..Len(s) /\ 1 + 1 > 1 /\ (1 + 1) - 1 = 1
      BY <1>1, <1>3, <2>3
    <3>2. r[1] = s[1 + 1]
      BY <1>1, <3>1
    <3>3. s[1 + 1].kind = "reply" => (s[1 + 1].up <=> s[1].up)
      BY <3>1 DEF Honest
    <3> QED  BY <2>1, <2>3, <3>2, <3>3
  <2>4. CASE r # <<>> /\ k > 1
    <3>1. 1 \in 1..(Len(s) - 1) /\ 1 < k
      BY <1>1, <1>3, <2>4
    <3>2. r[1] = s[1]
      BY <1>1, <3>1
    <3> QED  BY <2>1, <2>4, <3>2
  <2> QED  BY <1>1, <2>2, <2>3, <2>4
<1>8. Honest(r, claim, b)
  BY <1>5, <1>6, <1>7 DEF Honest
<1> QED  BY <1>8 DEF r

\* A frame other than the last one is read or dropped: the socket is as open
\* as before.
LEMMA ReachedBefore ==
    ASSUME TypeOK, NEW q \in Procs, inbox[q] # <<>>, Head(inbox[q]) # Closed,
           sock'[q] = sock[q], inbox'[q] = Tail(inbox[q]), Reached(q)'
    PROVE  Reached(q)
<1>1. inbox[q] \in Seq(Frames)
  BY DEF TypeOK
<1>2. /\ Tail(inbox[q]) \in Seq(Frames) /\ Len(Tail(inbox[q])) = Len(inbox[q]) - 1
      /\ \A i \in 1..Len(Tail(inbox[q])) : Tail(inbox[q])[i] = inbox[q][i + 1]
  BY <1>1, HeadTailProperties
<1>3. Len(inbox[q]) \in Nat /\ Head(inbox[q]) = inbox[q][1] /\ DOMAIN inbox[q] = 1..Len(inbox[q])
      /\ DOMAIN Tail(inbox[q]) = 1..Len(Tail(inbox[q]))
  BY <1>1, <1>2, LenProperties
<1>4. ASSUME NEW i \in 1..Len(inbox[q])  PROVE inbox[q][i] # Closed
  <2>1. CASE i = 1
    BY <1>3, <2>1
  <2>2. CASE i # 1
    <3>1. i - 1 \in 1..Len(Tail(inbox[q])) /\ (i - 1) + 1 = i
      BY <1>2, <1>3, <2>2
    <3>2. Tail(inbox[q])[i - 1] # Closed
      BY <1>3, <3>1 DEF Reached
    <3> QED  BY <1>2, <3>1, <3>2
  <2> QED  BY <2>1, <2>2
<1> QED  BY <1>3, <1>4 DEF Reached

LEMMA ReachedRemove ==
    ASSUME TypeOK, NEW q \in Procs, NEW k \in DOMAIN inbox[q], inbox[q][k].kind = "reply",
           sock'[q] = sock[q], inbox'[q] = RemoveAt(inbox[q], k), Reached(q)'
    PROVE  Reached(q)
<1>1. inbox[q] \in Seq(Frames)
  BY DEF TypeOK
<1> DEFINE r == RemoveAt(inbox[q], k)
<1>2. /\ r \in Seq(Frames) /\ Len(r) = Len(inbox[q]) - 1
      /\ \A i \in 1..(Len(inbox[q]) - 1) : r[i] = IF i < k THEN inbox[q][i] ELSE inbox[q][i + 1]
  BY <1>1, RemoveAtProperties
<1> HIDE DEF r
<1>3. Len(inbox[q]) \in Nat /\ DOMAIN inbox[q] = 1..Len(inbox[q]) /\ DOMAIN r = 1..Len(r)
  BY <1>1, <1>2, LenProperties
<1>4. \A i \in 1..Len(r) : r[i] # Closed
  BY <1>3 DEF Reached, r
<1>5. ASSUME NEW i \in 1..Len(inbox[q])  PROVE inbox[q][i] # Closed
  <2>1. CASE i = k
    BY <2>1 DEF Closed
  <2>2. CASE i < k
    <3>1. i \in 1..(Len(inbox[q]) - 1) /\ i \in 1..Len(r)
      BY <1>2, <1>3, <2>2
    <3> QED  BY <1>2, <1>4, <2>2, <3>1
  <2>3. CASE i > k
    <3>1. i - 1 \in 1..(Len(inbox[q]) - 1) /\ i - 1 \in 1..Len(r) /\ ~(i - 1 < k) /\ (i - 1) + 1 = i
      BY <1>2, <1>3, <2>3
    <3> QED  BY <1>2, <1>4, <3>1
  <2> QED  BY <1>3, <2>1, <2>2, <2>3
<1> QED  BY <1>3, <1>5 DEF Reached

\* Nothing that a claim rests on changes.
LEMMA HonestKept ==
    ASSUME TypeOK, NEW q \in Procs, HonestAt(q), sock'[q] = sock[q], inbox'[q] = inbox[q],
           valid'[q] = valid[q], snap'[q] = "up" => snap[q] = "up", bridge' = bridge
    PROVE  HonestAt(q)'
<1>1. Reached(q)' <=> Reached(q)
  BY DEF Reached
<1> QED  BY <1>1 DEF HonestAt, Honest

LEMMA HonestClosed ==
    ASSUME TypeOK, NEW q \in Procs, OwnerLeaves, sock'[q] = sock[q]
    PROVE  HonestAt(q)'
<1>1. CASE Reached(q)
  <2>1. inbox[q] \in Seq(Frames) /\ inbox'[q] = Append(inbox[q], Closed) /\ Closed \in Frames
    BY <1>1, FramesType DEF OwnerLeaves, TypeOK
  <2>2. Len(inbox[q]) \in Nat /\ Len(inbox'[q]) = Len(inbox[q]) + 1 /\ inbox'[q] \in Seq(Frames)
        /\ inbox'[q][Len(inbox[q]) + 1] = Closed
    BY <2>1, AppendProperties, LenProperties
  <2>3. Len(inbox[q]) + 1 \in DOMAIN inbox'[q]
    BY <2>2, LenProperties
  <2> QED  BY <2>2, <2>3 DEF HonestAt, Reached
<1>2. CASE ~Reached(q)
  <2>1. inbox'[q] = inbox[q]
    BY <1>2 DEF OwnerLeaves
  <2>2. ~Reached(q)'
    BY <1>2, <2>1 DEF Reached
  <2> QED  BY <2>2 DEF HonestAt
<1> QED  BY <1>1, <1>2

\* The bridge changes with the owner's steps only, and when the owner leaves.
LEMMA BridgeKept ==
    ASSUME TypeOK, NEW p \in Procs, ProxyStep(p)
    PROVE  OwnerLeaves \/ bridge' = bridge
<1> USE DEF envVars
<1>1. CASE Retreat(p) \/ StopReleases(p)
  BY <1>1 DEF Retreat, StopReleases
<1>2. CASE PromoteWins(p)
  BY <1>2 DEF PromoteWins
<1>3. CASE \E t \in Threads : OwnerReplies(p, t) \/ ProbeTimeout(p, t)
  BY <1>3 DEF OwnerReplies, ProbeTimeout
<1>4. CASE ReadNotify(p) \/ ReadReply(p) \/ ReadClose(p) \/ SocketGone(p) \/ HealTimerFires(p)
  BY <1>4 DEF ReadNotify, ReadReply, ReadClose, SocketGone, HealTimerFires
<1>5. CASE ConnectOk(p) \/ ConnectFail(p) \/ PromoteLoses(p) \/ PromoteGivesUp(p) \/ ReconnectFailed(p)
  BY <1>5 DEF ConnectOk, ConnectFail, PromoteLoses, PromoteGivesUp, ReconnectFailed
<1>6. CASE Start(p) \/ StartConnects(p) \/ StartFails(p) \/ Stop(p) \/ StopCloses(p)
  BY <1>6 DEF Start, StartConnects, StartFails, Stop, StopCloses
<1> QED  BY <1>1, <1>2, <1>3, <1>4, <1>5, <1>6 DEF ProxyStep

LEMMA HonestStep ==
    ASSUME IInv, HonestInv, Next, Coalesce = FALSE, NEW q \in Procs
    PROVE  HonestAt(q)'
<1> USE DEF envVars, linkVars, viewVars, leadVars, runVars
<1>0. /\ TypeOK /\ ReplyAt(q) /\ HonestAt(q) /\ inbox[q] \in Seq(Frames) /\ bridge \in BOOLEAN
      /\ valid[q] \in BOOLEAN /\ (valid[q] /\ snap[q] = "up") \in BOOLEAN
  BY DEF IInv, ReplyInv, HonestInv, TypeOK
<1>1. CASE OwnerExits
  BY <1>0, <1>1, HonestClosed DEF OwnerExits
<1>2. CASE PortTaken
  BY <1>0, <1>2, HonestKept DEF PortTaken
<1>3. CASE BridgeFlips
  <2>1. UNCHANGED <<sock, valid, snap>> /\ bridge' = ~bridge /\ bridge' \in BOOLEAN
    BY <1>0, <1>3 DEF BridgeFlips
  <2>2. CASE Reached(q)
    <3> DEFINE f == [kind |-> "notify", to |-> None, up |-> ~bridge]
               claim == valid[q] /\ snap[q] = "up"
    <3>1. inbox'[q] = Append(inbox[q], f)
      BY <1>3, <2>2 DEF BridgeFlips
    <3>2. f \in Frames /\ f.kind # "reply" /\ (f.up <=> bridge')
      BY <1>0, <2>1, FramesType
    <3>3. Honest(inbox[q], claim, bridge)
      BY <1>0, <2>2 DEF HonestAt
    <3> HIDE DEF f, claim
    <3>4. claim \in BOOLEAN
      BY <1>0 DEF claim
    <3>5. Honest(Append(inbox[q], f), claim, f.up)
      BY <1>0, <3>2, <3>3, <3>4, HonestAppend
    <3>6. Honest(inbox'[q], claim, bridge')
      BY <3>1, <3>2, <3>5 DEF Honest
    <3> QED  BY <2>1, <3>6 DEF HonestAt, Honest, claim
  <2>3. CASE ~Reached(q)
    <3>1. inbox'[q] = inbox[q]
      BY <1>3, <2>3 DEF BridgeFlips
    <3>2. ~Reached(q)'
      BY <2>1, <2>3, <3>1 DEF Reached
    <3> QED  BY <3>2 DEF HonestAt
  <2> QED  BY <2>2, <2>3
<1>4. ASSUME NEW p \in Procs, p # q, ProxyStep(p)  PROVE HonestAt(q)'
  <2>1. Untouched(q)
    BY <1>4, Elsewhere DEF IInv, ReplyInv
  <2>2. sock'[q] = sock[q] /\ valid'[q] = valid[q] /\ snap'[q] = snap[q]
    BY <2>1 DEF Untouched, SameLink, SameLead
  <2>3. CASE OwnerLeaves
    BY <1>0, <2>2, <2>3, HonestClosed
  <2>4. CASE ~OwnerLeaves
    <3>1. inbox'[q] = inbox[q] /\ bridge' = bridge
      BY <1>0, <1>4, <2>4, SentElsewhere, BridgeKept
    <3> QED  BY <1>0, <2>2, <3>1, HonestKept
  <2> QED  BY <2>3, <2>4
<1>5. ASSUME NEW c \in Calls, CallStep(c)  PROVE HonestAt(q)'
  <2>1. UNCHANGED <<envVars, sock, valid, inbox, viewVars>>
    BY <1>0, <1>5, CallFootprint, Zenon
  <2> QED  BY <1>0, <2>1, HonestKept
<1>6. ASSUME ProxyStep(q)  PROVE HonestAt(q)'
  <2>0. /\ sock = [r \in Procs |-> sock[r]] /\ inbox = [r \in Procs |-> inbox[r]]
        /\ valid = [r \in Procs |-> valid[r]] /\ snap = [r \in Procs |-> snap[r]]
    BY <1>0 DEF TypeOK
  <2>1. ASSUME NEW t \in Threads, OwnerReplies(q, t)  PROVE HonestAt(q)'
    <3> DEFINE f == [kind |-> "reply", to |-> t, up |-> bridge]
               claim == valid[q] /\ snap[q] = "up"
    <3>1. /\ Reached(q) /\ inbox'[q] = Append(inbox[q], f)
          /\ UNCHANGED <<bridge, sock, valid, snap>>
      BY <2>0, <2>1 DEF OwnerReplies
    <3>2. f \in Frames /\ (f.up <=> bridge)
      BY <1>0, FramesType
    <3>3. Honest(inbox[q], claim, bridge)
      BY <1>0, <3>1 DEF HonestAt
    <3> HIDE DEF f, claim
    <3>4. claim \in BOOLEAN
      BY <1>0 DEF claim
    <3>5. Honest(Append(inbox[q], f), claim, f.up)
      BY <1>0, <3>2, <3>3, <3>4, HonestAppend
    <3>6. Honest(inbox'[q], claim, bridge')
      BY <3>1, <3>2, <3>5 DEF Honest
    <3> QED  BY <3>1, <3>6 DEF HonestAt, Honest, claim
  <2>2. ASSUME NEW t \in Threads, ProbeTimeout(q, t)  PROVE HonestAt(q)'
    <3>1. UNCHANGED <<bridge, sock, valid, snap>>
      BY <2>2 DEF ProbeTimeout
    <3>2. CASE inbox'[q] = inbox[q]
      BY <1>0, <3>1, <3>2, HonestKept
    <3>3. ASSUME NEW i \in DOMAIN inbox[q], inbox[q][i].kind = "reply",
                 inbox'[q] = RemoveAt(inbox[q], i), Reached(q)'
          PROVE  HonestAt(q)'
      <4>1. Reached(q) /\ i \in 1..Len(inbox[q])
        BY <1>0, <3>1, <3>3, ReachedRemove, LenProperties
      <4> DEFINE claim == valid[q] /\ snap[q] = "up"
      <4>2. Honest(inbox[q], claim, bridge) /\ claim \in BOOLEAN
        BY <1>0, <4>1 DEF HonestAt
      <4> HIDE DEF claim
      <4>3. Honest(RemoveAt(inbox[q], i), claim, bridge)
        BY <1>0, <3>3, <4>1, <4>2, HonestRemove
      <4> QED  BY <3>1, <3>3, <4>3 DEF HonestAt, Honest, claim
    <3> QED  BY <2>0, <2>2, <3>2, <3>3 DEF ProbeTimeout, HonestAt
  <2>3. ASSUME ReadNotify(q) \/ ReadReply(q)  PROVE HonestAt(q)'
    <3>1. /\ inbox[q] # <<>> /\ Head(inbox[q]) # Closed /\ inbox'[q] = Tail(inbox[q])
          /\ snap'[q] = IF Head(inbox[q]).up THEN "up" ELSE "down"
          /\ UNCHANGED <<bridge, sock>>
      BY <2>0, <2>3 DEF ReadNotify, ReadReply, Next1, Closed
    <3>2. ASSUME Reached(q)'  PROVE HonestAt(q)'
      <4>1. Reached(q)
        BY <1>0, <3>1, <3>2, ReachedBefore
      <4> DEFINE claim == valid[q] /\ snap[q] = "up"
      <4>2. Honest(inbox[q], claim, bridge) /\ claim \in BOOLEAN
        BY <1>0, <4>1 DEF HonestAt
      <4> HIDE DEF claim
      <4>3. Honest(Tail(inbox[q]), Head(inbox[q]).up, bridge)
        BY <1>0, <3>1, <4>2, HonestRead
      <4>4. snap'[q] = "up" => Head(inbox[q]).up
        BY <3>1
      <4> QED  BY <3>1, <4>3, <4>4 DEF HonestAt, Honest
    <3> QED  BY <3>2 DEF HonestAt
  <2>4. CASE ReadClose(q)
    <3>1. sock'[q] = "closing"
      BY <2>0, <2>4 DEF ReadClose
    <3> QED  BY <3>1 DEF HonestAt, Reached
  <2>5. CASE SocketGone(q) \/ ReconnectFailed(q) \/ Stop(q) \/ StopCloses(q)
    <3>1. sock'[q] = "none"
      BY <2>0, <2>5 DEF SocketGone, ReconnectFailed, Stop, StopCloses, DropSocket
    <3> QED  BY <3>1 DEF HonestAt, Reached
  <2>6. CASE ConnectOk(q)
    <3>1. inbox'[q] = <<>> /\ ~valid'[q]
      BY <2>0, <2>6 DEF ConnectOk
    <3> QED  BY <3>1 DEF HonestAt, Honest
  <2>7. CASE PromoteWins(q)
    <3>1. UNCHANGED <<bridge, linkVars>> /\ (snap'[q] = "up" => snap[q] = "up")
      BY <2>0, <2>7 DEF PromoteWins
    <3> QED  BY <1>0, <3>1, HonestKept
  <2>8. CASE Retreat(q) \/ StopReleases(q)
    BY <1>0, <2>8, HonestClosed DEF Retreat, StopReleases
  <2>9. CASE HealTimerFires(q) \/ ConnectFail(q) \/ PromoteLoses(q) \/ PromoteGivesUp(q)
    <3>1. UNCHANGED <<bridge, sock, valid, inbox, snap>>
      BY <2>9 DEF HealTimerFires, ConnectFail, PromoteLoses, PromoteGivesUp
    <3> QED  BY <1>0, <3>1, HonestKept
  <2>10. CASE Start(q) \/ StartConnects(q) \/ StartFails(q)
    <3>1. UNCHANGED <<bridge, sock, valid, inbox, snap>>
      BY <2>10 DEF Start, StartConnects, StartFails
    <3> QED  BY <1>0, <3>1, HonestKept
  <2> QED  BY <1>6, <2>1, <2>2, <2>3, <2>4, <2>5, <2>6, <2>7, <2>8, <2>9, <2>10 DEF ProxyStep
<1> QED  BY <1>1, <1>2, <1>3, <1>4, <1>5, <1>6 DEF Next, OwnerStep

\* A proxy that has read everything sent to it claims a bridge only if the owner
\* has one (the comment at server.ts:382), as long as the continuation of a
\* probe runs before the next frame is handled.  Run proxy_overtaken shows what
\* happens when one read of the socket brings both.
THEOREM ClaimsAreHonest ==
    ASSUME Coalesce = FALSE
    PROVE  Spec => []ProxyHonest
<1>1. Init => HonestInv
  BY NoReplies DEF Init, HonestInv, HonestAt, Honest
<1>2. IInv /\ HonestInv /\ [Next]_vars => HonestInv'
  <2> SUFFICES ASSUME IInv, HonestInv, [Next]_vars  PROVE HonestInv'
    OBVIOUS
  <2>1. CASE Next
    BY <2>1, HonestStep DEF HonestInv
  <2>2. CASE UNCHANGED vars
    BY <2>2, HonestKept DEF vars, envVars, linkVars, viewVars, HonestInv, IInv
  <2> QED  BY <2>1, <2>2
<1>3. IInv /\ HonestInv => ProxyHonest
  <2> SUFFICES ASSUME IInv, HonestInv, NEW p \in Procs, Claims(p), inbox[p] = <<>>  PROVE bridge
    BY DEF ProxyHonest
  <2>1. Reached(p) /\ valid[p] /\ snap[p] = "up"
    BY DEF Claims, Validated, Reached
  <2> QED  BY <2>1 DEF HonestInv, HonestAt, Honest
<1> QED  BY <1>1, <1>2, <1>3, ProxyInvariance, PTL DEF Spec
=============================================================================
