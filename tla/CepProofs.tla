----------------------------- MODULE CepProofs -----------------------------
(***************************************************************************)
(* Theorems about the CEP consumer, for every queue size, every fusion     *)
(* window and expiry timeout, and any number of events under way, with a   *)
(* log_event that may raise.                                               *)
(*                                                                         *)
(* Two facts carry them.  The sensor events under way are told apart by    *)
(* their ids, and those of one source wait in the order in which they      *)
(* happened (Waiting).  And the indices a pass has still to delete are     *)
(* exactly those of the events it is about (PassInv), because the greatest *)
(* one is deleted first and so no other index shifts.                      *)
(***************************************************************************)
EXTENDS CEPConsumer, WellFoundedInduction, SequenceTheorems, TLAPS

USE DEF Station

-----------------------------------------------------------------------------
(* The inductive invariant.                                                *)

\* Event e is ahead of event f.
Ahead(e, f) == e.id # f.id /\ (SameSource(e, f) => e.age >= f.age)

InOrder(s)  == \A i, j \in DOMAIN s : i < j => Ahead(s[i], s[j])
AllAhead(s, t) == \A i \in DOMAIN s, j \in DOMAIN t : Ahead(s[i], t[j])

\* The sensor events under way: all different, and each source in order.
Waiting ==
  /\ InOrder(pending_gpio_events) /\ InOrder(gpio_queue) /\ InOrder(mcp_queue)
  /\ AllAhead(pending_gpio_events, gpio_queue) /\ AllAhead(pending_gpio_events, mcp_queue)
  /\ AllAhead(gpio_queue, mcp_queue)
  /\ \A i \in DOMAIN gpio_queue : gpio_queue[i].barrier \in GpioBarrier
  /\ \A i \in DOMAIN mcp_queue : mcp_queue[i].barrier \in McpBarrier

\* What a pass has still to delete, and what it has delivered.
PassInv ==
  /\ gpio_to_remove \subseteq DOMAIN pending_gpio_events
  /\ cep_pc \notin {"fuse_gpio", "expire_gpio"} => gpio_to_remove = {}
  /\ cep_pc \notin {"fuse_gpio", "fuse_nfc", "top"} => delivered = {}
  /\ cep_pc = "fuse_gpio" => \A i \in DOMAIN pending_gpio_events :
       pending_gpio_events[i].id \in delivered <=> i \in gpio_to_remove
  /\ cep_pc = "expire_gpio" => \A i \in gpio_to_remove : Expired(pending_gpio_events[i])
  /\ DeliveredOnce

CepInv == CepTypeOK /\ Waiting /\ PassInv

-----------------------------------------------------------------------------
(* Least and greatest elements.                                            *)

\* A set of natural numbers that is not empty has a least element, and Min
\* is that element.
LEMMA MinEffect ==
  ASSUME NEW S \in SUBSET Nat, S # {}
  PROVE  Min(S) \in S /\ \A x \in S : Min(S) <= x
<1> DEFINE R == {ss \in Nat \X Nat : ss[1] < ss[2]}
<1>1. ASSUME NEW x \in Nat, NEW y \in Nat PROVE <<y, x>> \in R <=> y < x
  <2>1. <<y, x>> \in Nat \X Nat /\ <<y, x>>[1] = y /\ <<y, x>>[2] = x
    OBVIOUS
  <2> QED BY <2>1, Zenon
<1>2. IsWellFoundedOn(R, Nat)
  <2>1. OpToRel(<, Nat) = R
    BY DEF OpToRel
  <2> QED BY <2>1, NatLessThanWellFounded, Zenon
<1> HIDE DEF R
<1>3. PICK m \in S : \A y \in S : ~(<<y, m>> \in R)
  BY <1>2, WFMin
<1>4. ASSUME NEW y \in S PROVE m <= y
  <2>1. m \in Nat /\ y \in Nat
    OBVIOUS
  <2>2. ~(y < m)
    BY <1>1, <1>3, <2>1, Zenon
  <2> QED BY <2>1, <2>2
<1> QED BY <1>4 DEF Min

\* A set of indices of a list that is not empty has a greatest element
\* (sorted(..., reverse=True)).
LEMMA NextIndexEffect ==
  ASSUME NEW n \in Nat, NEW S \in SUBSET (1..n), S # {}
  PROVE  NextIndex(S) \in S /\ \A x \in S : x <= NextIndex(S)
<1> DEFINE T == {k \in Nat : \E x \in S : x = n - k}
<1>1. T \in SUBSET Nat /\ T # {}
  <2>1. PICK x \in S : TRUE
    OBVIOUS
  <2>2. n - x \in T
    <3>1. n - x \in Nat /\ x = n - (n - x)
      OBVIOUS
    <3> QED BY <3>1
  <2> QED BY <2>2
<1>2. Min(T) \in T /\ \A k \in T : Min(T) <= k
  BY <1>1, MinEffect
<1>3. PICK m \in S : m = n - Min(T)
  BY <1>2
<1>4. ASSUME NEW x \in S PROVE x <= m
  <2>1. n - x \in Nat /\ x = n - (n - x)
    OBVIOUS
  <2>2. n - x \in T
    BY <2>1
  <2>3. Min(T) <= n - x /\ Min(T) \in Nat
    BY <1>2, <2>2
  <2> HIDE DEF T
  <2> QED BY <1>3, <2>1, <2>3
<1> QED BY <1>4 DEF NextIndex, Max

-----------------------------------------------------------------------------
(* Lists of events.                                                        *)

\* `del list[i]': what is left, and where it was.
LEMMA RemoveAtEffect ==
  ASSUME NEW S, NEW s \in Seq(S), NEW i \in 1..Len(s)
  PROVE  LET t == RemoveAt(s, i) IN
         /\ t \in Seq(S) /\ DOMAIN t = 1..(Len(s) - 1)
         /\ \A j \in 1..(Len(s) - 1) : t[j] = IF j < i THEN s[j] ELSE s[j + 1]
<1> DEFINE n == Len(s)
           a == SubSeq(s, 1, i - 1)
           b == SubSeq(s, i + 1, n)
<1>1. n \in Nat /\ i \in 1..n /\ \A j \in 1..n : s[j] \in S
  BY LenProperties, ElementOfSeq
<1> HIDE DEF n
<1>2. /\ a \in Seq(S) /\ Len(a) = i - 1
      /\ \A j \in 1..(i - 1) : a[j] = s[j]
  <2>1. /\ 1 \in Int /\ i - 1 \in Int /\ \A j \in 1..(i - 1) : s[j] \in S
        /\ (i - 1) - 1 + 1 = i - 1 /\ \A j \in 1..(i - 1) : 1 + j - 1 = j
    BY <1>1
  <2>2. /\ a \in Seq(S)
        /\ Len(a) = IF 1 <= i - 1 THEN (i - 1) - 1 + 1 ELSE 0
        /\ \A j \in 1..((i - 1) - 1 + 1) : a[j] = s[1 + j - 1]
    BY <2>1, SubSeqProperties
  <2> QED BY <1>1, <2>1, <2>2
<1>3. /\ b \in Seq(S) /\ Len(b) = n - i
      /\ \A j \in 1..(n - i) : b[j] = s[i + j]
  <2>1. /\ i + 1 \in Int /\ n \in Int /\ \A j \in (i + 1)..n : s[j] \in S
        /\ n - (i + 1) + 1 = n - i /\ \A j \in 1..(n - i) : (i + 1) + j - 1 = i + j
    BY <1>1
  <2>2. /\ b \in Seq(S)
        /\ Len(b) = IF i + 1 <= n THEN n - (i + 1) + 1 ELSE 0
        /\ \A j \in 1..(n - (i + 1) + 1) : b[j] = s[(i + 1) + j - 1]
    BY <2>1, SubSeqProperties
  <2> QED BY <1>1, <2>1, <2>2
<1>4. RemoveAt(s, i) = a \o b
  BY DEF RemoveAt, n
<1> HIDE DEF a, b
<1>5. /\ a \o b \in Seq(S) /\ Len(a \o b) = n - 1 /\ DOMAIN (a \o b) = 1..(n - 1)
      /\ \A j \in 1..(n - 1) : (a \o b)[j] = IF j <= i - 1 THEN a[j] ELSE b[j - (i - 1)]
  <2>1. /\ a \o b \in Seq(S) /\ Len(a \o b) = Len(a) + Len(b)
        /\ \A j \in 1..(Len(a) + Len(b)) : (a \o b)[j] = IF j <= Len(a) THEN a[j] ELSE b[j - Len(a)]
    BY <1>2, <1>3, ConcatProperties
  <2>2. DOMAIN (a \o b) = 1..Len(a \o b)
    BY <2>1, LenProperties
  <2>3. Len(a) + Len(b) = n - 1
    BY <1>1, <1>2, <1>3
  <2> QED BY <1>2, <2>1, <2>2, <2>3
<1>6. ASSUME NEW j \in 1..(n - 1) PROVE (a \o b)[j] = IF j < i THEN s[j] ELSE s[j + 1]
  <2>1. CASE j < i
    BY <1>1, <1>2, <1>5, <2>1
  <2>2. CASE ~(j < i)
    <3>1. j - (i - 1) \in 1..(n - i) /\ i + (j - (i - 1)) = j + 1 /\ ~(j <= i - 1)
      BY <1>1, <2>2
    <3> QED BY <1>3, <1>5, <2>2, <3>1
  <2> QED BY <2>1, <2>2
<1> QED BY <1>4, <1>5, <1>6 DEF n

\* t is s without some of its elements.
SubList(t, s) ==
  \E e \in [DOMAIN t -> DOMAIN s] :
    /\ \A j \in DOMAIN t : t[j] = s[e[j]]
    /\ \A j, k \in DOMAIN t : j < k => e[j] < e[k]

\* Leaving elements out disturbs no order.
LEMMA SubListKeepsOrder ==
  ASSUME NEW t, NEW s, SubList(t, s)
  PROVE  /\ InOrder(s) => InOrder(t)
         /\ \A u : AllAhead(s, u) => AllAhead(t, u)
         /\ \A u : AllAhead(u, s) => AllAhead(u, t)
BY DEF SubList, InOrder, AllAhead

\* The rest of a queue, and a list with one element deleted, are such lists.
LEMMA TailIsSubList ==
  ASSUME NEW S, NEW s \in Seq(S), s # <<>>
  PROVE  /\ Tail(s) \in Seq(S) /\ Len(Tail(s)) = Len(s) - 1 /\ SubList(Tail(s), s)
         /\ Head(s) = s[1] /\ s[1] \in S /\ 1 \in DOMAIN s
         /\ DOMAIN Tail(s) = 1..(Len(s) - 1) /\ DOMAIN s = 1..Len(s)
         /\ \A j \in DOMAIN Tail(s) : Tail(s)[j] = s[j + 1] /\ j + 1 \in DOMAIN s /\ 1 < j + 1
<1> DEFINE n == Len(s)
           t == Tail(s)
           e == [j \in 1..(n - 1) |-> j + 1]
<1>1. /\ n \in Nat /\ n # 0 /\ DOMAIN s = 1..n
      /\ t \in Seq(S) /\ Len(t) = n - 1 /\ \A j \in 1..Len(t) : t[j] = s[j + 1]
  BY HeadTailProperties, LenProperties, EmptySeq
<1>2. DOMAIN t = 1..(n - 1)
  BY <1>1, LenProperties
<1>3. Head(s) = s[1] /\ 1 \in DOMAIN s /\ s[1] \in S
  BY <1>1, HeadTailProperties, ElementOfSeq
<1> HIDE DEF n, t
<1>4. SubList(t, s)
  <2>1. e \in [DOMAIN t -> DOMAIN s]
    BY <1>1, <1>2
  <2>2. \A j \in DOMAIN t : t[j] = s[e[j]]
    BY <1>1, <1>2
  <2>3. \A j, k \in DOMAIN t : j < k => e[j] < e[k]
    BY <1>1, <1>2
  <2> QED BY <2>1, <2>2, <2>3 DEF SubList
<1>5. \A j \in DOMAIN t : t[j] = s[j + 1] /\ j + 1 \in DOMAIN s /\ 1 < j + 1
  BY <1>1, <1>2
<1> QED BY <1>1, <1>2, <1>3, <1>4, <1>5 DEF n, t

LEMMA RemoveAtIsSubList ==
  ASSUME NEW S, NEW s \in Seq(S), NEW i \in DOMAIN s
  PROVE  /\ RemoveAt(s, i) \in Seq(S) /\ SubList(RemoveAt(s, i), s)
<1> DEFINE n == Len(s)
           t == RemoveAt(s, i)
           e == [j \in 1..(n - 1) |-> IF j < i THEN j ELSE j + 1]
<1>1. n \in Nat /\ DOMAIN s = 1..n /\ i \in 1..n
  BY LenProperties
<1>2. /\ t \in Seq(S) /\ DOMAIN t = 1..(n - 1)
      /\ \A j \in 1..(n - 1) : t[j] = IF j < i THEN s[j] ELSE s[j + 1]
  BY <1>1, RemoveAtEffect
<1> HIDE DEF n, t
<1>3. e \in [DOMAIN t -> DOMAIN s]
  BY <1>1, <1>2
<1>4. \A j \in DOMAIN t : t[j] = s[e[j]]
  BY <1>1, <1>2
<1>5. \A j, k \in DOMAIN t : j < k => e[j] < e[k]
  BY <1>1, <1>2
<1>6. SubList(t, s)
  BY <1>3, <1>4, <1>5 DEF SubList
<1> QED BY <1>2, <1>6 DEF t

\* A list with one more element.
LEMMA AppendEffect ==
  ASSUME NEW S, NEW s \in Seq(S), NEW x \in S
  PROVE  /\ Append(s, x) \in Seq(S)
         /\ DOMAIN s = 1..Len(s) /\ Len(s) \in Nat
         /\ DOMAIN Append(s, x) = 1..(Len(s) + 1)
         /\ \A j \in DOMAIN s : Append(s, x)[j] = s[j]
         /\ Append(s, x)[Len(s) + 1] = x
         /\ \A j \in DOMAIN Append(s, x) : j \in DOMAIN s \/ j = Len(s) + 1
<1>1. /\ Append(s, x) \in Seq(S) /\ Len(Append(s, x)) = Len(s) + 1
      /\ \A j \in 1..Len(s) : Append(s, x)[j] = s[j]
      /\ Append(s, x)[Len(s) + 1] = x
  BY AppendProperties
<1>2. DOMAIN s = 1..Len(s) /\ Len(s) \in Nat /\ DOMAIN Append(s, x) = 1..(Len(s) + 1)
  BY <1>1, LenProperties
<1> QED BY <1>1, <1>2

LEMMA AppendKeepsOrder ==
  ASSUME NEW S, NEW s \in Seq(S), NEW x \in S
  PROVE  /\ InOrder(s) /\ (\A i \in DOMAIN s : Ahead(s[i], x)) => InOrder(Append(s, x))
         /\ \A u : AllAhead(s, u) /\ (\A j \in DOMAIN u : Ahead(x, u[j])) => AllAhead(Append(s, x), u)
         /\ \A u : AllAhead(u, s) /\ (\A j \in DOMAIN u : Ahead(u[j], x)) => AllAhead(u, Append(s, x))
<1> DEFINE t == Append(s, x)
<1>1. /\ DOMAIN s = 1..Len(s) /\ Len(s) \in Nat
      /\ DOMAIN t = 1..(Len(s) + 1)
      /\ \A j \in DOMAIN s : t[j] = s[j]
      /\ t[Len(s) + 1] = x
      /\ \A j \in DOMAIN t : j \in DOMAIN s \/ j = Len(s) + 1
  BY AppendEffect
<1> HIDE DEF t
<1>2. ASSUME InOrder(s), \A i \in DOMAIN s : Ahead(s[i], x) PROVE InOrder(t)
  <2> SUFFICES ASSUME NEW i \in DOMAIN t, NEW j \in DOMAIN t, i < j PROVE Ahead(t[i], t[j])
    BY DEF InOrder
  <2>1. i \in DOMAIN s
    BY <1>1
  <2>2. CASE j \in DOMAIN s
    BY <1>1, <1>2, <2>1, <2>2 DEF InOrder
  <2>3. CASE j = Len(s) + 1
    BY <1>1, <1>2, <2>1, <2>3
  <2> QED BY <1>1, <2>2, <2>3
<1>3. ASSUME NEW u, AllAhead(s, u), \A j \in DOMAIN u : Ahead(x, u[j]) PROVE AllAhead(t, u)
  BY <1>1, <1>3 DEF AllAhead
<1>4. ASSUME NEW u, AllAhead(u, s), \A j \in DOMAIN u : Ahead(u[j], x) PROVE AllAhead(u, t)
  BY <1>1, <1>4 DEF AllAhead
<1> QED BY <1>2, <1>3, <1>4 DEF t

-----------------------------------------------------------------------------
(* Types.                                                                  *)

\* The bounds are numbers.
LEMMA CepBounds ==
  /\ QueueSize \in Nat /\ QueueSize > 0
  /\ MaxSensorEvents \in Nat /\ MaxReads \in Nat /\ MaxAge \in Nat
  /\ FuseWindow \in Nat /\ ExpiryTimeout \in Nat
BY CepAssumption

\* put_nowait appends to a queue that is not full, and drops otherwise.
LEMMA PutNowaitEffect ==
  ASSUME NEW S, NEW q \in Seq(S), NEW e \in S, Len(q) <= QueueSize
  PROVE  /\ PutNowait(q, e) \in Seq(S) /\ Len(PutNowait(q, e)) <= QueueSize
         /\ PutNowait(q, e) = q \/ PutNowait(q, e) = Append(q, e)
BY CepBounds, AppendProperties, LenProperties DEF PutNowait

\* The positions of a list, and what is there.
LEMMA ListElements ==
  ASSUME NEW S, NEW s \in Seq(S)
  PROVE  /\ Len(s) \in Nat /\ DOMAIN s = 1..Len(s) /\ DOMAIN s \subseteq Nat
         /\ \A i \in DOMAIN s : s[i] \in S
BY LenProperties, ElementOfSeq

\* A new event has an id that no event under way has.
LEMMA FreshId ==
  ASSUME NEW max \in Nat, NEW used, FreeIds(max, used) # {}
  PROVE  /\ Min(FreeIds(max, used)) \in 1..max
         /\ Min(FreeIds(max, used)) \notin used
<1>1. FreeIds(max, used) \in SUBSET Nat
  BY DEF FreeIds
<1>2. Min(FreeIds(max, used)) \in FreeIds(max, used)
  BY <1>1, MinEffect
<1> QED BY <1>2 DEF FreeIds

\* A tick makes each event of a list older and changes nothing else.
LEMMA OlderSensorEvents ==
  ASSUME NEW s \in Seq(SensorEvent), Young(s)
  PROVE  /\ Older(s) \in Seq(SensorEvent) /\ Len(Older(s)) = Len(s)
         /\ DOMAIN Older(s) = DOMAIN s
         /\ \A i \in DOMAIN s : /\ Older(s)[i].id = s[i].id
                                /\ Older(s)[i].barrier = s[i].barrier
                                /\ Older(s)[i].age = s[i].age + 1
<1>1. Len(s) \in Nat /\ DOMAIN s = 1..Len(s) /\ \A i \in 1..Len(s) : s[i] \in SensorEvent
  BY ListElements
<1>2. \A i \in 1..Len(s) : /\ Older(s)[i] \in SensorEvent
                           /\ Older(s)[i].id = s[i].id
                           /\ Older(s)[i].barrier = s[i].barrier
                           /\ Older(s)[i].age = s[i].age + 1
  BY <1>1, CepBounds DEF Older, Young, SensorEvent
<1>3. Older(s) = [i \in 1..Len(s) |-> Older(s)[i]]
  BY <1>1 DEF Older
<1>4. Older(s) \in Seq(SensorEvent) /\ Len(Older(s)) = Len(s) /\ DOMAIN Older(s) = DOMAIN s
  BY <1>1, <1>2, <1>3
<1> QED BY <1>1, <1>2, <1>4

LEMMA OlderReads ==
  ASSUME NEW s \in Seq(NfcEvent), Young(s)
  PROVE  Older(s) \in Seq(NfcEvent) /\ Len(Older(s)) = Len(s)
<1>1. Len(s) \in Nat /\ DOMAIN s = 1..Len(s) /\ \A i \in 1..Len(s) : s[i] \in NfcEvent
  BY ListElements
<1>2. ASSUME NEW i \in 1..Len(s) PROVE Older(s)[i] \in NfcEvent
  <2>1. s[i] \in NfcEvent /\ s[i].age < MaxAge /\ Older(s)[i] = [s[i] EXCEPT !.age = @ + 1]
    BY <1>1 DEF Older, Young
  <2>2. s[i].age \in 0..MaxAge
    BY <2>1 DEF NfcEvent
  <2>3. s[i].age + 1 \in 0..MaxAge
    BY <2>1, <2>2, CepBounds
  <2> QED BY <2>1, <2>3 DEF NfcEvent
<1>3. Older(s) = [i \in 1..Len(s) |-> Older(s)[i]]
  BY <1>1 DEF Older
<1> QED BY <1>1, <1>2, <1>3

\* The reads an event matches are positions of the list, and the first of
\* them is one.
LEMMA FirstMatch ==
  ASSUME CepTypeOK, NEW g, Fusable(g)
  PROVE  Min(Matches(g)) \in Matches(g) /\ Min(Matches(g)) \in DOMAIN pending_nfc_events
         /\ Min(Matches(g)) \in Nat
<1>1. pending_nfc_events \in Seq(NfcEvent)
  BY DEF CepTypeOK
<1>2. DOMAIN pending_nfc_events \subseteq Nat
  BY <1>1, ListElements
<1>3. Matches(g) \in SUBSET Nat /\ Matches(g) # {} /\ Matches(g) \subseteq DOMAIN pending_nfc_events
  BY <1>2 DEF Matches, Fusable
<1> QED BY <1>3, MinEffect

\* Every step keeps the types; one case for each action.
LEMMA CepTypeStep == CepTypeOK /\ [CepNext]_cepVars => CepTypeOK'
<1> SUFFICES ASSUME CepTypeOK, [CepNext]_cepVars PROVE CepTypeOK'
  OBVIOUS
<1>a. /\ gpio_queue \in Seq(SensorEvent) /\ Len(gpio_queue) <= QueueSize
      /\ mcp_queue \in Seq(SensorEvent) /\ Len(mcp_queue) <= QueueSize
      /\ nfc_queue \in Seq(NfcEvent) /\ Len(nfc_queue) <= QueueSize
  BY DEF CepTypeOK
<1>b. pending_gpio_events \in Seq(SensorEvent) /\ pending_nfc_events \in Seq(NfcEvent)
  BY DEF CepTypeOK
<1>c. ASSUME NEW S, NEW q \in Seq(S), Len(q) <= QueueSize, q # <<>>, NEW p \in Seq(S)
      PROVE  Tail(q) \in Seq(S) /\ Len(Tail(q)) <= QueueSize /\ Append(p, Head(q)) \in Seq(S)
  <2>1. Tail(q) \in Seq(S) /\ Len(Tail(q)) = Len(q) - 1 /\ Head(q) \in S
    BY <1>c, HeadTailProperties
  <2>2. Len(q) \in Nat
    BY LenProperties
  <2> QED BY <1>c, <2>1, <2>2, CepBounds, AppendProperties
<1>d. 0 \in 0..MaxAge
  BY CepBounds
<1>1. ASSUME NEW b \in GpioBarrier, PutGpioEvent(b) PROVE CepTypeOK'
  <2> DEFINE e == NewSensorEvent(Min(FreeIds(MaxSensorEvents, SensorIds)), b)
  <2>1. e \in SensorEvent
    BY <1>1, <1>d, FreshId, CepBounds DEF NewSensorEvent, SensorEvent, PutGpioEvent
  <2>2. gpio_queue' = PutNowait(gpio_queue, e)
    BY <1>1 DEF PutGpioEvent
  <2> HIDE DEF e
  <2>3. gpio_queue' \in Seq(SensorEvent) /\ Len(gpio_queue') <= QueueSize
    BY <1>a, <2>1, <2>2, PutNowaitEffect
  <2> QED BY <1>1, <2>3 DEF PutGpioEvent, CepTypeOK, pendingVars, removeVars, passVars
<1>2. ASSUME NEW b \in McpBarrier, PutMcpEvent(b) PROVE CepTypeOK'
  <2> DEFINE e == NewSensorEvent(Min(FreeIds(MaxSensorEvents, SensorIds)), b)
  <2>1. e \in SensorEvent
    BY <1>2, <1>d, FreshId, CepBounds DEF NewSensorEvent, SensorEvent, PutMcpEvent
  <2>2. mcp_queue' = PutNowait(mcp_queue, e)
    BY <1>2 DEF PutMcpEvent
  <2> HIDE DEF e
  <2>3. mcp_queue' \in Seq(SensorEvent) /\ Len(mcp_queue') <= QueueSize
    BY <1>a, <2>1, <2>2, PutNowaitEffect
  <2> QED BY <1>2, <2>3 DEF PutMcpEvent, CepTypeOK, pendingVars, removeVars, passVars
<1>3. ASSUME NEW s \in Station, PutRead(s) PROVE CepTypeOK'
  <2> DEFINE e == [id |-> Min(FreeIds(MaxReads, ReadIds)), station |-> s, age |-> 0]
  <2>1. e \in NfcEvent
    BY <1>3, <1>d, FreshId, CepBounds DEF NfcEvent, PutRead
  <2>2. nfc_queue' = PutNowait(nfc_queue, e)
    BY <1>3 DEF PutRead
  <2> HIDE DEF e
  <2>3. nfc_queue' \in Seq(NfcEvent) /\ Len(nfc_queue') <= QueueSize
    BY <1>a, <2>1, <2>2, PutNowaitEffect
  <2> QED BY <1>3, <2>3 DEF PutRead, CepTypeOK, pendingVars, removeVars, passVars
<1>4. CASE LoopTop
  BY <1>4 DEF LoopTop, CepTypeOK, inputVars, pendingVars, removeVars
<1>5. CASE ConsumeGpio
  <2>1. CASE gpio_queue # <<>>
    <3>1. /\ gpio_queue' \in Seq(SensorEvent) /\ Len(gpio_queue') <= QueueSize
          /\ pending_gpio_events' \in Seq(SensorEvent)
      BY <1>5, <1>a, <1>b, <1>c, <2>1 DEF ConsumeGpio
    <3> QED BY <1>5, <2>1, <3>1 DEF ConsumeGpio, CepTypeOK, removeVars, passVars
  <2>2. CASE gpio_queue = <<>>
    BY <1>5, <2>2 DEF ConsumeGpio, CepTypeOK, removeVars, passVars
  <2> QED BY <2>1, <2>2
<1>6. CASE ConsumeMcp
  <2>1. CASE mcp_queue # <<>>
    <3>1. /\ mcp_queue' \in Seq(SensorEvent) /\ Len(mcp_queue') <= QueueSize
          /\ pending_gpio_events' \in Seq(SensorEvent)
      BY <1>6, <1>a, <1>b, <1>c, <2>1 DEF ConsumeMcp
    <3> QED BY <1>6, <2>1, <3>1 DEF ConsumeMcp, CepTypeOK, removeVars, passVars
  <2>2. CASE mcp_queue = <<>>
    BY <1>6, <2>2 DEF ConsumeMcp, CepTypeOK, removeVars, passVars
  <2> QED BY <2>1, <2>2
<1>7. CASE ConsumeNfc
  <2>1. CASE nfc_queue # <<>>
    <3>1. /\ nfc_queue' \in Seq(NfcEvent) /\ Len(nfc_queue') <= QueueSize
          /\ pending_nfc_events' \in Seq(NfcEvent)
      BY <1>7, <1>a, <1>b, <1>c, <2>1 DEF ConsumeNfc
    <3> QED BY <1>7, <2>1, <3>1 DEF ConsumeNfc, CepTypeOK, removeVars, passVars
  <2>2. CASE nfc_queue = <<>>
    BY <1>7, <2>2 DEF ConsumeNfc, CepTypeOK, removeVars, passVars
  <2> QED BY <2>1, <2>2
<1>8. CASE FuseEvents
  <2> DEFINE F == Indices(pending_gpio_events, Fusable)
  <2>1. /\ DOMAIN pending_gpio_events \subseteq Nat
        /\ \A i \in DOMAIN pending_gpio_events : pending_gpio_events[i].id \in 1..MaxSensorEvents
        /\ \A j \in DOMAIN pending_nfc_events : pending_nfc_events[j].id \in 1..MaxReads
    <3>1. /\ DOMAIN pending_gpio_events \subseteq Nat
          /\ \A i \in DOMAIN pending_gpio_events : pending_gpio_events[i] \in SensorEvent
          /\ \A j \in DOMAIN pending_nfc_events : pending_nfc_events[j] \in NfcEvent
      BY <1>b, ListElements
    <3> QED BY <3>1 DEF SensorEvent, NfcEvent
  <2>2. Indices(pending_gpio_events, Deliverable) \subseteq DOMAIN pending_gpio_events
    BY DEF Indices
  <2>3. gpio_to_remove' \subseteq Nat
    BY <1>8, <2>1, <2>2 DEF FuseEvents
  <2>4. F \subseteq Nat /\ \A i \in F : /\ Min(Matches(pending_gpio_events[i])) \in Nat
                                       /\ Min(Matches(pending_gpio_events[i])) \in DOMAIN pending_nfc_events
    BY <2>1, FirstMatch DEF Indices
  <2>5. nfc_to_remove' = [i \in F |-> Min(Matches(pending_gpio_events[i]))]
    BY <1>8 DEF FuseEvents
  <2> HIDE DEF F
  <2>6. /\ DOMAIN nfc_to_remove' \subseteq Nat
        /\ nfc_to_remove' \in [DOMAIN nfc_to_remove' -> Nat]
        /\ Range(nfc_to_remove') \subseteq DOMAIN pending_nfc_events
    BY <2>4, <2>5 DEF Range
  <2>7. delivered' \subseteq 1..MaxSensorEvents /\ matched' \subseteq 1..MaxReads
    BY <1>8, <2>1, <2>2, <2>6 DEF FuseEvents, RecordPass
  <2> QED BY <1>8, <2>3, <2>6, <2>7 DEF FuseEvents, CepTypeOK, inputVars, pendingVars, Deleting
<1>9. CASE ExpireGpio
  <2>1. Indices(pending_gpio_events, Expired) \subseteq Nat
    BY <1>b, ListElements DEF Indices
  <2> QED BY <1>9, <2>1 DEF ExpireGpio, CepTypeOK, inputVars, pendingVars, passVars, Deleting
<1>10. CASE ExpireReads
  <2>1. Indices(pending_nfc_events, Expired) \subseteq Nat
    BY <1>b, ListElements DEF Indices
  <2> HIDE DEF Indices
  <2>2. nfc_to_remove' = [j \in Indices(pending_nfc_events, Expired) |-> j] \/ UNCHANGED nfc_to_remove
    BY <1>10 DEF ExpireReads
  <2>3. DOMAIN nfc_to_remove' \subseteq Nat /\ nfc_to_remove' \in [DOMAIN nfc_to_remove' -> Nat]
    BY <2>1, <2>2 DEF CepTypeOK
  <2> QED BY <1>10, <2>3 DEF ExpireReads, CepTypeOK, inputVars, pendingVars, passVars, Deleting
<1>e. PassRaises => CepTypeOK' \/ ~UNCHANGED <<inputVars, running, passVars>>
  BY DEF PassRaises, CepTypeOK, inputVars, passVars, pendingVars
<1>11. CASE DelGpio
  <2>1. CASE NextIndex(gpio_to_remove) \in DOMAIN pending_gpio_events
    <3>1. pending_gpio_events' \in Seq(SensorEvent)
      BY <1>11, <1>b, <2>1, RemoveAtIsSubList DEF DelGpio
    <3> QED BY <1>11, <2>1, <3>1 DEF DelGpio, CepTypeOK, inputVars, passVars
  <2>2. CASE NextIndex(gpio_to_remove) \notin DOMAIN pending_gpio_events
    BY <1>11, <1>e, <2>2 DEF DelGpio
  <2> QED BY <2>1, <2>2
<1>12. CASE DelNfc
  <2> DEFINE idx == NextIndex(Range(nfc_to_remove))
             k == CHOOSE i \in DOMAIN nfc_to_remove : nfc_to_remove[i] = idx
  <2>1. CASE idx \in DOMAIN pending_nfc_events
    <3>1. pending_nfc_events' \in Seq(NfcEvent)
      BY <1>12, <1>b, <2>1, RemoveAtIsSubList DEF DelNfc
    <3>2. nfc_to_remove' = [i \in DOMAIN nfc_to_remove \ {k} |-> nfc_to_remove[i]]
      BY <1>12, <2>1 DEF DelNfc
    <3> HIDE DEF k
    <3>3. DOMAIN nfc_to_remove' \subseteq Nat /\ nfc_to_remove' \in [DOMAIN nfc_to_remove' -> Nat]
      BY <3>2 DEF CepTypeOK
    <3> QED BY <1>12, <2>1, <3>1, <3>3 DEF DelNfc, CepTypeOK, inputVars, passVars
  <2>2. CASE idx \notin DOMAIN pending_nfc_events
    BY <1>12, <1>e, <2>2 DEF DelNfc
  <2> QED BY <2>1, <2>2
<1>13. CASE GpioDeleted \/ NfcDeleted
  BY <1>13 DEF GpioDeleted, NfcDeleted, CepTypeOK, inputVars, pendingVars, removeVars, passVars, Deleting
<1>14. CASE Stop
  BY <1>14 DEF Stop, CepTypeOK, inputVars, pendingVars, removeVars, passVars
<1>15. CASE Tick
  <2>1. /\ gpio_queue' \in Seq(SensorEvent) /\ Len(gpio_queue') <= QueueSize
        /\ mcp_queue' \in Seq(SensorEvent) /\ Len(mcp_queue') <= QueueSize
        /\ pending_gpio_events' \in Seq(SensorEvent)
    BY <1>15, <1>a, <1>b, OlderSensorEvents DEF Tick
  <2>2. /\ nfc_queue' \in Seq(NfcEvent) /\ Len(nfc_queue') <= QueueSize
        /\ pending_nfc_events' \in Seq(NfcEvent)
    BY <1>15, <1>a, <1>b, OlderReads DEF Tick
  <2> QED BY <1>15, <2>1, <2>2 DEF Tick, CepTypeOK, removeVars, passVars
<1>16. CASE UNCHANGED cepVars
  BY <1>16 DEF cepVars, CepTypeOK, inputVars, pendingVars, removeVars, passVars
<1> QED BY <1>1, <1>2, <1>3, <1>4, <1>5, <1>6, <1>7, <1>8, <1>9, <1>10, <1>11, <1>12, <1>13, <1>14,
           <1>15, <1>16 DEF CepNext, CepThread

\* The constructor establishes the types.
LEMMA CepInitType == CepInit => CepTypeOK
BY CepAssumption, EmptySeq, LenProperties DEF CepInit, CepTypeOK

\* The queues are never longer than their size, and every list holds events of
\* its kind.
THEOREM CepTypeCorrect == CepSpec => []CepTypeOK
BY CepInitType, CepTypeStep, PTL DEF CepSpec

-----------------------------------------------------------------------------
(* The order of the events under way.                                      *)

\* GPIO and MCP events come from different sources.
LEMMA SourcesDiffer ==
  ASSUME NEW e, NEW f, e.barrier \in GpioBarrier, f.barrier \in McpBarrier
  PROVE  ~SameSource(e, f) /\ ~SameSource(f, e)
BY CepAssumption DEF SameSource

\* A new event comes last in its queue, behind all that are under way.
LEMMA WaitingPut ==
  ASSUME CepTypeOK, Waiting, NEW b,
         \/ b \in GpioBarrier /\ PutGpioEvent(b)
         \/ b \in McpBarrier /\ PutMcpEvent(b)
  PROVE  Waiting'
<1> DEFINE e == NewSensorEvent(Min(FreeIds(MaxSensorEvents, SensorIds)), b)
<1>1. /\ gpio_queue \in Seq(SensorEvent) /\ Len(gpio_queue) <= QueueSize
      /\ mcp_queue \in Seq(SensorEvent) /\ Len(mcp_queue) <= QueueSize
      /\ pending_gpio_events \in Seq(SensorEvent)
      /\ UNCHANGED pending_gpio_events
  BY DEF CepTypeOK, PutGpioEvent, PutMcpEvent, pendingVars
<1>2. /\ Min(FreeIds(MaxSensorEvents, SensorIds)) \in 1..MaxSensorEvents
      /\ Min(FreeIds(MaxSensorEvents, SensorIds)) \notin SensorIds
  BY FreshId, CepBounds DEF PutGpioEvent, PutMcpEvent
<1>3. /\ e \in SensorEvent /\ e.age = 0 /\ e.barrier = b
      /\ \A i \in DOMAIN gpio_queue : e.id # gpio_queue[i].id
      /\ \A i \in DOMAIN mcp_queue : e.id # mcp_queue[i].id
      /\ \A i \in DOMAIN pending_gpio_events : e.id # pending_gpio_events[i].id
  <2> DEFINE id == Min(FreeIds(MaxSensorEvents, SensorIds))
  <2>1. 0 \in 0..MaxAge
    BY CepBounds
  <2>2. id \in 1..MaxSensorEvents /\ b \in GpioBarrier \cup McpBarrier
    BY <1>2
  <2>3. /\ \A i \in DOMAIN gpio_queue : id # gpio_queue[i].id
        /\ \A i \in DOMAIN mcp_queue : id # mcp_queue[i].id
        /\ \A i \in DOMAIN pending_gpio_events : id # pending_gpio_events[i].id
    BY <1>2, Zenon DEF SensorIds, Ids
  <2>4. e = [id |-> id, barrier |-> b, age |-> 0]
    BY DEF NewSensorEvent
  <2> HIDE DEF id, e
  <2>5. e \in SensorEvent /\ e.age = 0 /\ e.barrier = b /\ e.id = id
    BY <2>1, <2>2, <2>4 DEF SensorEvent
  <2> QED BY <2>3, <2>5
<1>4. /\ \A i \in DOMAIN gpio_queue : gpio_queue[i].age \in Nat
      /\ \A i \in DOMAIN mcp_queue : mcp_queue[i].age \in Nat
      /\ \A i \in DOMAIN pending_gpio_events : pending_gpio_events[i].age \in Nat
  <2>1. \A x \in SensorEvent : x.age \in Nat
    BY CepBounds DEF SensorEvent
  <2> QED BY <1>1, <2>1, ListElements
<1>5. CASE b \in GpioBarrier /\ PutGpioEvent(b)
  <2>1. /\ gpio_queue' = PutNowait(gpio_queue, e) /\ UNCHANGED mcp_queue
    BY <1>5 DEF PutGpioEvent
  <2> HIDE DEF e
  <2>2. CASE gpio_queue' = gpio_queue
    BY <1>1, <2>1, <2>2 DEF Waiting
  <2>3. CASE gpio_queue' = Append(gpio_queue, e)
    <3>1. /\ \A i \in DOMAIN gpio_queue : Ahead(gpio_queue[i], e)
          /\ \A i \in DOMAIN pending_gpio_events : Ahead(pending_gpio_events[i], e)
      BY <1>3, <1>4 DEF Ahead
    <3>2. \A i \in DOMAIN mcp_queue : Ahead(e, mcp_queue[i])
      BY <1>3, <1>5, SourcesDiffer DEF Ahead, Waiting
    <3>3. InOrder(gpio_queue') /\ AllAhead(pending_gpio_events, gpio_queue') /\ AllAhead(gpio_queue', mcp_queue)
      BY <1>1, <1>3, <2>3, <3>1, <3>2, AppendKeepsOrder DEF Waiting
    <3>4. \A i \in DOMAIN gpio_queue' : gpio_queue'[i].barrier \in GpioBarrier
      BY <1>1, <1>3, <1>5, <2>3, AppendEffect DEF Waiting
    <3> QED BY <1>1, <2>1, <3>3, <3>4 DEF Waiting
  <2> QED BY <1>1, <1>3, <2>1, <2>2, <2>3, PutNowaitEffect
<1>6. CASE b \in McpBarrier /\ PutMcpEvent(b)
  <2>1. /\ mcp_queue' = PutNowait(mcp_queue, e) /\ UNCHANGED gpio_queue
    BY <1>6 DEF PutMcpEvent
  <2> HIDE DEF e
  <2>2. CASE mcp_queue' = mcp_queue
    BY <1>1, <2>1, <2>2 DEF Waiting
  <2>3. CASE mcp_queue' = Append(mcp_queue, e)
    <3>1. /\ \A i \in DOMAIN gpio_queue : Ahead(gpio_queue[i], e)
          /\ \A i \in DOMAIN mcp_queue : Ahead(mcp_queue[i], e)
          /\ \A i \in DOMAIN pending_gpio_events : Ahead(pending_gpio_events[i], e)
      BY <1>3, <1>4 DEF Ahead
    <3>2. InOrder(mcp_queue') /\ AllAhead(pending_gpio_events, mcp_queue') /\ AllAhead(gpio_queue, mcp_queue')
      BY <1>1, <1>3, <2>3, <3>1, AppendKeepsOrder DEF Waiting
    <3>3. \A i \in DOMAIN mcp_queue' : mcp_queue'[i].barrier \in McpBarrier
      BY <1>1, <1>3, <1>6, <2>3, AppendEffect DEF Waiting
    <3> QED BY <1>1, <2>1, <3>2, <3>3 DEF Waiting
  <2> QED BY <1>1, <1>3, <2>1, <2>2, <2>3, PutNowaitEffect
<1> QED BY <1>5, <1>6

\* The oldest event of a queue goes to the end of the pending list.
LEMMA WaitingConsume ==
  ASSUME CepTypeOK, Waiting, ConsumeGpio \/ ConsumeMcp
  PROVE  Waiting'
<1>1. /\ gpio_queue \in Seq(SensorEvent) /\ mcp_queue \in Seq(SensorEvent)
      /\ pending_gpio_events \in Seq(SensorEvent)
  BY DEF CepTypeOK
<1>2. CASE UNCHANGED <<gpio_queue, mcp_queue, pending_gpio_events>>
  BY <1>2 DEF Waiting
<1>3. CASE /\ gpio_queue # <<>> /\ UNCHANGED mcp_queue
           /\ pending_gpio_events' = Append(pending_gpio_events, Head(gpio_queue))
           /\ gpio_queue' = Tail(gpio_queue)
  <2> DEFINE h == gpio_queue[1]
             t == Tail(gpio_queue)
  <2>1. /\ Head(gpio_queue) = h /\ h \in SensorEvent /\ 1 \in DOMAIN gpio_queue
        /\ SubList(t, gpio_queue)
        /\ \A j \in DOMAIN t : t[j] = gpio_queue[j + 1] /\ j + 1 \in DOMAIN gpio_queue /\ 1 < j + 1
    BY <1>1, <1>3, TailIsSubList
  <2>2. /\ InOrder(t) /\ AllAhead(t, mcp_queue) /\ AllAhead(pending_gpio_events, t)
    BY <2>1, SubListKeepsOrder DEF Waiting
  <2>3. \A j \in DOMAIN t : t[j].barrier \in GpioBarrier
    BY <2>1 DEF Waiting
  <2>4. \A i \in DOMAIN pending_gpio_events : Ahead(pending_gpio_events[i], h)
    BY <2>1 DEF Waiting, AllAhead
  <2>5. \A j \in DOMAIN t : Ahead(h, t[j])
    BY <2>1 DEF Waiting, InOrder
  <2>6. \A j \in DOMAIN mcp_queue : Ahead(h, mcp_queue[j])
    BY <2>1 DEF Waiting, AllAhead
  <2> HIDE DEF h, t
  <2>7. /\ InOrder(Append(pending_gpio_events, h))
        /\ AllAhead(Append(pending_gpio_events, h), t)
        /\ AllAhead(Append(pending_gpio_events, h), mcp_queue)
    BY <1>1, <2>1, <2>2, <2>4, <2>5, <2>6, AppendKeepsOrder DEF Waiting
  <2>8. pending_gpio_events' = Append(pending_gpio_events, h) /\ gpio_queue' = t /\ mcp_queue' = mcp_queue
    BY <1>3, <2>1 DEF t
  <2> QED BY <2>2, <2>3, <2>7, <2>8 DEF Waiting
<1>4. CASE /\ mcp_queue # <<>> /\ UNCHANGED gpio_queue
           /\ pending_gpio_events' = Append(pending_gpio_events, Head(mcp_queue))
           /\ mcp_queue' = Tail(mcp_queue)
  <2> DEFINE h == mcp_queue[1]
             t == Tail(mcp_queue)
  <2>1. /\ Head(mcp_queue) = h /\ h \in SensorEvent /\ 1 \in DOMAIN mcp_queue
        /\ SubList(t, mcp_queue)
        /\ \A j \in DOMAIN t : t[j] = mcp_queue[j + 1] /\ j + 1 \in DOMAIN mcp_queue /\ 1 < j + 1
    BY <1>1, <1>4, TailIsSubList
  <2>2. /\ InOrder(t) /\ AllAhead(gpio_queue, t) /\ AllAhead(pending_gpio_events, t)
    BY <2>1, SubListKeepsOrder DEF Waiting
  <2>3. \A j \in DOMAIN t : t[j].barrier \in McpBarrier
    BY <2>1 DEF Waiting
  <2>4. \A i \in DOMAIN pending_gpio_events : Ahead(pending_gpio_events[i], h)
    BY <2>1 DEF Waiting, AllAhead
  <2>5. \A j \in DOMAIN t : Ahead(h, t[j])
    BY <2>1 DEF Waiting, InOrder
  <2>6. \A j \in DOMAIN gpio_queue : Ahead(h, gpio_queue[j])
    <3> TAKE j \in DOMAIN gpio_queue
    <3>1. Ahead(gpio_queue[j], h) /\ gpio_queue[j].barrier \in GpioBarrier /\ h.barrier \in McpBarrier
      BY <2>1 DEF Waiting, AllAhead
    <3> HIDE DEF h
    <3> QED BY <3>1, SourcesDiffer DEF Ahead
  <2> HIDE DEF h, t
  <2>7. /\ InOrder(Append(pending_gpio_events, h))
        /\ AllAhead(Append(pending_gpio_events, h), t)
        /\ AllAhead(Append(pending_gpio_events, h), gpio_queue)
    BY <1>1, <2>1, <2>2, <2>4, <2>5, <2>6, AppendKeepsOrder DEF Waiting
  <2>8. pending_gpio_events' = Append(pending_gpio_events, h) /\ mcp_queue' = t /\ gpio_queue' = gpio_queue
    BY <1>4, <2>1 DEF t
  <2> QED BY <2>2, <2>3, <2>7, <2>8 DEF Waiting
<1> QED BY <1>2, <1>3, <1>4 DEF ConsumeGpio, ConsumeMcp

\* A tick changes no order.
LEMMA WaitingTick ==
  ASSUME CepTypeOK, Waiting, Tick
  PROVE  Waiting'
<1> DEFINE Aged(s) == /\ DOMAIN Older(s) = DOMAIN s
                      /\ \A i \in DOMAIN s : /\ Older(s)[i].id = s[i].id
                                             /\ Older(s)[i].barrier = s[i].barrier
                                             /\ Older(s)[i].age = s[i].age + 1
                                             /\ s[i].age \in Nat
<1>1. ASSUME NEW s \in Seq(SensorEvent), Young(s) PROVE Aged(s)
  <2>1. \A x \in SensorEvent : x.age \in Nat
    BY CepBounds DEF SensorEvent
  <2> QED BY <1>1, <2>1, OlderSensorEvents, ListElements
<1>2. Aged(gpio_queue) /\ Aged(mcp_queue) /\ Aged(pending_gpio_events)
  BY <1>1 DEF CepTypeOK, Tick
<1>3. ASSUME NEW s, NEW t, Aged(s), Aged(t), NEW i \in DOMAIN s, NEW j \in DOMAIN t, Ahead(s[i], t[j])
      PROVE  Ahead(Older(s)[i], Older(t)[j])
  BY <1>3 DEF Ahead, SameSource
<1>4. ASSUME NEW s, Aged(s), InOrder(s) PROVE InOrder(Older(s))
  <2> SUFFICES ASSUME NEW i \in DOMAIN Older(s), NEW j \in DOMAIN Older(s), i < j
               PROVE  Ahead(Older(s)[i], Older(s)[j])
    BY DEF InOrder
  <2>1. i \in DOMAIN s /\ j \in DOMAIN s
    BY <1>4
  <2>2. Ahead(s[i], s[j])
    BY <1>4, <2>1 DEF InOrder
  <2> HIDE DEF Aged
  <2> QED BY <1>3, <1>4, <2>1, <2>2
<1>5. ASSUME NEW s, NEW t, Aged(s), Aged(t), AllAhead(s, t) PROVE AllAhead(Older(s), Older(t))
  <2> SUFFICES ASSUME NEW i \in DOMAIN Older(s), NEW j \in DOMAIN Older(t)
               PROVE  Ahead(Older(s)[i], Older(t)[j])
    BY DEF AllAhead
  <2>1. i \in DOMAIN s /\ j \in DOMAIN t
    BY <1>5
  <2>2. Ahead(s[i], t[j])
    BY <1>5, <2>1 DEF AllAhead
  <2> HIDE DEF Aged
  <2> QED BY <1>3, <1>5, <2>1, <2>2
<1>6. /\ gpio_queue' = Older(gpio_queue) /\ mcp_queue' = Older(mcp_queue)
      /\ pending_gpio_events' = Older(pending_gpio_events)
  BY DEF Tick
<1>7. /\ \A i \in DOMAIN gpio_queue' : gpio_queue'[i].barrier \in GpioBarrier
      /\ \A i \in DOMAIN mcp_queue' : mcp_queue'[i].barrier \in McpBarrier
  BY <1>2, <1>6 DEF Waiting
<1> HIDE DEF Aged
<1> QED BY <1>2, <1>4, <1>5, <1>6, <1>7 DEF Waiting

\* Every step keeps the order: the lists only grow at their ends, and lose
\* elements.
LEMMA WaitingStep ==
  ASSUME CepTypeOK, Waiting, [CepNext]_cepVars
  PROVE  Waiting'
<1>1. CASE UNCHANGED <<gpio_queue, mcp_queue, pending_gpio_events>>
  BY <1>1 DEF Waiting
<1>2. CASE \/ \E b \in GpioBarrier : PutGpioEvent(b)
           \/ \E b \in McpBarrier : PutMcpEvent(b)
  BY <1>2, WaitingPut
<1>3. CASE ConsumeGpio \/ ConsumeMcp
  BY <1>3, WaitingConsume
<1>4. CASE Tick
  BY <1>4, WaitingTick
<1>5. CASE DelGpio
  <2> DEFINE idx == NextIndex(gpio_to_remove)
             t == RemoveAt(pending_gpio_events, idx)
  <2>1. CASE idx \in DOMAIN pending_gpio_events
    <3>1. SubList(t, pending_gpio_events)
      BY <2>1, RemoveAtIsSubList DEF CepTypeOK
    <3>2. pending_gpio_events' = t /\ UNCHANGED <<gpio_queue, mcp_queue>>
      BY <1>5, <2>1 DEF DelGpio, inputVars
    <3> HIDE DEF t
    <3>3. InOrder(t) /\ AllAhead(t, gpio_queue) /\ AllAhead(t, mcp_queue)
      BY <3>1, SubListKeepsOrder DEF Waiting
    <3> QED BY <3>2, <3>3 DEF Waiting
  <2>2. CASE idx \notin DOMAIN pending_gpio_events
    BY <1>1, <1>5, <2>2 DEF DelGpio, PassRaises, inputVars, pendingVars
  <2> QED BY <2>1, <2>2
<1>6. CASE \/ \E s \in Station : PutRead(s)
           \/ LoopTop \/ ConsumeNfc \/ FuseEvents \/ ExpireGpio \/ ExpireReads
           \/ GpioDeleted \/ NfcDeleted \/ Stop
  BY <1>1, <1>6 DEF PutRead, LoopTop, ConsumeNfc, FuseEvents, ExpireGpio, ExpireReads, GpioDeleted,
                    NfcDeleted, Stop, inputVars, pendingVars
<1>7. CASE DelNfc
  BY <1>1, <1>7 DEF DelNfc, PassRaises, inputVars, pendingVars
<1>8. CASE UNCHANGED cepVars
  BY <1>1, <1>8 DEF cepVars, inputVars, pendingVars
<1> QED BY <1>2, <1>3, <1>4, <1>5, <1>6, <1>7, <1>8 DEF CepNext, CepThread

-----------------------------------------------------------------------------
(* What a pass deletes.                                                    *)

\* The greatest index is one of the list, so that `del' never raises, and
\* after it the other indices are still those of the same events.
LEMMA DelGpioEffect ==
  ASSUME CepInv, DelGpio
  PROVE  \E idx \in gpio_to_remove :
           /\ idx \in DOMAIN pending_gpio_events
           /\ gpio_to_remove' = gpio_to_remove \ {idx}
           /\ UNCHANGED <<cep_pc, delivered>>
           /\ \A i \in gpio_to_remove' :
                i \in DOMAIN pending_gpio_events' /\ pending_gpio_events'[i] = pending_gpio_events[i]
           /\ \A i \in DOMAIN pending_gpio_events' :
                \/ /\ i < idx /\ i \in DOMAIN pending_gpio_events
                   /\ pending_gpio_events'[i] = pending_gpio_events[i]
                \/ /\ i >= idx /\ i + 1 \in DOMAIN pending_gpio_events
                   /\ pending_gpio_events'[i] = pending_gpio_events[i + 1]
                   /\ i \notin gpio_to_remove' /\ i + 1 \notin gpio_to_remove
           /\ \A i \in DOMAIN pending_gpio_events : i # idx =>
                \E j \in DOMAIN pending_gpio_events' : pending_gpio_events'[j] = pending_gpio_events[i]
<1> DEFINE s == pending_gpio_events
           n == Len(s)
           idx == NextIndex(gpio_to_remove)
           t == RemoveAt(s, idx)
<1>1. s \in Seq(SensorEvent) /\ n \in Nat /\ DOMAIN s = 1..n
  BY ListElements DEF CepInv, CepTypeOK
<1>2. gpio_to_remove # {} /\ gpio_to_remove \in SUBSET (1..n)
  BY <1>1 DEF DelGpio, CepInv, PassInv
<1> HIDE DEF n
<1>3. idx \in gpio_to_remove /\ \A i \in gpio_to_remove : i <= idx
  BY <1>1, <1>2, NextIndexEffect
<1>4. pending_gpio_events' = t /\ gpio_to_remove' = gpio_to_remove \ {idx} /\ UNCHANGED <<cep_pc, delivered>>
  BY <1>1, <1>2, <1>3 DEF DelGpio, passVars
<1>5. /\ DOMAIN t = 1..(n - 1)
      /\ \A j \in 1..(n - 1) : t[j] = IF j < idx THEN s[j] ELSE s[j + 1]
  BY <1>1, <1>2, <1>3, RemoveAtEffect DEF n
<1> HIDE DEF s, t, idx
<1>6. idx \in 1..n
  BY <1>2, <1>3
<1>7. ASSUME NEW i \in gpio_to_remove' PROVE i \in DOMAIN t /\ t[i] = s[i]
  <2>1. i \in 1..n /\ i < idx
    BY <1>2, <1>3, <1>4, <1>6
  <2> QED BY <1>1, <1>5, <1>6, <2>1
<1>8. ASSUME NEW i \in DOMAIN t
      PROVE  \/ i < idx /\ i \in DOMAIN s /\ t[i] = s[i]
             \/ /\ i >= idx /\ i + 1 \in DOMAIN s /\ t[i] = s[i + 1]
                /\ i \notin gpio_to_remove' /\ i + 1 \notin gpio_to_remove
  <2>1. i \in 1..(n - 1)
    BY <1>5
  <2>2. CASE i < idx
    BY <1>1, <1>5, <2>1, <2>2
  <2>3. CASE i >= idx
    <3>1. i + 1 \in DOMAIN s /\ t[i] = s[i + 1]
      BY <1>1, <1>5, <1>6, <2>1, <2>3
    <3>2. i + 1 \notin gpio_to_remove
      BY <1>3, <1>6, <2>1, <2>3
    <3>3. i \notin gpio_to_remove'
      BY <1>3, <1>4, <1>6, <2>1, <2>3
    <3> QED BY <2>3, <3>1, <3>2, <3>3
  <2> QED BY <1>6, <2>1, <2>2, <2>3
<1>9. ASSUME NEW i \in DOMAIN s, i # idx PROVE \E j \in DOMAIN t : t[j] = s[i]
  <2>1. CASE i < idx
    <3>1. i \in DOMAIN t /\ t[i] = s[i]
      BY <1>1, <1>5, <1>6, <2>1
    <3> QED BY <3>1
  <2>2. CASE i > idx
    <3>1. i - 1 \in 1..(n - 1) /\ ~(i - 1 < idx) /\ (i - 1) + 1 = i
      BY <1>1, <1>6, <2>2
    <3>2. i - 1 \in DOMAIN t /\ t[i - 1] = s[i]
      BY <1>5, <3>1
    <3> QED BY <3>2
  <2> QED BY <1>1, <1>6, <1>9, <2>1, <2>2
<1>10. idx \in DOMAIN s
  BY <1>1, <1>6
<1> QED BY <1>3, <1>4, <1>7, <1>8, <1>9, <1>10 DEF s

\* Two events of the pending list have different ids.
LEMMA PendingIdsDiffer ==
  ASSUME CepInv, NEW i \in DOMAIN pending_gpio_events, NEW j \in DOMAIN pending_gpio_events,
         pending_gpio_events[i].id = pending_gpio_events[j].id
  PROVE  i = j
<1>1. i \in Nat /\ j \in Nat
  BY ListElements DEF CepInv, CepTypeOK
<1>2. ~(i < j) /\ ~(j < i)
  BY DEF CepInv, Waiting, InOrder, Ahead
<1> QED BY <1>1, <1>2

\* A pass that has only begun to look for its events has delivered exactly
\* those it is going to delete.
LEMMA FusePassInv ==
  ASSUME CepInv, FuseEvents
  PROVE  PassInv'
<1>1. /\ cep_pc' = "fuse_gpio" /\ UNCHANGED pending_gpio_events
      /\ gpio_to_remove' = Indices(pending_gpio_events, Deliverable)
      /\ delivered' = {pending_gpio_events[i].id : i \in gpio_to_remove'}
  BY DEF FuseEvents, RecordPass, pendingVars
<1>2. gpio_to_remove' \subseteq DOMAIN pending_gpio_events
  BY <1>1 DEF Indices
<1>3. ASSUME NEW i \in DOMAIN pending_gpio_events
      PROVE  pending_gpio_events[i].id \in delivered' <=> i \in gpio_to_remove'
  <2>1. ASSUME pending_gpio_events[i].id \in delivered' PROVE i \in gpio_to_remove'
    <3>1. PICK j \in gpio_to_remove' : pending_gpio_events[i].id = pending_gpio_events[j].id
      BY <1>1, <2>1, Zenon
    <3> QED BY <1>2, <3>1, PendingIdsDiffer
  <2>2. ASSUME i \in gpio_to_remove' PROVE pending_gpio_events[i].id \in delivered'
    BY <1>1, <2>2, Zenon
  <2> QED BY <2>1, <2>2
<1> QED BY <1>1, <1>2, <1>3 DEF PassInv, DeliveredOnce

\* A deletion leaves the invariant of the pass as it is.
LEMMA DelPassInv ==
  ASSUME CepInv, DelGpio
  PROVE  PassInv'
<1>1. PICK idx \in gpio_to_remove :
        /\ gpio_to_remove' = gpio_to_remove \ {idx}
        /\ UNCHANGED <<cep_pc, delivered>>
        /\ \A i \in gpio_to_remove' :
             i \in DOMAIN pending_gpio_events' /\ pending_gpio_events'[i] = pending_gpio_events[i]
        /\ \A i \in DOMAIN pending_gpio_events' :
             \/ /\ i < idx /\ i \in DOMAIN pending_gpio_events
                /\ pending_gpio_events'[i] = pending_gpio_events[i]
             \/ /\ i >= idx /\ i + 1 \in DOMAIN pending_gpio_events
                /\ pending_gpio_events'[i] = pending_gpio_events[i + 1]
                /\ i \notin gpio_to_remove' /\ i + 1 \notin gpio_to_remove
  BY DelGpioEffect
<1>2. cep_pc \in {"fuse_gpio", "expire_gpio"} /\ idx \in Nat
  BY DEF DelGpio, CepInv, CepTypeOK
<1>3. gpio_to_remove' \subseteq DOMAIN pending_gpio_events'
  BY <1>1
<1>4. CASE cep_pc = "fuse_gpio"
  <2>1. ASSUME NEW i \in DOMAIN pending_gpio_events'
        PROVE  pending_gpio_events'[i].id \in delivered' <=> i \in gpio_to_remove'
    <3>1. CASE i < idx /\ i \in DOMAIN pending_gpio_events /\ pending_gpio_events'[i] = pending_gpio_events[i]
      <4>1. pending_gpio_events[i].id \in delivered <=> i \in gpio_to_remove
        BY <1>4, <3>1 DEF CepInv, PassInv
      <4>2. i # idx
        BY <1>2, <3>1
      <4> QED BY <1>1, <3>1, <4>1, <4>2
    <3>2. CASE /\ i + 1 \in DOMAIN pending_gpio_events
               /\ pending_gpio_events'[i] = pending_gpio_events[i + 1]
               /\ i \notin gpio_to_remove' /\ i + 1 \notin gpio_to_remove
      <4>1. pending_gpio_events[i + 1].id \in delivered <=> i + 1 \in gpio_to_remove
        BY <1>4, <3>2 DEF CepInv, PassInv
      <4> QED BY <1>1, <3>2, <4>1
    <3> QED BY <1>1, <3>1, <3>2
  <2> QED BY <1>1, <1>3, <1>4, <2>1 DEF PassInv, DeliveredOnce
<1>5. CASE cep_pc = "expire_gpio"
  <2>1. \A i \in gpio_to_remove' : Expired(pending_gpio_events'[i])
    BY <1>1, <1>5 DEF CepInv, PassInv
  <2>2. delivered' = {}
    BY <1>1, <1>5 DEF CepInv, PassInv
  <2>3. \A i \in gpio_to_remove' : Expired(pending_gpio_events[i])'
    BY <2>1 DEF Expired
  <2> QED BY <1>1, <1>3, <1>5, <2>2, <2>3 DEF PassInv, DeliveredOnce
<1> QED BY <1>2, <1>4, <1>5

\* Every step keeps it.
LEMMA PassInvStep ==
  ASSUME CepInv, [CepNext]_cepVars
  PROVE  PassInv'
<1> USE DEF inputVars, pendingVars, removeVars, passVars
<1>1. CASE UNCHANGED <<pending_gpio_events, gpio_to_remove, cep_pc, delivered>>
  BY <1>1 DEF CepInv, PassInv, DeliveredOnce, Expired, Ids
<1>2. CASE \/ \E b \in GpioBarrier : PutGpioEvent(b)
           \/ \E b \in McpBarrier : PutMcpEvent(b)
           \/ \E s \in Station : PutRead(s)
           \/ Stop \/ UNCHANGED cepVars
  BY <1>1, <1>2 DEF PutGpioEvent, PutMcpEvent, PutRead, Stop, cepVars
<1>3. ASSUME cep_pc \notin {"fuse_gpio", "fuse_nfc", "top"}, gpio_to_remove = {},
             gpio_to_remove' = {}, UNCHANGED delivered, cep_pc' \notin {"fuse_gpio", "expire_gpio"}
      PROVE  PassInv'
  BY <1>3 DEF CepInv, PassInv, DeliveredOnce
<1>4. CASE ConsumeGpio \/ ConsumeMcp \/ ConsumeNfc
  <2>1. cep_pc \notin {"fuse_gpio", "fuse_nfc", "top", "expire_gpio"} /\ cep_pc' \notin {"fuse_gpio", "expire_gpio"}
        /\ UNCHANGED <<gpio_to_remove, delivered>>
    BY <1>4 DEF ConsumeGpio, ConsumeMcp, ConsumeNfc
  <2>2. gpio_to_remove = {}
    BY <2>1 DEF CepInv, PassInv
  <2> QED BY <1>3, <2>1, <2>2
<1>5. CASE LoopTop
  <2>1. gpio_to_remove = {} /\ delivered' = {} /\ cep_pc' \in {"gpio", "stopped"} /\ UNCHANGED gpio_to_remove
    BY <1>5 DEF LoopTop, CepInv, PassInv
  <2> QED BY <2>1 DEF PassInv, DeliveredOnce
<1>6. CASE FuseEvents
  BY <1>6, FusePassInv
<1>7. CASE DelGpio
  BY <1>7, DelPassInv
<1>8. CASE ExpireGpio
  <2>1. cep_pc = "expire" /\ delivered = {} /\ gpio_to_remove = {} /\ UNCHANGED <<delivered, pending_gpio_events>>
    BY <1>8 DEF ExpireGpio, CepInv, PassInv
  <2>2. CASE gpio_to_remove' = Indices(pending_gpio_events, Expired) /\ cep_pc' = "expire_gpio"
    <3>1. gpio_to_remove' \subseteq DOMAIN pending_gpio_events'
          /\ \A i \in gpio_to_remove' : Expired(pending_gpio_events[i])'
      BY <2>1, <2>2 DEF Indices, Expired
    <3> QED BY <2>1, <2>2, <3>1 DEF PassInv, DeliveredOnce
  <2>3. CASE cep_pc' = "top" /\ UNCHANGED gpio_to_remove
    BY <2>1, <2>3 DEF PassInv, DeliveredOnce
  <2> QED BY <1>8, <2>2, <2>3 DEF ExpireGpio
<1>9. CASE ExpireReads
  <2>1. cep_pc = "expire_reads" /\ cep_pc' \in {"expire_nfc", "top"} /\ UNCHANGED <<gpio_to_remove, delivered>>
    BY <1>9 DEF ExpireReads
  <2>2. gpio_to_remove = {}
    BY <2>1 DEF CepInv, PassInv
  <2> QED BY <1>3, <2>1, <2>2
<1>10. CASE GpioDeleted
  <2>1. /\ gpio_to_remove = {} /\ UNCHANGED <<gpio_to_remove, delivered, pending_gpio_events>>
        /\ \/ cep_pc = "fuse_gpio" /\ cep_pc' = "fuse_nfc"
           \/ cep_pc = "expire_gpio" /\ cep_pc' = "expire_reads"
    BY <1>10 DEF GpioDeleted
  <2>2. delivered \cap Ids(pending_gpio_events) = {}
    <3>1. cep_pc = "fuse_gpio" => \A i \in DOMAIN pending_gpio_events : pending_gpio_events[i].id \notin delivered
      BY <2>1 DEF CepInv, PassInv
    <3>2. cep_pc = "expire_gpio" => delivered = {}
      BY DEF CepInv, PassInv
    <3> QED BY <2>1, <3>1, <3>2 DEF Ids
  <2>3. cep_pc' = "expire_reads" => delivered' = {}
    BY <2>1 DEF CepInv, PassInv
  <2> QED BY <2>1, <2>2, <2>3 DEF PassInv, DeliveredOnce, Ids
<1>11. CASE DelNfc
  <2>1. cep_pc \in {"fuse_nfc", "expire_nfc"} /\ UNCHANGED <<pending_gpio_events, delivered>>
    BY <1>11 DEF DelNfc, PassRaises
  <2>2. gpio_to_remove = {} /\ delivered \cap Ids(pending_gpio_events) = {}
        /\ (cep_pc = "expire_nfc" => delivered = {})
    BY <2>1 DEF CepInv, PassInv, DeliveredOnce
  <2>3. gpio_to_remove' = {} /\ cep_pc' \in {cep_pc, "top"}
    BY <1>11, <2>2 DEF DelNfc, PassRaises
  <2> QED BY <2>1, <2>2, <2>3 DEF PassInv, DeliveredOnce, Ids
<1>12. CASE NfcDeleted
  <2>1. /\ cep_pc \in {"fuse_nfc", "expire_nfc"} /\ cep_pc' \in {"expire", "top"}
        /\ delivered' = {} /\ UNCHANGED gpio_to_remove
    BY <1>12 DEF NfcDeleted
  <2>2. gpio_to_remove = {}
    BY <2>1 DEF CepInv, PassInv
  <2> QED BY <2>1, <2>2 DEF PassInv, DeliveredOnce
<1>13. CASE Tick
  <2>1. /\ DOMAIN pending_gpio_events' = DOMAIN pending_gpio_events
        /\ \A i \in DOMAIN pending_gpio_events : pending_gpio_events'[i].id = pending_gpio_events[i].id
    BY <1>13, OlderSensorEvents DEF Tick, CepInv, CepTypeOK
  <2>2. Ids(pending_gpio_events') = Ids(pending_gpio_events)
    BY <2>1 DEF Ids
  <2>3. cep_pc \notin Deleting /\ UNCHANGED <<cep_pc, gpio_to_remove, delivered>>
    BY <1>13 DEF Tick
  <2>4. gpio_to_remove = {}
    BY <2>3 DEF CepInv, PassInv, Deleting
  <2> QED BY <2>2, <2>3, <2>4 DEF CepInv, PassInv, DeliveredOnce, Ids, Deleting
<1> QED BY <1>2, <1>4, <1>5, <1>6, <1>7, <1>8, <1>9, <1>10, <1>11, <1>12, <1>13 DEF CepNext, CepThread

-----------------------------------------------------------------------------
(* Theorems.                                                               *)

\* A new consumer has nothing under way.
LEMMA CepInitInv == CepInit => CepInv
<1> SUFFICES ASSUME CepInit PROVE CepInv
  OBVIOUS
<1>1. CepTypeOK
  BY CepInitType
<1>2. DOMAIN gpio_queue = {} /\ DOMAIN mcp_queue = {} /\ DOMAIN pending_gpio_events = {}
  BY DEF CepInit
<1>3. Waiting
  BY <1>2 DEF Waiting, InOrder, AllAhead
<1>4. PassInv
  BY <1>2 DEF CepInit, PassInv, DeliveredOnce
<1> QED BY <1>1, <1>3, <1>4 DEF CepInv

LEMMA CepInvStep == CepInv /\ [CepNext]_cepVars => CepInv'
BY CepTypeStep, WaitingStep, PassInvStep DEF CepInv

\* In every reachable state the events under way are different and in order,
\* and a pass has exactly its own events left to delete.
THEOREM CepInvariant == CepSpec => []CepInv
BY CepInitInv, CepInvStep, PTL DEF CepSpec

\* No sensor event is given to a state machine twice: once a pass of
\* _fuse_events has made its deletions, nothing it delivered is pending, also
\* when an IndexError among the reads ends the pass.
THEOREM DeliveredAtMostOnce == CepSpec => []DeliveredOnce
<1>1. CepInv => DeliveredOnce
  BY DEF CepInv, PassInv
<1> QED BY <1>1, CepInvariant, PTL

\* The step that a lost event would have to take: a deletion takes an event
\* of this pass, and nothing else takes one at all.
LEMMA NotLostStep ==
  ASSUME CepInv, [CepNext]_cepVars, NEW i \in DOMAIN pending_gpio_events
  PROVE  \/ pending_gpio_events[i].id \in Ids(pending_gpio_events)'
         \/ pending_gpio_events[i].id \in delivered'
         \/ Expired(pending_gpio_events[i])
<1> USE DEF inputVars, pendingVars, removeVars, passVars
<1> DEFINE e == pending_gpio_events[i]
<1>1. CASE UNCHANGED pending_gpio_events
  BY <1>1 DEF Ids
<1>2. pending_gpio_events \in Seq(SensorEvent) /\ gpio_queue \in Seq(SensorEvent) /\ mcp_queue \in Seq(SensorEvent)
  BY DEF CepInv, CepTypeOK
<1>3. ASSUME NEW x \in SensorEvent, pending_gpio_events' = Append(pending_gpio_events, x)
      PROVE  e.id \in Ids(pending_gpio_events)'
  <2>1. /\ i \in DOMAIN Append(pending_gpio_events, x) /\ Append(pending_gpio_events, x)[i] = e
    BY <1>2, AppendEffect
  <2> QED BY <1>3, <2>1 DEF Ids
<1>4. CASE ConsumeGpio
  <2>1. CASE gpio_queue = <<>>
    BY <1>1, <1>4, <2>1 DEF ConsumeGpio
  <2>2. CASE gpio_queue # <<>>
    <3>1. Head(gpio_queue) \in SensorEvent
      BY <1>2, <2>2, TailIsSubList
    <3> QED BY <1>3, <1>4, <2>2, <3>1 DEF ConsumeGpio
  <2> QED BY <2>1, <2>2
<1>5. CASE ConsumeMcp
  <2>1. CASE mcp_queue = <<>>
    BY <1>1, <1>5, <2>1 DEF ConsumeMcp
  <2>2. CASE mcp_queue # <<>>
    <3>1. Head(mcp_queue) \in SensorEvent
      BY <1>2, <2>2, TailIsSubList
    <3> QED BY <1>3, <1>5, <2>2, <3>1 DEF ConsumeMcp
  <2> QED BY <2>1, <2>2
<1>6. CASE Tick
  <2>1. i \in DOMAIN pending_gpio_events' /\ pending_gpio_events'[i].id = e.id
    BY <1>2, <1>6, OlderSensorEvents DEF Tick
  <2> QED BY <2>1 DEF Ids
<1>7. CASE DelGpio
  <2>1. PICK idx \in gpio_to_remove :
          /\ idx \in DOMAIN pending_gpio_events
          /\ UNCHANGED <<cep_pc, delivered>>
          /\ \A k \in DOMAIN pending_gpio_events : k # idx =>
               \E j \in DOMAIN pending_gpio_events' : pending_gpio_events'[j] = pending_gpio_events[k]
    BY <1>7, DelGpioEffect
  <2>2. CASE i # idx
    <3>1. PICK j \in DOMAIN pending_gpio_events' : pending_gpio_events'[j] = e
      BY <2>1, <2>2
    <3> QED BY <3>1 DEF Ids
  <2>3. CASE i = idx /\ cep_pc = "fuse_gpio"
    BY <2>1, <2>3 DEF CepInv, PassInv
  <2>4. CASE i = idx /\ cep_pc = "expire_gpio"
    BY <2>1, <2>4 DEF CepInv, PassInv
  <2> QED BY <1>7, <2>2, <2>3, <2>4 DEF DelGpio
<1>8. CASE \/ \E b \in GpioBarrier : PutGpioEvent(b)
           \/ \E b \in McpBarrier : PutMcpEvent(b)
           \/ \E s \in Station : PutRead(s)
           \/ LoopTop \/ ConsumeNfc \/ FuseEvents \/ ExpireGpio \/ ExpireReads
           \/ GpioDeleted \/ NfcDeleted \/ Stop \/ UNCHANGED cepVars
  BY <1>1, <1>8 DEF PutGpioEvent, PutMcpEvent, PutRead, LoopTop, ConsumeNfc, FuseEvents, ExpireGpio,
                    ExpireReads, GpioDeleted, NfcDeleted, Stop, cepVars
<1>9. CASE DelNfc
  BY <1>1, <1>9 DEF DelNfc, PassRaises
<1> QED BY <1>4, <1>5, <1>6, <1>7, <1>8, <1>9 DEF CepNext, CepThread

\* No sensor event is lost between the queues and the state machines: only
\* an event this pass delivered, or one that has expired, leaves the pending
\* list, whatever else the pass deletes (_fuse_events, _expire_events).
THEOREM NoSensorEventLost == CepSpec => SensorEventNotLost
<1>1. CepInv /\ [CepNext]_cepVars =>
        [\A i \in DOMAIN pending_gpio_events :
           LET e == pending_gpio_events[i] IN
             e.id \in Ids(pending_gpio_events)' \/ e.id \in delivered' \/ Expired(e)]_cepVars
  BY NotLostStep
<1> QED BY <1>1, CepInvariant, PTL DEF CepSpec, SensorEventNotLost

\* The events of one source that need no read reach the state machines in the
\* order in which they happened, within a pass and from one pass to the next
\* (_consume_events, _fuse_events): a pusher's EXT before its RET.
THEOREM DeliveryKeepsOrder == CepSpec => DeliveredInOrder
<1> DEFINE A == cep_pc = "fuse" /\ cep_pc' # "fuse" =>
       \A i \in gpio_to_remove' :
         LET e     == pending_gpio_events[i]
             later == {pending_gpio_events[j] : j \in {j \in gpio_to_remove' : j > i}}
                        \cup Range(gpio_queue) \cup Range(mcp_queue)
         IN  ~IsEntryBarrier(e.barrier) =>
               \A f \in later :
                 SameSource(e, f) /\ ~IsEntryBarrier(f.barrier) => f.age <= e.age
<1>1. ASSUME CepInv, [CepNext]_cepVars PROVE [A]_cepVars
  <2> SUFFICES ASSUME CepNext, cep_pc = "fuse", cep_pc' # "fuse", NEW i \in gpio_to_remove',
                      NEW f \in {pending_gpio_events[j] : j \in {j \in gpio_to_remove' : j > i}}
                                  \cup Range(gpio_queue) \cup Range(mcp_queue),
                      SameSource(pending_gpio_events[i], f)
               PROVE  f.age <= pending_gpio_events[i].age
    BY <1>1
  <2>1. FuseEvents
    BY DEF CepNext, CepThread, PutGpioEvent, PutMcpEvent, PutRead, Stop, Tick, LoopTop, ConsumeGpio, ConsumeMcp,
           ConsumeNfc, ExpireGpio, ExpireReads, DelGpio, GpioDeleted, DelNfc, NfcDeleted
  <2>2. gpio_to_remove' \subseteq DOMAIN pending_gpio_events
    BY <2>1 DEF FuseEvents, Indices
  <2>3. Ahead(pending_gpio_events[i], f)
    <3>1. CASE \E j \in gpio_to_remove' : j > i /\ f = pending_gpio_events[j]
      BY <1>1, <2>2, <3>1 DEF CepInv, Waiting, InOrder
    <3>2. CASE f \in Range(gpio_queue)
      BY <1>1, <2>2, <3>2 DEF CepInv, Waiting, AllAhead, Range
    <3>3. CASE f \in Range(mcp_queue)
      BY <1>1, <2>2, <3>3 DEF CepInv, Waiting, AllAhead, Range
    <3> QED BY <3>1, <3>2, <3>3
  <2>4. \A x \in SensorEvent : x.age \in Nat
    BY CepBounds DEF SensorEvent
  <2>5. f \in SensorEvent /\ pending_gpio_events[i] \in SensorEvent
    <3>1. /\ pending_gpio_events \in Seq(SensorEvent) /\ gpio_queue \in Seq(SensorEvent)
          /\ mcp_queue \in Seq(SensorEvent)
      BY <1>1 DEF CepInv, CepTypeOK
    <3>2. /\ \A j \in DOMAIN pending_gpio_events : pending_gpio_events[j] \in SensorEvent
          /\ \A j \in DOMAIN gpio_queue : gpio_queue[j] \in SensorEvent
          /\ \A j \in DOMAIN mcp_queue : mcp_queue[j] \in SensorEvent
      BY <3>1, ListElements
    <3> QED BY <2>2, <3>2 DEF Range
  <2> QED BY <2>3, <2>4, <2>5 DEF Ahead
<1> QED BY <1>1, CepInvariant, PTL DEF CepSpec, DeliveredInOrder
=============================================================================
