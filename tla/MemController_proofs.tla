------------------------- MODULE MemController_proofs -------------------------
(***************************************************************************)
(* A request of a memory channel is in one place, and the count of the     *)
(* requests being served is right, for every standard, scheduler and row   *)
(* policy, every number of requests and whatever the timing lets through.  *)
(***************************************************************************)
EXTENDS MemController, TLAPS, FiniteSetTheorems

-----------------------------------------------------------------------------
(***************************************************************************)
(* The queues of a channel and its pending reads, as places of its         *)
(* requests: what each step of the controller does to where the requests   *)
(* are and to which of them are being served, in any state of the queues.  *)
(***************************************************************************)
Rows == Address \cup {WholeRank}     \* where requests go
Cols == Columns \cup {0}

Request == [id : Nat \ {0}, type : {"NONE", "READ", "WRITE", "EXTENSION", "REFRESH"},
            a : Rows, col : Cols, first : BOOLEAN, forwarded : BOOLEAN]

\* Requests in a queue: none of them forwarded, and what was never begun keeps
\* the type it came with.
Waiting == {r \in Request : ~r.forwarded /\ r.type # "NONE" /\ (r.first => r.type # "EXTENSION")}


-----------------------------------------------------------------------------
(***************************************************************************)
(* The places of a request, in any state of the queues.                    *)
(***************************************************************************)
PendingIds(p) == {p[i].id : i \in DOMAIN p}
BegunPending(p) == {p[i].id : i \in {i \in DOMAIN p : ~p[i].forwarded}}
BegunIn(q) == Ids({x \in q : ~x.first /\ x.type # "REFRESH"})
BegunOf(r, w, a, p) == BegunIn(r) \cup BegunIn(w) \cup BegunIn(a) \cup BegunPending(p)

Spots(r, w, a, o, p, d) == <<Ids(r), Ids(w), Ids(a), Ids(o), PendingIds(p), d>>
Apart(P) == \A i, j \in 1 .. 6 : i # j => P[i] \cap P[j] = {}
Distinct(p) == \A i, j \in DOMAIN p : i # j => p[i].id # p[j].id
NoTwins(q) == \A x, y \in q : x.id = y.id => x = y

\* The queues r, w, a and o, the pending reads p and the answered ids d hold what
\* belongs there, each of it once.
WellFormed(r, w, a, o, p, d) ==
  /\ r \subseteq Waiting /\ w \subseteq Waiting /\ a \subseteq Waiting
  /\ o \subseteq {x \in Waiting : x.type = "REFRESH"}
  /\ p \in Seq(Request) /\ d \subseteq Nat
  /\ NoTwins(r) /\ NoTwins(w) /\ NoTwins(a) /\ NoTwins(o) /\ Distinct(p)

\* Six places hold ids up to n, none of them in two.
Orderly(P, n) == Apart(P) /\ \A j \in 1 .. 6 : \A x \in P[j] : x \in Nat /\ x <= n

\* The id x moves from where it is to place k, or to none.
Moves(P, Q, x, k) ==
  /\ Q[1] = (P[1] \ {x}) \cup (IF k = 1 THEN {x} ELSE {})
  /\ Q[2] = (P[2] \ {x}) \cup (IF k = 2 THEN {x} ELSE {})
  /\ Q[3] = (P[3] \ {x}) \cup (IF k = 3 THEN {x} ELSE {})
  /\ Q[4] = (P[4] \ {x}) \cup (IF k = 4 THEN {x} ELSE {})
  /\ Q[5] = (P[5] \ {x}) \cup (IF k = 5 THEN {x} ELSE {})
  /\ Q[6] = (P[6] \ {x}) \cup (IF k = 6 THEN {x} ELSE {})

Placed(r, w, a, o, p, d, n) ==
  WellFormed(r, w, a, o, p, d) /\ Orderly(Spots(r, w, a, o, p, d), n)

LEMMA OrderlyAfterMove ==
  ASSUME NEW P, NEW n \in Nat, Orderly(P, n), NEW Q, NEW m \in Nat, n <= m,
         NEW x \in Nat, x <= m, NEW k, Moves(P, Q, x, k)
  PROVE  Orderly(Q, m)
<1>1. \A j \in 1 .. 6 : Q[j] = (P[j] \ {x}) \cup (IF j = k THEN {x} ELSE {})
  <2> SUFFICES ASSUME NEW j \in 1 .. 6
               PROVE  Q[j] = (P[j] \ {x}) \cup (IF j = k THEN {x} ELSE {})
    OBVIOUS
  <2>1. j = 1 \/ j = 2 \/ j = 3 \/ j = 4 \/ j = 5 \/ j = 6
    OBVIOUS
  <2> QED BY <2>1 DEF Moves
<1>2. Apart(Q)
  <2> SUFFICES ASSUME NEW i \in 1 .. 6, NEW j \in 1 .. 6, i # j PROVE Q[i] \cap Q[j] = {}
    BY DEF Apart
  <2>1. P[i] \cap P[j] = {}
    BY DEF Apart, Orderly
  <2> QED BY <1>1, <2>1
<1>3. \A j \in 1 .. 6 : \A y \in Q[j] : y \in Nat /\ y <= m
  <2>1. \A j \in 1 .. 6 : \A y \in P[j] : y \in Nat /\ y <= m
    BY DEF Orderly
  <2> QED BY <1>1, <2>1
<1> QED BY <1>2, <1>3 DEF Orderly

\* Appending to the pending reads, and answering the first.
LEMMA PendingAppend ==
  ASSUME NEW p \in Seq(Request), NEW x \in Request
  PROVE  /\ Append(p, x) \in Seq(Request)
         /\ PendingIds(Append(p, x)) = PendingIds(p) \cup {x.id}
         /\ BegunPending(Append(p, x)) =
              BegunPending(p) \cup (IF x.forwarded THEN {} ELSE {x.id})
         /\ Distinct(p) /\ x.id \notin PendingIds(p) => Distinct(Append(p, x))
<1> DEFINE q == Append(p, x)
<1>1. /\ q \in Seq(Request) /\ DOMAIN p = 1 .. Len(p) /\ DOMAIN q = 1 .. Len(p) + 1
      /\ Len(p) \in Nat /\ \A i \in 1 .. Len(p) : q[i] = p[i]
      /\ q[Len(p) + 1] = x
  OBVIOUS
<1> HIDE DEF q
<1>2. \A i : i \in DOMAIN q <=> i \in DOMAIN p \/ i = Len(p) + 1
  BY <1>1
<1>3. \A i \in DOMAIN p : q[i] = p[i] /\ i # Len(p) + 1
  BY <1>1
<1>4. q[Len(p) + 1] = x
  BY <1>1
<1> DEFINE last == Len(p) + 1
<1> HIDE DEF last
<1>5. /\ \A i : i \in DOMAIN q <=> i \in DOMAIN p \/ i = last
      /\ \A i \in DOMAIN p : q[i] = p[i] /\ i # last
      /\ q[last] = x
  BY <1>2, <1>3, <1>4 DEF last
<1>6. PendingIds(q) = PendingIds(p) \cup {x.id}
  BY <1>5 DEF PendingIds
<1>7. BegunPending(q) = BegunPending(p) \cup (IF x.forwarded THEN {} ELSE {x.id})
  BY <1>5 DEF BegunPending
<1>8. ASSUME Distinct(p), x.id \notin PendingIds(p) PROVE Distinct(q)
  BY <1>5, <1>8 DEF Distinct, PendingIds
<1> QED BY <1>1, <1>6, <1>7, <1>8 DEF q

LEMMA PendingTail ==
  ASSUME NEW p \in Seq(Request), p # <<>>, Distinct(p)
  PROVE  /\ Tail(p) \in Seq(Request) /\ Head(p) \in Request
         /\ Head(p).id \in PendingIds(p)
         /\ PendingIds(Tail(p)) = PendingIds(p) \ {Head(p).id}
         /\ BegunPending(Tail(p)) = BegunPending(p) \ {Head(p).id}
         /\ Head(p).id \in BegunPending(p) <=> ~Head(p).forwarded
         /\ Distinct(Tail(p))
<1> DEFINE q == Tail(p)
<1>1. /\ q \in Seq(Request) /\ Len(p) \in Nat \ {0} /\ DOMAIN p = 1 .. Len(p)
      /\ DOMAIN q = 1 .. Len(p) - 1 /\ \A i \in 1 .. Len(p) - 1 : q[i] = p[i + 1]
      /\ Head(p) = p[1] /\ Head(p) \in Request
  OBVIOUS
<1> HIDE DEF q
<1>2. 1 \in DOMAIN p /\ \A i \in DOMAIN q : i + 1 \in DOMAIN p /\ i + 1 # 1 /\ q[i] = p[i + 1]
  BY <1>1
<1>3. \A i \in DOMAIN p : i # 1 => i - 1 \in DOMAIN q /\ (i - 1) + 1 = i
  BY <1>1
<1>4. \A i \in DOMAIN p : i # 1 => q[i - 1] = p[i]
  BY <1>2, <1>3
<1>5. PendingIds(q) = PendingIds(p) \ {p[1].id}
  <2>1. ASSUME NEW i \in DOMAIN q PROVE q[i].id \in PendingIds(p) \ {p[1].id}
    BY <1>2 DEF PendingIds, Distinct
  <2>2. ASSUME NEW i \in DOMAIN p, p[i].id # p[1].id PROVE p[i].id \in PendingIds(q)
    <3>1. i # 1
      BY <2>2
    <3>2. i - 1 \in DOMAIN q /\ q[i - 1] = p[i]
      BY <1>3, <1>4, <3>1
    <3> QED BY <3>2 DEF PendingIds
  <2> QED BY <2>1, <2>2 DEF PendingIds
<1>6. BegunPending(q) = BegunPending(p) \ {p[1].id}
  <2>1. ASSUME NEW i \in DOMAIN q, ~q[i].forwarded PROVE q[i].id \in BegunPending(p) \ {p[1].id}
    BY <1>2, <2>1 DEF BegunPending, Distinct
  <2>2. ASSUME NEW i \in DOMAIN p, ~p[i].forwarded, p[i].id # p[1].id
        PROVE  p[i].id \in BegunPending(q)
    <3>1. i # 1
      BY <2>2
    <3>2. i - 1 \in DOMAIN q /\ q[i - 1] = p[i]
      BY <1>3, <1>4, <3>1
    <3> QED BY <2>2, <3>2 DEF BegunPending
  <2> QED BY <2>1, <2>2 DEF BegunPending
<1>7. p[1].id \in BegunPending(p) <=> ~p[1].forwarded
  BY <1>2 DEF BegunPending, Distinct
<1>8. Distinct(q)
  <2> SUFFICES ASSUME NEW i \in DOMAIN q, NEW j \in DOMAIN q, i # j PROVE q[i].id # q[j].id
    BY DEF Distinct
  <2>1. i + 1 # j + 1
    BY <1>1
  <2> QED BY <1>2, <2>1 DEF Distinct
<1>9. p[1].id \in PendingIds(p)
  BY <1>2 DEF PendingIds
<1> QED BY <1>1, <1>5, <1>6, <1>7, <1>8, <1>9 DEF q

LEMMA SpotsAt ==
  ASSUME NEW r, NEW w, NEW a, NEW o, NEW p, NEW d
  PROVE  LET P == Spots(r, w, a, o, p, d)
         IN  /\ P[1] = Ids(r) /\ P[2] = Ids(w) /\ P[3] = Ids(a) /\ P[4] = Ids(o)
             /\ P[5] = PendingIds(p) /\ P[6] = d
BY DEF Spots

\* What is in one place is in no other, and its number is bounded.
LEMMA PlacesApart ==
  ASSUME NEW r, NEW w, NEW a, NEW o, NEW p, NEW d, NEW n, Placed(r, w, a, o, p, d, n), NEW x
  PROVE  /\ x \in Ids(r) => x \notin Ids(w) /\ x \notin Ids(a) /\ x \notin Ids(o)
                             /\ x \notin PendingIds(p) /\ x \notin d
         /\ x \in Ids(w) => x \notin Ids(a) /\ x \notin Ids(o) /\ x \notin PendingIds(p) /\ x \notin d
         /\ x \in Ids(a) => x \notin Ids(o) /\ x \notin PendingIds(p) /\ x \notin d
         /\ x \in Ids(o) => x \notin PendingIds(p) /\ x \notin d
         /\ x \in PendingIds(p) => x \notin d
         /\ x \in Ids(r) \cup Ids(w) \cup Ids(a) \cup Ids(o) \cup PendingIds(p) \cup d =>
              x \in Nat /\ x <= n
<1> DEFINE P == Spots(r, w, a, o, p, d)
<1>1. /\ P[1] = Ids(r) /\ P[2] = Ids(w) /\ P[3] = Ids(a) /\ P[4] = Ids(o)
      /\ P[5] = PendingIds(p) /\ P[6] = d
  BY SpotsAt
<1>2. /\ \A i, j \in 1 .. 6 : i # j => P[i] \cap P[j] = {}
      /\ \A j \in 1 .. 6 : \A y \in P[j] : y \in Nat /\ y <= n
  BY DEF Placed, Orderly, Apart
<1> HIDE DEF P
<1>3. /\ 1 \in 1 .. 6 /\ 2 \in 1 .. 6 /\ 3 \in 1 .. 6 /\ 4 \in 1 .. 6 /\ 5 \in 1 .. 6 /\ 6 \in 1 .. 6
  OBVIOUS
<1>4. /\ P[1] \cap P[2] = {} /\ P[1] \cap P[3] = {} /\ P[1] \cap P[4] = {} /\ P[1] \cap P[5] = {}
      /\ P[1] \cap P[6] = {} /\ P[2] \cap P[3] = {} /\ P[2] \cap P[4] = {} /\ P[2] \cap P[5] = {}
      /\ P[2] \cap P[6] = {} /\ P[3] \cap P[4] = {} /\ P[3] \cap P[5] = {} /\ P[3] \cap P[6] = {}
      /\ P[4] \cap P[5] = {} /\ P[4] \cap P[6] = {} /\ P[5] \cap P[6] = {}
  BY <1>2, <1>3
<1>5. x \in P[1] \cup P[2] \cup P[3] \cup P[4] \cup P[5] \cup P[6] => x \in Nat /\ x <= n
  BY <1>2, <1>3
<1> QED BY <1>1, <1>4, <1>5

LEMMA BegunAreIds ==
  ASSUME NEW q, NEW p
  PROVE  BegunIn(q) \subseteq Ids(q) /\ BegunPending(p) \subseteq PendingIds(p)
BY DEF BegunIn, BegunPending, Ids, PendingIds

\* The first pending read is answered.
LEMMA Answered ==
  ASSUME NEW r, NEW w, NEW a, NEW o, NEW p, NEW d, NEW n \in Nat,
         Placed(r, w, a, o, p, d, n), p # <<>>
  PROVE  /\ Placed(r, w, a, o, Tail(p), d \cup {Head(p).id}, n)
         /\ BegunOf(r, w, a, Tail(p)) = BegunOf(r, w, a, p) \ {Head(p).id}
         /\ Head(p).id \in BegunOf(r, w, a, p) <=> ~Head(p).forwarded
<1> DEFINE h == Head(p).id
           P == Spots(r, w, a, o, p, d)
           Q == Spots(r, w, a, o, Tail(p), d \cup {h})
<1>1. p \in Seq(Request) /\ Distinct(p)
  BY DEF Placed, WellFormed
<1>2. /\ Tail(p) \in Seq(Request) /\ Head(p) \in Request /\ h \in PendingIds(p)
      /\ PendingIds(Tail(p)) = PendingIds(p) \ {h}
      /\ BegunPending(Tail(p)) = BegunPending(p) \ {h}
      /\ h \in BegunPending(p) <=> ~Head(p).forwarded
      /\ Distinct(Tail(p))
  BY <1>1, PendingTail
<1> HIDE DEF h
<1>3. /\ h \in Nat /\ h <= n
      /\ h \notin Ids(r) /\ h \notin Ids(w) /\ h \notin Ids(a) /\ h \notin Ids(o) /\ h \notin d
  BY <1>2, PlacesApart
<1>4. /\ P[1] = Ids(r) /\ P[2] = Ids(w) /\ P[3] = Ids(a) /\ P[4] = Ids(o)
      /\ P[5] = PendingIds(p) /\ P[6] = d
      /\ Q[1] = Ids(r) /\ Q[2] = Ids(w) /\ Q[3] = Ids(a) /\ Q[4] = Ids(o)
      /\ Q[5] = PendingIds(Tail(p)) /\ Q[6] = d \cup {h}
  BY SpotsAt
<1>5. Orderly(P, n) /\ n <= n
  BY DEF Placed
<1> HIDE DEF P, Q
<1>6. Moves(P, Q, h, 6)
  BY <1>2, <1>3, <1>4 DEF Moves
<1>7. Orderly(Q, n)
  BY <1>3, <1>5, <1>6, OrderlyAfterMove
<1>8. WellFormed(r, w, a, o, Tail(p), d \cup {h})
  BY <1>2, <1>3 DEF Placed, WellFormed
<1>9. h \notin BegunIn(r) /\ h \notin BegunIn(w) /\ h \notin BegunIn(a)
  BY <1>3, BegunAreIds
<1>10. /\ BegunOf(r, w, a, Tail(p)) = BegunOf(r, w, a, p) \ {h}
       /\ h \in BegunOf(r, w, a, p) <=> ~Head(p).forwarded
  BY <1>2, <1>9 DEF BegunOf
<1> QED BY <1>7, <1>8, <1>10 DEF h, Placed, Q

\* A queue that a request with a new number joins.
LEMMA Joined ==
  ASSUME NEW q, NEW x, x.id \notin Ids(q), NoTwins(q), x.first = TRUE
  PROVE  /\ Ids(q \cup {x}) = Ids(q) \cup {x.id} /\ NoTwins(q \cup {x})
         /\ BegunIn(q \cup {x}) = BegunIn(q)
BY DEF Ids, NoTwins, BegunIn

\* A new request x is sent: read or written, due as a refresh, or, as y, answered
\* from the write queue.
Arrives(x, y, n) ==
  /\ x \in Waiting /\ x.id = n + 1 /\ x.first = TRUE
  /\ y \in Request /\ y.id = n + 1 /\ y.forwarded = TRUE

SameBegun(r, w, a, p, r2, w2, a2, p2) == BegunOf(r2, w2, a2, p2) = BegunOf(r, w, a, p)

LEMMA Arrived ==
  ASSUME NEW r, NEW w, NEW a, NEW o, NEW p, NEW d, NEW n \in Nat,
         Placed(r, w, a, o, p, d, n), NEW x, NEW y, Arrives(x, y, n)
  PROVE  /\ Placed(r \cup {x}, w, a, o, p, d, n + 1)
         /\ Placed(r, w \cup {x}, a, o, p, d, n + 1)
         /\ x.type = "REFRESH" => Placed(r, w, a, o \cup {x}, p, d, n + 1)
         /\ Placed(r, w, a, o, Append(p, y), d, n + 1)
         /\ SameBegun(r, w, a, p, r \cup {x}, w, a, p)
         /\ SameBegun(r, w, a, p, r, w \cup {x}, a, p)
         /\ SameBegun(r, w, a, p, r, w, a, Append(p, y))
<1>0. /\ x \in Waiting /\ x.id = n + 1 /\ x.first = TRUE
      /\ y \in Request /\ y.id = n + 1 /\ y.forwarded = TRUE
  BY DEF Arrives
<1> USE <1>0
<1> DEFINE m == n + 1
           P == Spots(r, w, a, o, p, d)
<1>1. m \in Nat /\ n <= m /\ m <= m /\ ~(m <= n) /\ x.id = m /\ y.id = m
  OBVIOUS
<1>2. /\ P[1] = Ids(r) /\ P[2] = Ids(w) /\ P[3] = Ids(a) /\ P[4] = Ids(o)
      /\ P[5] = PendingIds(p) /\ P[6] = d
  BY SpotsAt
<1>3. Orderly(P, n) /\ WellFormed(r, w, a, o, p, d)
  BY DEF Placed
<1> HIDE DEF m, P
<1>4. m \notin Ids(r) /\ m \notin Ids(w) /\ m \notin Ids(a) /\ m \notin Ids(o)
      /\ m \notin PendingIds(p) /\ m \notin d
  BY <1>1, PlacesApart
<1>5. /\ Ids(r \cup {x}) = Ids(r) \cup {m} /\ NoTwins(r \cup {x}) /\ BegunIn(r \cup {x}) = BegunIn(r)
      /\ Ids(w \cup {x}) = Ids(w) \cup {m} /\ NoTwins(w \cup {x}) /\ BegunIn(w \cup {x}) = BegunIn(w)
      /\ Ids(o \cup {x}) = Ids(o) \cup {m} /\ NoTwins(o \cup {x})
  BY <1>1, <1>3, <1>4, Joined DEF WellFormed
<1>6. /\ Append(p, y) \in Seq(Request) /\ PendingIds(Append(p, y)) = PendingIds(p) \cup {m}
      /\ BegunPending(Append(p, y)) = BegunPending(p) /\ Distinct(Append(p, y))
  <2>1. p \in Seq(Request) /\ Distinct(p)
    BY <1>3 DEF WellFormed
  <2>2. /\ Append(p, y) \in Seq(Request)
        /\ PendingIds(Append(p, y)) = PendingIds(p) \cup {y.id}
        /\ BegunPending(Append(p, y)) = BegunPending(p) \cup (IF y.forwarded THEN {} ELSE {y.id})
        /\ Distinct(p) /\ y.id \notin PendingIds(p) => Distinct(Append(p, y))
    BY <2>1, PendingAppend
  <2> QED BY <1>1, <1>4, <2>1, <2>2
<1>7. Placed(r \cup {x}, w, a, o, p, d, m)
  <2> DEFINE Q == Spots(r \cup {x}, w, a, o, p, d)
  <2>1. /\ Q[1] = Ids(r \cup {x}) /\ Q[2] = Ids(w) /\ Q[3] = Ids(a) /\ Q[4] = Ids(o)
        /\ Q[5] = PendingIds(p) /\ Q[6] = d
    BY SpotsAt
  <2> HIDE DEF Q
  <2>2. Moves(P, Q, m, 1)
    <3>1. Ids(r \cup {x}) = Ids(r) \cup {m}
      BY <1>5
    <3> QED BY <1>2, <1>4, <2>1, <3>1 DEF Moves
  <2>3. Orderly(Q, m)
    BY <1>1, <1>3, <2>2, OrderlyAfterMove
  <2>4. WellFormed(r \cup {x}, w, a, o, p, d)
    BY <1>3, <1>5 DEF WellFormed
  <2> QED BY <2>3, <2>4 DEF Placed, Q
<1>8. Placed(r, w \cup {x}, a, o, p, d, m)
  <2> DEFINE Q == Spots(r, w \cup {x}, a, o, p, d)
  <2>1. /\ Q[1] = Ids(r) /\ Q[2] = Ids(w \cup {x}) /\ Q[3] = Ids(a) /\ Q[4] = Ids(o)
        /\ Q[5] = PendingIds(p) /\ Q[6] = d
    BY SpotsAt
  <2> HIDE DEF Q
  <2>2. Moves(P, Q, m, 2)
    <3>1. Ids(w \cup {x}) = Ids(w) \cup {m}
      BY <1>5
    <3> QED BY <1>2, <1>4, <2>1, <3>1 DEF Moves
  <2>3. Orderly(Q, m)
    BY <1>1, <1>3, <2>2, OrderlyAfterMove
  <2>4. WellFormed(r, w \cup {x}, a, o, p, d)
    BY <1>3, <1>5 DEF WellFormed
  <2> QED BY <2>3, <2>4 DEF Placed, Q
<1>9. ASSUME x.type = "REFRESH" PROVE Placed(r, w, a, o \cup {x}, p, d, m)
  <2> DEFINE Q == Spots(r, w, a, o \cup {x}, p, d)
  <2>1. /\ Q[1] = Ids(r) /\ Q[2] = Ids(w) /\ Q[3] = Ids(a) /\ Q[4] = Ids(o \cup {x})
        /\ Q[5] = PendingIds(p) /\ Q[6] = d
    BY SpotsAt
  <2> HIDE DEF Q
  <2>2. Moves(P, Q, m, 4)
    BY <1>2, <1>4, <1>5, <2>1 DEF Moves
  <2>3. Orderly(Q, m)
    BY <1>1, <1>3, <2>2, OrderlyAfterMove
  <2>4. WellFormed(r, w, a, o \cup {x}, p, d)
    BY <1>3, <1>5, <1>9 DEF WellFormed
  <2> QED BY <2>3, <2>4 DEF Placed, Q
<1>10. Placed(r, w, a, o, Append(p, y), d, m)
  <2> DEFINE Q == Spots(r, w, a, o, Append(p, y), d)
  <2>1. /\ Q[1] = Ids(r) /\ Q[2] = Ids(w) /\ Q[3] = Ids(a) /\ Q[4] = Ids(o)
        /\ Q[5] = PendingIds(Append(p, y)) /\ Q[6] = d
    BY SpotsAt
  <2> HIDE DEF Q
  <2>2. Moves(P, Q, m, 5)
    BY <1>2, <1>4, <1>6, <2>1 DEF Moves
  <2>3. Orderly(Q, m)
    BY <1>1, <1>3, <2>2, OrderlyAfterMove
  <2>4. WellFormed(r, w, a, o, Append(p, y), d)
    BY <1>3, <1>6 DEF WellFormed
  <2> QED BY <2>3, <2>4 DEF Placed, Q
<1>11. /\ BegunOf(r \cup {x}, w, a, p) = BegunOf(r, w, a, p)
       /\ BegunOf(r, w \cup {x}, a, p) = BegunOf(r, w, a, p)
       /\ BegunOf(r, w, a, Append(p, y)) = BegunOf(r, w, a, p)
  BY <1>5, <1>6 DEF BegunOf
<1> QED BY <1>7, <1>8, <1>9, <1>10, <1>11 DEF m, SameBegun

-----------------------------------------------------------------------------
(***************************************************************************)
(* Serving a request.                                                      *)
(***************************************************************************)
\* The queue q once request c, as b, was served; it may leave q.
Moved(q, c, b, leaves) ==
  IF c \notin q THEN q ELSE Without(q, c) \cup (IF leaves THEN {} ELSE {b})

\* The queue q turned into M: c is out of it, or in it as b.
Turned(q, c, b, leaves, M) ==
  /\ M \subseteq Waiting /\ NoTwins(M)
  /\ Ids(M) = (Ids(q) \ {c.id}) \cup (IF c \in q /\ ~leaves THEN {c.id} ELSE {})
  /\ BegunIn(M) = (BegunIn(q) \ {c.id})
                    \cup (IF c \in q /\ ~leaves /\ b.type # "REFRESH" THEN {c.id} ELSE {})

LEMMA MovedQueue ==
  ASSUME NEW q \in SUBSET Waiting, NoTwins(q), NEW c \in Waiting, NEW b \in Waiting,
         b.id = c.id, b.first = FALSE, c.id \in Ids(q) => c \in q, NEW leaves \in BOOLEAN
  PROVE  Turned(q, c, b, leaves, Moved(q, c, b, leaves))
<1> DEFINE M == Moved(q, c, b, leaves)
<1>1. CASE c \notin q
  <2>1. M = q
    BY <1>1 DEF Moved
  <2>2. c.id \notin Ids(q) /\ c.id \notin BegunIn(q)
    BY <1>1, BegunAreIds
  <2> HIDE DEF M
  <2> QED BY <1>1, <2>1, <2>2 DEF Turned, M
<1>2. CASE c \in q
  <2>1. M = {x \in q : x.id # c.id} \cup (IF leaves THEN {} ELSE {b})
    BY <1>2 DEF Moved, Without
  <2>2. \A x : x \in M <=> (x \in q /\ x.id # c.id) \/ (x = b /\ ~leaves)
    BY <2>1
  <2> HIDE DEF M
  <2>3. M \subseteq Waiting
    BY <2>2
  <2>4. NoTwins(M)
    BY <2>2 DEF NoTwins
  <2>5. Ids(M) = (Ids(q) \ {c.id}) \cup (IF ~leaves THEN {c.id} ELSE {})
    BY <2>2 DEF Ids
  <2>6. BegunIn(M) = (BegunIn(q) \ {c.id})
                       \cup (IF ~leaves /\ b.type # "REFRESH" THEN {c.id} ELSE {})
    <3>1. \A x : x \in BegunIn(M) <=> \E y \in M : ~y.first /\ y.type # "REFRESH" /\ x = y.id
      BY DEF BegunIn, Ids
    <3>2. \A x : x \in BegunIn(q) <=> \E y \in q : ~y.first /\ y.type # "REFRESH" /\ x = y.id
      BY DEF BegunIn, Ids
    <3> QED BY <2>2, <3>1, <3>2
  <2> QED BY <1>2, <2>3, <2>4, <2>5, <2>6 DEF Turned, M
<1> QED BY <1>1, <1>2

\* Request c is served, as b.  It leaves its queue when it opens its row, for the
\* queue a, or when it is done, for the pending reads if it is a read.
ServedBy(r, w, a, o, p, c, b, done, opens, r2, w2, a2, o2, p2) ==
  /\ c \in r \cup w \cup a \cup o
  /\ b \in Waiting /\ b.id = c.id /\ b.first = FALSE
  /\ b.type = c.type \/ (c.type = "READ" /\ b.type = "EXTENSION")
  /\ done \in BOOLEAN /\ opens \in BOOLEAN /\ ~(done /\ opens)
  /\ r2 = Moved(r, c, b, opens \/ done) /\ w2 = Moved(w, c, b, opens \/ done)
  /\ a2 = Moved(a, c, b, opens \/ done) \cup (IF opens THEN {b} ELSE {})
  /\ o2 = Moved(o, c, b, opens \/ done)
  /\ p2 = IF done /\ b.type \in {"READ", "EXTENSION"} THEN Append(p, b) ELSE p

\* Every request is then in one place again; what is begun and not finished is what
\* was, and c unless it is a write that is done.
LEMMA Served ==
  ASSUME NEW r, NEW w, NEW a, NEW o, NEW p, NEW d, NEW n \in Nat,
         Placed(r, w, a, o, p, d, n), NEW c, NEW b, NEW done, NEW opens,
         NEW r2, NEW w2, NEW a2, NEW o2, NEW p2,
         ServedBy(r, w, a, o, p, c, b, done, opens, r2, w2, a2, o2, p2)
  PROVE  /\ Placed(r2, w2, a2, o2, p2, d, n)
         /\ c.type = "REFRESH" => BegunOf(r2, w2, a2, p2) = BegunOf(r, w, a, p)
         /\ c.type # "REFRESH" => BegunOf(r2, w2, a2, p2) =
              IF done /\ c.type = "WRITE" THEN BegunOf(r, w, a, p) \ {c.id}
                                         ELSE BegunOf(r, w, a, p) \cup {c.id}
         /\ c.id \in BegunOf(r, w, a, p) <=> ~c.first /\ c.type # "REFRESH"
<1>0. /\ c \in r \cup w \cup a \cup o
      /\ b \in Waiting /\ b.id = c.id /\ b.first = FALSE
      /\ b.type = c.type \/ (c.type = "READ" /\ b.type = "EXTENSION")
      /\ done \in BOOLEAN /\ opens \in BOOLEAN /\ ~(done /\ opens)
      /\ r2 = Moved(r, c, b, opens \/ done) /\ w2 = Moved(w, c, b, opens \/ done)
      /\ a2 = Moved(a, c, b, opens \/ done) \cup (IF opens THEN {b} ELSE {})
      /\ o2 = Moved(o, c, b, opens \/ done)
      /\ p2 = IF done /\ b.type \in {"READ", "EXTENSION"} THEN Append(p, b) ELSE p
  BY DEF ServedBy
<1> USE <1>0
<1> DEFINE x == c.id
           leaves == opens \/ done
           reads == b.type \in {"READ", "EXTENSION"}
           P == Spots(r, w, a, o, p, d)
           Q == Spots(r2, w2, a2, o2, p2, d)
<1>1. WellFormed(r, w, a, o, p, d) /\ Orderly(P, n)
  BY DEF Placed
<1>2. /\ r \subseteq Waiting /\ w \subseteq Waiting /\ a \subseteq Waiting /\ o \subseteq Waiting
      /\ \A y \in o : y.type = "REFRESH"
      /\ p \in Seq(Request) /\ d \subseteq Nat
      /\ NoTwins(r) /\ NoTwins(w) /\ NoTwins(a) /\ NoTwins(o) /\ Distinct(p)
  BY <1>1 DEF WellFormed
<1>3. c \in Waiting
  BY <1>2
<1>4. /\ b \in Waiting /\ b.id = x /\ b.first = FALSE
      /\ b.type = c.type \/ (c.type = "READ" /\ b.type = "EXTENSION")
  OBVIOUS
<1>5. /\ c.type \in {"READ", "WRITE", "EXTENSION", "REFRESH"} /\ c.first \in BOOLEAN
      /\ b \in Request /\ b.forwarded = FALSE
  BY <1>3, <1>4 DEF Waiting, Request
<1>6. leaves \in BOOLEAN
  OBVIOUS
<1>7. /\ c \in r => x \in Ids(r)
      /\ c \in w => x \in Ids(w)
      /\ c \in a => x \in Ids(a)
      /\ c \in o => x \in Ids(o)
  BY DEF Ids
<1> HIDE DEF x, leaves, reads, P, Q
<1>8. /\ x \in Ids(r) => c \in r
      /\ x \in Ids(w) => c \in w
      /\ x \in Ids(a) => c \in a
      /\ x \in Ids(o) => c \in o
      /\ x \notin PendingIds(p) /\ x \notin d /\ x \in Nat /\ x <= n
  BY <1>7, PlacesApart
<1>9. \/ c \in r /\ c \notin w /\ c \notin a /\ c \notin o
      \/ c \notin r /\ c \in w /\ c \notin a /\ c \notin o
      \/ c \notin r /\ c \notin w /\ c \in a /\ c \notin o
      \/ c \notin r /\ c \notin w /\ c \notin a /\ c \in o
  BY <1>7, PlacesApart
<1>10. /\ Turned(r, c, b, leaves, r2) /\ Turned(w, c, b, leaves, w2)
       /\ Turned(a, c, b, leaves, Moved(a, c, b, leaves)) /\ Turned(o, c, b, leaves, o2)
  <2>1. /\ r \in SUBSET Waiting /\ w \in SUBSET Waiting /\ a \in SUBSET Waiting
        /\ o \in SUBSET Waiting
    BY <1>2
  <2>2. /\ c.id \in Ids(r) => c \in r
        /\ c.id \in Ids(w) => c \in w
        /\ c.id \in Ids(a) => c \in a
        /\ c.id \in Ids(o) => c \in o
        /\ b.id = c.id
    BY <1>4, <1>8 DEF x
  <2>3. Turned(r, c, b, leaves, Moved(r, c, b, leaves))
    BY <1>2, <1>3, <1>4, <1>6, <2>1, <2>2, MovedQueue
  <2>4. Turned(w, c, b, leaves, Moved(w, c, b, leaves))
    BY <1>2, <1>3, <1>4, <1>6, <2>1, <2>2, MovedQueue
  <2>5. Turned(a, c, b, leaves, Moved(a, c, b, leaves))
    BY <1>2, <1>3, <1>4, <1>6, <2>1, <2>2, MovedQueue
  <2>6. Turned(o, c, b, leaves, Moved(o, c, b, leaves))
    BY <1>2, <1>3, <1>4, <1>6, <2>1, <2>2, MovedQueue
  <2> QED BY <2>3, <2>4, <2>5, <2>6 DEF leaves
<1> DEFINE In(q) == IF c \in q /\ ~leaves THEN {x} ELSE {}
           Counts(q) == IF c \in q /\ ~leaves /\ c.type # "REFRESH" THEN {x} ELSE {}
           m == Moved(a, c, b, leaves)
           opened == IF opens /\ c.type # "REFRESH" THEN {x} ELSE {}
           answers == IF done /\ reads THEN {x} ELSE {}
<1>11. b.type # "REFRESH" <=> c.type # "REFRESH"
  BY <1>4
<1>12. /\ Ids(r2) = (Ids(r) \ {x}) \cup In(r) /\ Ids(w2) = (Ids(w) \ {x}) \cup In(w)
       /\ Ids(m) = (Ids(a) \ {x}) \cup In(a) /\ Ids(o2) = (Ids(o) \ {x}) \cup In(o)
  BY <1>10 DEF Turned, x
<1>13. /\ BegunIn(r2) = (BegunIn(r) \ {x}) \cup Counts(r)
       /\ BegunIn(w2) = (BegunIn(w) \ {x}) \cup Counts(w)
       /\ BegunIn(m) = (BegunIn(a) \ {x}) \cup Counts(a)
  BY <1>10, <1>11 DEF Turned, x
<1>14. /\ r2 \subseteq Waiting /\ w2 \subseteq Waiting /\ m \subseteq Waiting /\ o2 \subseteq Waiting
       /\ NoTwins(r2) /\ NoTwins(w2) /\ NoTwins(m) /\ NoTwins(o2)
  BY <1>10 DEF Turned
<1>15. opens => leaves
  BY DEF leaves
<1>16. /\ a2 \subseteq Waiting /\ NoTwins(a2)
       /\ Ids(a2) = Ids(m) \cup (IF opens THEN {x} ELSE {})
       /\ BegunIn(a2) = BegunIn(m) \cup opened
  <2> HIDE DEF In, Counts
  <2>1. a2 = m \cup (IF opens THEN {b} ELSE {})
    BY DEF leaves
  <2>2. CASE ~opens
    <3>1. a2 = m
      BY <2>1, <2>2
    <3> QED BY <1>14, <2>2, <3>1
  <2>3. CASE opens
    <3>1. a2 = m \cup {b}
      BY <2>1, <2>3
    <3>2. x \notin Ids(m)
      BY <1>12, <1>15, <2>3 DEF In
    <3> HIDE DEF m
    <3>3. Ids(a2) = Ids(m) \cup {x}
      BY <1>4, <3>1 DEF Ids
    <3>4. NoTwins(a2)
      BY <1>4, <1>14, <3>1, <3>2 DEF NoTwins, Ids
    <3>5. BegunIn(a2) = BegunIn(m) \cup (IF c.type # "REFRESH" THEN {x} ELSE {})
      <4>1. \A y : y \in BegunIn(a2) <=> \E z \in a2 : ~z.first /\ z.type # "REFRESH" /\ y = z.id
        BY DEF BegunIn, Ids
      <4>2. \A y : y \in BegunIn(m) <=> \E z \in m : ~z.first /\ z.type # "REFRESH" /\ y = z.id
        BY DEF BegunIn, Ids
      <4>3. b.id = x /\ ~b.first /\ (b.type # "REFRESH" <=> c.type # "REFRESH")
        BY <1>4, <1>11
      <4>4. \A y : y \in BegunIn(a2) <=> y \in BegunIn(m) \/ (c.type # "REFRESH" /\ y = x)
        <5>1. \A z : z \in a2 <=> z \in m \/ z = b
          BY <3>1
        <5>2. ASSUME NEW y, y \in BegunIn(a2)
              PROVE  y \in BegunIn(m) \/ (c.type # "REFRESH" /\ y = x)
          <6>1. PICK z \in a2 : ~z.first /\ z.type # "REFRESH" /\ y = z.id
            BY <4>1, <5>2
          <6>2. CASE z \in m
            BY <4>2, <6>1, <6>2
          <6>3. CASE z = b
            BY <4>3, <6>1, <6>3
          <6> QED BY <5>1, <6>2, <6>3
        <5>3. ASSUME NEW y, y \in BegunIn(m) PROVE y \in BegunIn(a2)
          <6>1. PICK z \in m : ~z.first /\ z.type # "REFRESH" /\ y = z.id
            BY <4>2, <5>3
          <6>2. z \in a2
            BY <5>1
          <6> QED BY <4>1, <6>1, <6>2
        <5>4. ASSUME c.type # "REFRESH" PROVE x \in BegunIn(a2)
          BY <4>1, <4>3, <5>1, <5>4
        <5> QED BY <5>2, <5>3, <5>4
      <4> QED BY <4>4
    <3> QED BY <1>4, <1>14, <2>3, <3>1, <3>3, <3>4, <3>5
  <2> QED BY <2>2, <2>3
<1>17. /\ p2 \in Seq(Request) /\ Distinct(p2)
       /\ PendingIds(p2) = PendingIds(p) \cup answers
       /\ BegunPending(p2) = BegunPending(p) \cup answers
  <2>1. CASE done /\ reads
    <3>1. p2 = Append(p, b)
      BY <2>1 DEF reads
    <3>2. /\ Append(p, b) \in Seq(Request)
          /\ PendingIds(Append(p, b)) = PendingIds(p) \cup {b.id}
          /\ BegunPending(Append(p, b)) = BegunPending(p) \cup (IF b.forwarded THEN {} ELSE {b.id})
          /\ Distinct(p) /\ b.id \notin PendingIds(p) => Distinct(Append(p, b))
      BY <1>2, <1>5, PendingAppend
    <3> QED BY <1>2, <1>4, <1>5, <1>8, <2>1, <3>1, <3>2
  <2>2. CASE ~(done /\ reads)
    <3>1. p2 = p
      BY <2>2 DEF reads
    <3> QED BY <1>2, <2>2, <3>1
  <2> QED BY <2>1, <2>2
<1> HIDE DEF m, answers, opened
<1>18. /\ P[1] = Ids(r) /\ P[2] = Ids(w) /\ P[3] = Ids(a) /\ P[4] = Ids(o)
       /\ P[5] = PendingIds(p) /\ P[6] = d
       /\ Q[1] = Ids(r2) /\ Q[2] = Ids(w2) /\ Q[3] = Ids(a2) /\ Q[4] = Ids(o2)
       /\ Q[5] = PendingIds(p2) /\ Q[6] = d
  BY SpotsAt DEF P, Q
<1>19. \E k : Moves(P, Q, x, k)
  <2>1. PendingIds(p) \ {x} = PendingIds(p) /\ d \ {x} = d
    BY <1>8
  <2>2. CASE done
    <3>1. leaves /\ ~opens
      BY <2>2 DEF leaves
    <3>2. In(r) = {} /\ In(w) = {} /\ In(a) = {} /\ In(o) = {}
      BY <3>1
    <3>3. PendingIds(p2) = PendingIds(p) \cup (IF reads THEN {x} ELSE {})
      BY <1>17, <2>2 DEF answers
    <3> HIDE DEF In
    <3>4. CASE reads
      <4>1. Moves(P, Q, x, 5)
        BY <1>12, <1>16, <1>18, <2>1, <3>1, <3>2, <3>3, <3>4 DEF Moves
      <4> QED BY <4>1
    <3>5. CASE ~reads
      <4>1. Moves(P, Q, x, 0)
        BY <1>12, <1>16, <1>18, <2>1, <3>1, <3>2, <3>3, <3>5 DEF Moves
      <4> QED BY <4>1
    <3> QED BY <3>4, <3>5
  <2>3. CASE ~done
    <3>1. PendingIds(p2) = PendingIds(p)
      BY <1>17, <2>3 DEF answers
    <3>2. CASE opens
      <4>1. In(r) = {} /\ In(w) = {} /\ In(a) = {} /\ In(o) = {}
        BY <1>15, <3>2
      <4> HIDE DEF In
      <4>2. Moves(P, Q, x, 3)
        BY <1>12, <1>16, <1>18, <2>1, <3>1, <3>2, <4>1 DEF Moves
      <4> QED BY <4>2
    <3>3. CASE ~opens
      <4>1. ~leaves
        BY <2>3, <3>3 DEF leaves
      <4>2. Ids(a2) = Ids(m)
        BY <1>16, <3>3
      <4>3. \/ In(r) = {x} /\ In(w) = {} /\ In(a) = {} /\ In(o) = {}
            \/ In(r) = {} /\ In(w) = {x} /\ In(a) = {} /\ In(o) = {}
            \/ In(r) = {} /\ In(w) = {} /\ In(a) = {x} /\ In(o) = {}
            \/ In(r) = {} /\ In(w) = {} /\ In(a) = {} /\ In(o) = {x}
        BY <1>9, <4>1
      <4> HIDE DEF In
      <4>8. /\ Q[1] = (P[1] \ {x}) \cup In(r) /\ Q[2] = (P[2] \ {x}) \cup In(w)
            /\ Q[3] = (P[3] \ {x}) \cup In(a) /\ Q[4] = (P[4] \ {x}) \cup In(o)
        BY <1>12, <1>18, <4>2
      <4>9. Q[5] = P[5] \ {x} /\ Q[6] = P[6] \ {x}
        BY <1>18, <2>1, <3>1
      <4>4. CASE In(r) = {x} /\ In(w) = {} /\ In(a) = {} /\ In(o) = {}
        <5>1. Moves(P, Q, x, 1)
          BY <4>4, <4>8, <4>9 DEF Moves
        <5> QED BY <5>1
      <4>5. CASE In(r) = {} /\ In(w) = {x} /\ In(a) = {} /\ In(o) = {}
        <5>1. Moves(P, Q, x, 2)
          BY <4>5, <4>8, <4>9 DEF Moves
        <5> QED BY <5>1
      <4>6. CASE In(r) = {} /\ In(w) = {} /\ In(a) = {x} /\ In(o) = {}
        <5>1. Moves(P, Q, x, 3)
          BY <4>6, <4>8, <4>9 DEF Moves
        <5> QED BY <5>1
      <4>7. CASE In(r) = {} /\ In(w) = {} /\ In(a) = {} /\ In(o) = {x}
        <5>1. Moves(P, Q, x, 4)
          BY <4>7, <4>8, <4>9 DEF Moves
        <5> QED BY <5>1
      <4> QED BY <4>3, <4>4, <4>5, <4>6, <4>7
    <3> QED BY <3>2, <3>3
  <2> QED BY <2>2, <2>3
<1>20. Orderly(Q, n)
  <2>1. PICK k : Moves(P, Q, x, k)
    BY <1>19
  <2>2. n <= n /\ x \in Nat /\ x <= n
    BY <1>8
  <2> QED BY <1>1, <2>1, <2>2, OrderlyAfterMove
<1>21. o2 \subseteq {y \in Waiting : y.type = "REFRESH"}
  <2>1. c \notin o => o2 = o
    BY DEF Moved
  <2>2. c \in o => \A y \in o2 : y \in o \/ y = b
    BY DEF Moved, Without
  <2>3. c \in o => b.type = "REFRESH"
    BY <1>2, <1>4
  <2> QED BY <1>2, <1>14, <2>1, <2>2, <2>3
<1>22. Placed(r2, w2, a2, o2, p2, d, n)
  <2>1. WellFormed(r2, w2, a2, o2, p2, d)
    BY <1>2, <1>14, <1>16, <1>17, <1>21 DEF WellFormed
  <2> QED BY <1>20, <2>1 DEF Placed, Q
<1>23. x \notin BegunPending(p)
  BY <1>8, BegunAreIds
<1>24. BegunOf(r2, w2, a2, p2) = (BegunOf(r, w, a, p) \ {x})
                                   \cup Counts(r) \cup Counts(w) \cup Counts(a) \cup opened \cup answers
  <2> HIDE DEF Counts
  <2>1. BegunIn(a2) = (BegunIn(a) \ {x}) \cup Counts(a) \cup opened
    BY <1>13, <1>16
  <2>2. BegunPending(p2) = (BegunPending(p) \ {x}) \cup answers
    BY <1>17, <1>23
  <2>3. BegunIn(r2) = (BegunIn(r) \ {x}) \cup Counts(r) /\ BegunIn(w2) = (BegunIn(w) \ {x}) \cup Counts(w)
    BY <1>13
  <2> QED BY <2>1, <2>2, <2>3 DEF BegunOf
<1>25. x \in BegunOf(r, w, a, p) <=> ~c.first /\ c.type # "REFRESH"
  <2>1. \A q : x \in BegunIn(q) <=> \E z \in q : ~z.first /\ z.type # "REFRESH" /\ x = z.id
    BY DEF BegunIn, Ids
  <2>2. ASSUME c.type = "REFRESH" \/ c.first PROVE x \notin BegunOf(r, w, a, p)
    <3>1. x \notin BegunIn(r) /\ x \notin BegunIn(w) /\ x \notin BegunIn(a)
      <4>1. ASSUME NEW q, NoTwins(q), x \in Ids(q) => c \in q PROVE x \notin BegunIn(q)
        <5>1. ASSUME NEW z \in q, z.id = x PROVE z = c
          <6>1. x \in Ids(q)
            BY <5>1 DEF Ids
          <6> QED BY <4>1, <5>1, <6>1 DEF NoTwins, x
        <5> QED BY <2>1, <2>2, <5>1
      <4> QED BY <1>2, <1>8, <4>1
    <3> QED BY <1>23, <3>1 DEF BegunOf
  <2>3. ASSUME c.type # "REFRESH", ~c.first PROVE x \in BegunOf(r, w, a, p)
    <3>1. c \in r \/ c \in w \/ c \in a
      BY <1>2, <1>9, <2>3
    <3>2. \A q : c \in q => x \in BegunIn(q)
      BY <2>1, <2>3 DEF x
    <3> QED BY <3>1, <3>2 DEF BegunOf
  <2> QED BY <2>2, <2>3
<1>26. ASSUME c.type = "REFRESH" PROVE BegunOf(r2, w2, a2, p2) = BegunOf(r, w, a, p)
  <2>1. Counts(r) = {} /\ Counts(w) = {} /\ Counts(a) = {} /\ opened = {} /\ answers = {}
    BY <1>4, <1>26 DEF opened, answers, reads
  <2>2. x \notin BegunOf(r, w, a, p)
    BY <1>25, <1>26
  <2> HIDE DEF Counts
  <2> DEFINE B == BegunOf(r, w, a, p)
  <2>3. BegunOf(r2, w2, a2, p2) = B \ {x}
    BY <1>24, <2>1, Zenon
  <2> HIDE DEF B
  <2>4. B \ {x} = B
    BY <2>2 DEF B
  <2> QED BY <2>3, <2>4 DEF B
<1>27. ASSUME c.type # "REFRESH"
       PROVE  BegunOf(r2, w2, a2, p2) = IF done /\ c.type = "WRITE" THEN BegunOf(r, w, a, p) \ {c.id}
                                         ELSE BegunOf(r, w, a, p) \cup {c.id}
  <2>1. c \in r \/ c \in w \/ c \in a
    BY <1>2, <1>9, <1>27
  <2> DEFINE B == BegunOf(r, w, a, p) \ {x}
             N == Counts(r) \cup Counts(w) \cup Counts(a) \cup opened \cup answers
  <2>2. BegunOf(r2, w2, a2, p2) = B \cup N
    <3> HIDE DEF Counts
    <3> QED BY <1>24
  <2>3. CASE done /\ c.type = "WRITE"
    <3>1. ~reads /\ leaves /\ ~opens
      BY <1>4, <2>3 DEF reads, leaves
    <3>2. N = {}
      BY <3>1 DEF opened, answers
    <3> HIDE DEF N
    <3> QED BY <2>2, <2>3, <3>2 DEF x
  <2>4. CASE done /\ c.type # "WRITE"
    <3>1. reads /\ leaves /\ ~opens
      BY <1>4, <1>5, <1>27, <2>4 DEF reads, leaves
    <3>2. N = {x}
      BY <2>4, <3>1 DEF opened, answers
    <3> HIDE DEF N
    <3> QED BY <2>2, <2>4, <3>2 DEF x
  <2>5. CASE ~done
    <3>1. N = {x}
      <4>1. answers = {}
        BY <2>5 DEF answers
      <4>2. CASE opens
        BY <1>15, <1>27, <4>1, <4>2 DEF opened
      <4>3. CASE ~opens
        <5>1. ~leaves /\ opened = {}
          BY <2>5, <4>3 DEF leaves, opened
        <5> QED BY <1>27, <2>1, <4>1, <5>1
      <4> QED BY <4>2, <4>3
    <3> HIDE DEF N
    <3> QED BY <2>2, <2>5, <3>1 DEF x
  <2> QED BY <2>3, <2>4, <2>5
<1> QED BY <1>22, <1>25, <1>26, <1>27 DEF x

-----------------------------------------------------------------------------
(***************************************************************************)
(* Counting the requests being served.                                     *)
(***************************************************************************)
InService(r, w, a, p) == Cardinality(BegunOf(r, w, a, p))

\* The count goes up by plus and down by minus.
Counts(r, w, a, p, r2, w2, a2, p2, plus, minus) ==
  InService(r2, w2, a2, p2) = InService(r, w, a, p) + plus - minus

LEMMA BegunFinite ==
  ASSUME NEW r, NEW w, NEW a, NEW o, NEW p, NEW d, NEW n \in Nat, Placed(r, w, a, o, p, d, n)
  PROVE  IsFiniteSet(BegunOf(r, w, a, p))
<1>1. BegunOf(r, w, a, p) \subseteq Ids(r) \cup Ids(w) \cup Ids(a) \cup PendingIds(p)
  BY BegunAreIds DEF BegunOf
<1>2. \A x \in BegunOf(r, w, a, p) : x \in Nat /\ x <= n
  BY <1>1, PlacesApart
<1>3. BegunOf(r, w, a, p) \subseteq 0 .. n
  BY <1>2
<1>4. IsFiniteSet(0 .. n)
  BY FS_Interval
<1> HIDE DEF BegunOf
<1> QED BY <1>3, <1>4, FS_Subset

LEMMA CountChange ==
  ASSUME NEW B, IsFiniteSet(B), NEW x
  PROVE  /\ Cardinality(B) \in Nat /\ IsFiniteSet(B \ {x})
         /\ Cardinality(B \ {x}) = IF x \in B THEN Cardinality(B) - 1 ELSE Cardinality(B)
         /\ Cardinality(B \cup {x}) = IF x \in B THEN Cardinality(B) ELSE Cardinality(B) + 1
BY FS_CardinalityType, FS_AddElement, FS_RemoveElement

LEMMA CountIsNatural ==
  ASSUME NEW r, NEW w, NEW a, NEW o, NEW p, NEW d, NEW n \in Nat, Placed(r, w, a, o, p, d, n)
  PROVE  InService(r, w, a, p) \in Nat
<1>1. IsFiniteSet(BegunOf(r, w, a, p))
  BY BegunFinite
<1> QED BY <1>1, FS_CardinalityType DEF InService

\* An answer takes a read off the count that is in it.
LEMMA AnsweredCount ==
  ASSUME NEW r, NEW w, NEW a, NEW o, NEW p, NEW d, NEW n \in Nat,
         Placed(r, w, a, o, p, d, n), p # <<>>
  PROVE  /\ Placed(r, w, a, o, Tail(p), d \cup {Head(p).id}, n)
         /\ Counts(r, w, a, p, r, w, a, Tail(p), 0, IF Head(p).forwarded THEN 0 ELSE 1)
<1> DEFINE B == BegunOf(r, w, a, p)
           h == Head(p).id
<1>1. /\ BegunOf(r, w, a, Tail(p)) = B \ {h}
      /\ h \in B <=> ~Head(p).forwarded
  <2>1. /\ Placed(r, w, a, o, Tail(p), d \cup {Head(p).id}, n)
        /\ BegunOf(r, w, a, Tail(p)) = BegunOf(r, w, a, p) \ {Head(p).id}
        /\ Head(p).id \in BegunOf(r, w, a, p) <=> ~Head(p).forwarded
    BY Answered
  <2> QED BY <2>1
<1>2. IsFiniteSet(B)
  BY BegunFinite
<1> HIDE DEF B, h
<1>3. /\ Cardinality(B) \in Nat
      /\ Cardinality(B \ {h}) = IF h \in B THEN Cardinality(B) - 1 ELSE Cardinality(B)
  <2>1. \A x : /\ Cardinality(B) \in Nat
               /\ Cardinality(B \ {x}) = IF x \in B THEN Cardinality(B) - 1 ELSE Cardinality(B)
    BY <1>2, CountChange, Zenon
  <2> QED BY <2>1
<1>4. /\ InService(r, w, a, Tail(p)) = Cardinality(B \ {h})
      /\ InService(r, w, a, p) = Cardinality(B)
  BY <1>1, Zenon DEF InService, B
<1>5. Placed(r, w, a, o, Tail(p), d \cup {Head(p).id}, n)
  BY Answered
<1>6. CASE Head(p).forwarded
  <2>1. Cardinality(B \ {h}) = Cardinality(B) + 0 - 0
    BY <1>1, <1>3, <1>6
  <2>2. (IF Head(p).forwarded THEN 0 ELSE 1) = 0
    BY <1>6
  <2>3. Counts(r, w, a, p, r, w, a, Tail(p), 0, 0)
    BY <1>4, <2>1 DEF Counts
  <2> QED BY <1>5, <2>2, <2>3
<1>7. CASE ~Head(p).forwarded
  <2>1. Cardinality(B \ {h}) = Cardinality(B) + 0 - 1
    BY <1>1, <1>3, <1>7
  <2>2. (IF Head(p).forwarded THEN 0 ELSE 1) = 1
    BY <1>7
  <2>3. Counts(r, w, a, p, r, w, a, Tail(p), 0, 1)
    BY <1>4, <2>1 DEF Counts
  <2> QED BY <1>5, <2>2, <2>3
<1> QED BY <1>6, <1>7

\* A request that arrives is not yet served.
LEMMA ArrivedCount ==
  ASSUME NEW r, NEW w, NEW a, NEW o, NEW p, NEW d, NEW n \in Nat,
         Placed(r, w, a, o, p, d, n), NEW x, NEW y, Arrives(x, y, n)
  PROVE  /\ Placed(r \cup {x}, w, a, o, p, d, n + 1)
         /\ Placed(r, w \cup {x}, a, o, p, d, n + 1)
         /\ x.type = "REFRESH" => Placed(r, w, a, o \cup {x}, p, d, n + 1)
         /\ Placed(r, w, a, o, Append(p, y), d, n + 1)
         /\ Counts(r, w, a, p, r \cup {x}, w, a, p, 0, 0)
         /\ Counts(r, w, a, p, r, w \cup {x}, a, p, 0, 0)
         /\ Counts(r, w, a, p, r, w, a, Append(p, y), 0, 0)
         /\ Counts(r, w, a, p, r, w, a, p, 0, 0)
<1> DEFINE B == BegunOf(r, w, a, p)
<1>1. /\ Placed(r \cup {x}, w, a, o, p, d, n + 1)
      /\ Placed(r, w \cup {x}, a, o, p, d, n + 1)
      /\ x.type = "REFRESH" => Placed(r, w, a, o \cup {x}, p, d, n + 1)
      /\ Placed(r, w, a, o, Append(p, y), d, n + 1)
      /\ SameBegun(r, w, a, p, r \cup {x}, w, a, p)
      /\ SameBegun(r, w, a, p, r, w \cup {x}, a, p)
      /\ SameBegun(r, w, a, p, r, w, a, Append(p, y))
  BY Arrived
<1>2. Cardinality(B) \in Nat
  BY BegunFinite, FS_CardinalityType
<1> HIDE DEF B
<1>3. Cardinality(B) = Cardinality(B) + 0 - 0
  BY <1>2
<1> QED BY <1>1, <1>3 DEF Counts, InService, B, SameBegun

\* What Serve adds to the count: a read or write that begins, and a write that is done.
LEMMA ServedCount ==
  ASSUME NEW r, NEW w, NEW a, NEW o, NEW p, NEW d, NEW n \in Nat,
         Placed(r, w, a, o, p, d, n), NEW c \in r \cup w \cup a \cup o,
         NEW done \in BOOLEAN, NEW B,
         c.type = "REFRESH" => B = BegunOf(r, w, a, p),
         c.type # "REFRESH" =>
           B = IF done /\ c.type = "WRITE" THEN BegunOf(r, w, a, p) \ {c.id}
                                           ELSE BegunOf(r, w, a, p) \cup {c.id},
         c.id \in BegunOf(r, w, a, p) <=> ~c.first /\ c.type # "REFRESH"
  PROVE  Cardinality(B) = Cardinality(BegunOf(r, w, a, p))
                            + (IF c.first /\ c.type \in {"READ", "WRITE"} THEN 1 ELSE 0)
                            - (IF done /\ c.type = "WRITE" THEN 1 ELSE 0)
<1> DEFINE A == BegunOf(r, w, a, p)
<1>1. c \in Waiting
  BY DEF Placed, WellFormed
<1>2. /\ c.type \in {"READ", "WRITE", "EXTENSION", "REFRESH"} /\ c.first \in BOOLEAN
      /\ c.first => c.type # "EXTENSION"
  BY <1>1 DEF Waiting, Request
<1>3. IsFiniteSet(A)
  BY BegunFinite
<1> HIDE DEF A
<1>4. /\ Cardinality(A) \in Nat
      /\ Cardinality(A \ {c.id}) = IF c.id \in A THEN Cardinality(A) - 1 ELSE Cardinality(A)
      /\ Cardinality(A \cup {c.id}) = IF c.id \in A THEN Cardinality(A) ELSE Cardinality(A) + 1
  BY <1>3, CountChange
<1>5. CASE c.type = "REFRESH"
  BY <1>4, <1>5 DEF A
<1>6. CASE c.type # "REFRESH"
  <2>1. /\ B = IF done /\ c.type = "WRITE" THEN A \ {c.id} ELSE A \cup {c.id}
        /\ c.id \in A <=> ~c.first
    BY <1>2, <1>6 DEF A
  <2>2. CASE done /\ c.type = "WRITE"
    BY <1>2, <1>4, <1>6, <2>1, <2>2 DEF A
  <2>3. CASE ~(done /\ c.type = "WRITE")
    BY <1>2, <1>4, <1>6, <2>1, <2>3 DEF A
  <2> QED BY <2>2, <2>3
<1> QED BY <1>5, <1>6

LEMMA ServingCounts ==
  ASSUME NEW r, NEW w, NEW a, NEW o, NEW p, NEW d, NEW n \in Nat,
         Placed(r, w, a, o, p, d, n), NEW c, NEW b, NEW done, NEW opens,
         NEW r2, NEW w2, NEW a2, NEW o2, NEW p2,
         ServedBy(r, w, a, o, p, c, b, done, opens, r2, w2, a2, o2, p2)
  PROVE  /\ Placed(r2, w2, a2, o2, p2, d, n)
         /\ Counts(r, w, a, p, r2, w2, a2, p2,
                   IF c.first /\ c.type \in {"READ", "WRITE"} THEN 1 ELSE 0,
                   IF done /\ c.type = "WRITE" THEN 1 ELSE 0)
<1> DEFINE B == BegunOf(r2, w2, a2, p2)
<1>1. /\ Placed(r2, w2, a2, o2, p2, d, n)
      /\ c.type = "REFRESH" => B = BegunOf(r, w, a, p)
      /\ c.type # "REFRESH" => B =
           IF done /\ c.type = "WRITE" THEN BegunOf(r, w, a, p) \ {c.id}
                                       ELSE BegunOf(r, w, a, p) \cup {c.id}
      /\ c.id \in BegunOf(r, w, a, p) <=> ~c.first /\ c.type # "REFRESH"
  BY Served
<1>2. c \in r \cup w \cup a \cup o /\ done \in BOOLEAN
  BY DEF ServedBy
<1> HIDE DEF B
<1>3. Cardinality(B) = Cardinality(BegunOf(r, w, a, p))
                         + (IF c.first /\ c.type \in {"READ", "WRITE"} THEN 1 ELSE 0)
                         - (IF done /\ c.type = "WRITE" THEN 1 ELSE 0)
  BY <1>1, <1>2, ServedCount
<1> QED BY <1>1, <1>3 DEF B, InService, Counts

-----------------------------------------------------------------------------
(* At the start there are no requests.                                     *)

LEMMA EmptyPlaced ==
  /\ Placed({}, {}, {}, {}, <<>>, {}, 0)
  /\ InService({}, {}, {}, <<>>) = 0
<1> DEFINE P == Spots({}, {}, {}, {}, <<>>, {})
<1>1. \A j \in 1 .. 6 : P[j] = {}
  <2>1. PendingIds(<<>>) = {} /\ Ids({}) = {}
    BY DEF PendingIds, Ids
  <2>2. P = <<{}, {}, {}, {}, {}, {}>>
    BY <2>1 DEF Spots
  <2> HIDE DEF P
  <2> QED BY <2>2
<1> HIDE DEF P
<1>2. Orderly(P, 0)
  BY <1>1 DEF Orderly, Apart
<1>3. WellFormed({}, {}, {}, {}, <<>>, {})
  BY DEF WellFormed, NoTwins, Distinct
<1>4. BegunOf({}, {}, {}, <<>>) = {}
  BY DEF BegunOf, BegunIn, BegunPending, Ids
<1> QED BY <1>2, <1>3, <1>4, FS_EmptySet DEF Placed, P, InService

-----------------------------------------------------------------------------
(***************************************************************************)
(* Requests.                                                               *)
(***************************************************************************)
LEMMA NewRequestFields ==
  ASSUME sent \in Nat, refreshed \in Nat,
         NEW type \in {"READ", "WRITE", "REFRESH"},
         NEW a \in Address \cup {WholeRank}, NEW col \in Columns \cup {0}
  PROVE  /\ NewRequest(type, a, col) \in Waiting
         /\ NewRequest(type, a, col).id = sent + refreshed + 1
         /\ NewRequest(type, a, col).type = type
         /\ NewRequest(type, a, col).first = TRUE
<1> DEFINE r == NewRequest(type, a, col)
           Types == {"NONE", "READ", "WRITE", "EXTENSION", "REFRESH"}
           Any == [id : Nat, type : Types, a : Address \cup {WholeRank},
                   col : Columns \cup {0}, first : BOOLEAN, forwarded : BOOLEAN]
<1>1. NoRequest \in Any /\ ~NoRequest.forwarded
  BY DEF NoRequest
<1>2. sent + refreshed + 1 \in Nat \ {0}
  OBVIOUS
<1>3. r = [NoRequest EXCEPT !.id = sent + refreshed + 1, !.type = type, !.a = a, !.col = col,
                            !.first = TRUE]
  BY DEF NewRequest
<1> HIDE DEF r
<1>4. r \in Any /\ r.id = sent + refreshed + 1 /\ r.type = type /\ r.first = TRUE
  BY <1>1, <1>2, <1>3
<1>6. r.forwarded = FALSE
  BY <1>1, <1>3
<1>5. r \in Waiting
  BY <1>2, <1>4, <1>6 DEF Waiting, Request, Rows, Cols
<1> QED BY <1>4, <1>5 DEF r

\* A request that is served is begun and may have become an extension.
Begins(req) == [req EXCEPT !.first = FALSE,
                           !.type = IF ~HasActq /\ @ = "READ" THEN "EXTENSION" ELSE @]

LEMMA BegunFields ==
  ASSUME NEW r \in Waiting
  PROVE  /\ Begins(r) \in Waiting
         /\ Begins(r).id = r.id /\ ~Begins(r).first
         /\ Begins(r).type = r.type \/ (r.type = "READ" /\ Begins(r).type = "EXTENSION")
<1> DEFINE t == IF ~HasActq /\ r.type = "READ" THEN "EXTENSION" ELSE r.type
           b == Begins(r)
<1>1. r \in Request /\ ~r.forwarded /\ r.type # "NONE"
  BY DEF Waiting
<1>2. b = [r EXCEPT !.first = FALSE, !.type = t]
  BY <1>1 DEF Begins, Request
<1>3. t = r.type \/ (r.type = "READ" /\ t = "EXTENSION")
  OBVIOUS
<1> HIDE DEF t, b
<1>4. b \in Request /\ b.id = r.id /\ b.first = FALSE /\ b.type = t /\ b.forwarded = r.forwarded
  BY <1>1, <1>2, <1>3 DEF Request
<1>5. b \in Waiting
  <2>1. b.type # "NONE"
    BY <1>1, <1>3, <1>4
  <2>2. ~b.forwarded /\ (b.first => b.type # "EXTENSION")
    BY <1>1, <1>4
  <2> QED BY <1>4, <2>1, <2>2 DEF Waiting
<1> QED BY <1>3, <1>4, <1>5 DEF b

-----------------------------------------------------------------------------
(***************************************************************************)
(* The schedulers choose a request of the queue they look at.              *)
(***************************************************************************)
LEMMA OldestIn ==
  ASSUME NEW q \in SUBSET Request, q # {}
  PROVE  Oldest(q) \in q
<1>1. \E r \in q : \A x \in q : r.id <= x.id
  <2> DEFINE D == {r.id : r \in q}
  <2>1. \A r \in q : r.id \in Nat
    BY DEF Request
  <2>2. D \in SUBSET Nat /\ D # {}
    BY <2>1
  <2>3. PICK d \in D : \A e \in D : ~(<<e, d>> \in OpToRel(<, Nat))
    <3> HIDE DEF D
    <3> QED BY <2>2, NatLessThanWellFounded, WFMin
  <2>4. PICK r \in q : d = r.id
    OBVIOUS
  <2>5. ASSUME NEW x \in q PROVE r.id <= x.id
    <3>1. x.id \in D /\ x.id \in Nat /\ r.id \in Nat
      BY <2>1
    <3>2. ~(x.id < r.id)
      BY <2>3, <2>4, <3>1 DEF OpToRel
    <3> QED BY <3>1, <3>2
  <2> QED BY <2>5
<1> QED BY <1>1 DEF Oldest

LEMMA PreferringIn ==
  ASSUME NEW q \in SUBSET Request, q # {}, NEW some \in SUBSET q
  PROVE  Preferring(some, q) \in q
BY OldestIn DEF Preferring

LEMMA HeadIn ==
  ASSUME NEW q \in SUBSET Request, NEW needs, NEW ready, scheduler \in Schedulers
  PROVE  get_head(q, needs, ready) \subseteq q
<1> DEFINE Ready == {r \in q : is_ready(r, needs, ready)}
           Capped == {r \in Ready : get_hits(r.a) <= Cap}
           Hits == {r \in q : is_row_hit(r)}
<1>1. Ready \subseteq q /\ Capped \subseteq q /\ Hits \subseteq q
  OBVIOUS
<1>2. PriorHit(q, Ready, Hits) \subseteq q
  <2> DEFINE Harmless == {r \in q : r \in Hits \/ ~is_row_open(r) \/ \A h \in Hits : ~SameScope(h, r)}
  <2>1. Harmless \subseteq q
    OBVIOUS
  <2> HIDE DEF Ready, Hits
  <2>2. CASE Ready \cap Hits # {}
    <3>1. Oldest(Ready \cap Hits) \in Ready \cap Hits
      BY <1>1, <2>2, OldestIn
    <3>2. PriorHit(q, Ready, Hits) = {Oldest(Ready \cap Hits)}
      BY <2>2 DEF PriorHit
    <3> QED BY <1>1, <3>1, <3>2
  <2>3. CASE Ready \cap Hits = {} /\ Harmless = {}
    BY <2>3 DEF PriorHit
  <2>4. CASE Ready \cap Hits = {} /\ Harmless # {}
    <3>1. PriorHit(q, Ready, Hits) = {Preferring(Ready \cap Harmless, Harmless)}
      BY <2>4 DEF PriorHit
    <3> HIDE DEF Harmless
    <3>2. Preferring(Ready \cap Harmless, Harmless) \in Harmless
      BY <2>1, <2>4, PreferringIn
    <3> QED BY <2>1, <3>1, <3>2
  <2> QED BY <2>2, <2>3, <2>4
<1>3. scheduler \in {"FCFS", "FRFCFS", "FRFCFS_Cap", "FRFCFS_PriorHit"}
  BY SchedulerAssumption
<1>4. CASE q = {}
  BY <1>4 DEF get_head
<1>5. CASE q # {}
  <2>1. /\ Oldest(q) \in q /\ Preferring(Ready, q) \in q /\ Preferring(Capped, q) \in q
    <3> HIDE DEF Ready, Capped
    <3> QED BY <1>1, <1>5, OldestIn, PreferringIn
  <2>2. \/ get_head(q, needs, ready) = {Oldest(q)}
        \/ get_head(q, needs, ready) = {Preferring(Ready, q)}
        \/ get_head(q, needs, ready) = {Preferring(Capped, q)}
        \/ get_head(q, needs, ready) = PriorHit(q, Ready, Hits)
    BY <1>3, <1>5 DEF get_head
  <2> QED BY <1>2, <2>1, <2>2
<1> QED BY <1>4, <1>5

LEMMA ChosenIn ==
  ASSUME NEW mode, NEW others \in SUBSET Request, NEW needs, NEW ready,
         scheduler \in Schedulers, actq \subseteq Request, readq \subseteq Request,
         writeq \subseteq Request
  PROVE  Chosen(mode, others, needs, ready) \subseteq readq \cup writeq \cup actq \cup others
<1> DEFINE queue == CASE others # {} -> others [] others = {} /\ mode -> writeq [] OTHER -> readq
           servable(q) == {r \in get_head(q, needs, ready) : is_ready(r, needs, ready)}
<1>1. queue \in {others, writeq, readq}
  OBVIOUS
<1>2. get_head(actq, needs, ready) \subseteq actq
  BY HeadIn
<1>3. get_head(queue, needs, ready) \subseteq queue
  <2> HIDE DEF queue
  <2> QED BY <1>1, HeadIn
<1>4. Chosen(mode, others, needs, ready) \in {servable(actq), servable(queue), {}}
  BY DEF Chosen
<1> HIDE DEF queue
<1> QED BY <1>1, <1>2, <1>3, <1>4

-----------------------------------------------------------------------------
(***************************************************************************)
(* The invariant: every request is in one place, and the count is that of  *)
(* the requests that were begun and are not finished.                      *)
(***************************************************************************)
PlacedIn(others, reads, done, n) == Placed(readq, writeq, actq, others, reads, done, n)
Serving(reads) == InService(readq, writeq, actq, reads)

IInv ==
  /\ scheduler \in Schedulers /\ sent \in Nat /\ refreshed \in Nat
  /\ PlacedIn(otherq, pending, answered, sent + refreshed)
  /\ serving = Serving(pending)

LEMMA InitPlaced ==
  ASSUME Init
  PROVE  IInv
<1>1. /\ readq = {} /\ writeq = {} /\ actq = {} /\ otherq = {} /\ pending = <<>> /\ answered = {}
      /\ serving = 0 /\ sent = 0 /\ refreshed = 0 /\ scheduler \in Schedulers
  BY DEF Init
<1>2. Placed({}, {}, {}, {}, <<>>, {}, 0) /\ InService({}, {}, {}, <<>>) = 0
  BY EmptyPlaced
<1>3. sent + refreshed = 0 /\ sent \in Nat /\ refreshed \in Nat
  BY <1>1
<1>4. PlacedIn(otherq, pending, answered, sent + refreshed) /\ serving = Serving(pending)
  BY <1>1, <1>2, <1>3 DEF PlacedIn, Serving
<1> QED BY <1>1, <1>3, <1>4 DEF IInv

LEMMA SendPlaces ==
  ASSUME IInv, Send
  PROVE  IInv'
<1> DEFINE n == sent + refreshed
<1>1. PICK type \in {"READ", "WRITE"}, a \in Address, col \in Columns :
        enqueue(NewRequest(type, a, col))
  BY DEF Send
<1> DEFINE x == NewRequest(type, a, col)
           y == [x EXCEPT !.forwarded = TRUE]
<1>2. sent \in Nat /\ refreshed \in Nat /\ n \in Nat
  BY DEF IInv
<1>3. x \in Waiting /\ x.id = n + 1 /\ x.type = type /\ x.first = TRUE
  <2>1. /\ type \in {"READ", "WRITE", "REFRESH"} /\ a \in Address \cup {WholeRank}
        /\ col \in Columns \cup {0}
    OBVIOUS
  <2> HIDE DEF x
  <2> QED BY <1>2, <2>1, NewRequestFields DEF x
<1>4. \/ writeq' = writeq \cup {x} /\ readq' = readq /\ pending' = pending
      \/ readq' = readq \cup {x} /\ writeq' = writeq /\ pending' = pending
      \/ pending' = Append(pending, y) /\ readq' = readq /\ writeq' = writeq
  BY <1>1 DEF enqueue
<1> HIDE DEF x
<1>5. y \in Request /\ y.id = n + 1 /\ y.forwarded = TRUE
  BY <1>3 DEF Waiting, Request
<1>6. /\ scheduler' \in Schedulers /\ sent' \in Nat /\ refreshed' \in Nat
      /\ sent' + refreshed' = n + 1 /\ actq' = actq /\ otherq' = otherq
      /\ answered' = answered /\ serving' = serving
  BY <1>2 DEF IInv, Send
<1>7. Placed(readq, writeq, actq, otherq, pending, answered, n) /\ serving = Serving(pending)
  BY DEF IInv, PlacedIn
<1>10. Arrives(x, y, n)
  BY <1>3, <1>5 DEF Arrives
<1> HIDE DEF n, y
<1>8. /\ Placed(readq \cup {x}, writeq, actq, otherq, pending, answered, n + 1)
      /\ Placed(readq, writeq \cup {x}, actq, otherq, pending, answered, n + 1)
      /\ Placed(readq, writeq, actq, otherq, Append(pending, y), answered, n + 1)
      /\ Counts(readq, writeq, actq, pending, readq \cup {x}, writeq, actq, pending, 0, 0)
      /\ Counts(readq, writeq, actq, pending, readq, writeq \cup {x}, actq, pending, 0, 0)
      /\ Counts(readq, writeq, actq, pending, readq, writeq, actq, Append(pending, y), 0, 0)
  <2>1. /\ Placed(readq \cup {x}, writeq, actq, otherq, pending, answered, n + 1)
        /\ Placed(readq, writeq \cup {x}, actq, otherq, pending, answered, n + 1)
        /\ x.type = "REFRESH" => Placed(readq, writeq, actq, otherq \cup {x}, pending, answered, n + 1)
        /\ Placed(readq, writeq, actq, otherq, Append(pending, y), answered, n + 1)
        /\ Counts(readq, writeq, actq, pending, readq \cup {x}, writeq, actq, pending, 0, 0)
        /\ Counts(readq, writeq, actq, pending, readq, writeq \cup {x}, actq, pending, 0, 0)
        /\ Counts(readq, writeq, actq, pending, readq, writeq, actq, Append(pending, y), 0, 0)
        /\ Counts(readq, writeq, actq, pending, readq, writeq, actq, pending, 0, 0)
    BY <1>2, <1>7, <1>10, ArrivedCount
  <2> QED BY <2>1
<1>9. /\ Placed(readq', writeq', actq', otherq', pending', answered', n + 1)
      /\ Counts(readq, writeq, actq, pending, readq', writeq', actq', pending', 0, 0)
  BY <1>4, <1>6, <1>8
<1>11. Serving(pending) \in Nat
  BY <1>2, <1>7, CountIsNatural DEF Serving
<1>12. Serving(pending)' = Serving(pending)
  BY <1>9, <1>11 DEF Serving, Counts
<1> QED BY <1>6, <1>7, <1>9, <1>12 DEF IInv, PlacedIn

-----------------------------------------------------------------------------
(***************************************************************************)
(* A tick.                                                                 *)
(***************************************************************************)
\* A refresh that is due joins the other queue.
LEMMA RefreshPlaces ==
  ASSUME IInv, NEW refresh \in BOOLEAN,
         refreshed' = IF refresh THEN refreshed + 1 ELSE refreshed, sent' = sent
  PROVE  /\ sent' \in Nat /\ refreshed' \in Nat /\ sent' + refreshed' \in Nat
         /\ PlacedIn(otherq \cup (IF refresh THEN {NewRequest("REFRESH", WholeRank, 0)} ELSE {}),
                     pending, answered, sent' + refreshed')
<1> DEFINE n == sent + refreshed
           x == NewRequest("REFRESH", WholeRank, 0)
           y == [x EXCEPT !.forwarded = TRUE]
<1>1. /\ sent \in Nat /\ refreshed \in Nat /\ n \in Nat
      /\ Placed(readq, writeq, actq, otherq, pending, answered, n)
  BY DEF IInv, PlacedIn
<1>2. sent' \in Nat /\ refreshed' \in Nat /\ sent' + refreshed' = IF refresh THEN n + 1 ELSE n
  BY <1>1
<1>3. x \in Waiting /\ x.id = n + 1 /\ x.type = "REFRESH" /\ x.first = TRUE
  <2>1. /\ "REFRESH" \in {"READ", "WRITE", "REFRESH"} /\ WholeRank \in Address \cup {WholeRank}
        /\ 0 \in Columns \cup {0}
    OBVIOUS
  <2> HIDE DEF x
  <2> QED BY <1>1, <2>1, NewRequestFields DEF x
<1> HIDE DEF x
<1>4. y \in Request /\ y.id = n + 1 /\ y.forwarded = TRUE
  BY <1>3 DEF Waiting, Request
<1>5. Arrives(x, y, n)
  BY <1>3, <1>4 DEF Arrives
<1> HIDE DEF n, y
<1>6. CASE refresh
  <2>1. Placed(readq, writeq, actq, otherq \cup {x}, pending, answered, n + 1)
    BY <1>1, <1>3, <1>5, ArrivedCount
  <2> QED BY <1>1, <1>2, <1>6, <2>1 DEF PlacedIn, x
<1>7. CASE ~refresh
  <2>1. otherq \cup {} = otherq
    OBVIOUS
  <2> QED BY <1>1, <1>2, <1>7, <2>1 DEF PlacedIn
<1> QED BY <1>6, <1>7

\* The first pending read, if it is due, is answered.
LEMMA AnswerPlaces ==
  ASSUME NEW others, NEW n \in Nat, PlacedIn(others, pending, answered, n),
         NEW answer \in BOOLEAN, answer => pending # <<>>,
         NEW reads, reads = IF answer THEN Tail(pending) ELSE pending,
         NEW done, done = IF answer THEN answered \cup {Head(pending).id} ELSE answered,
         NEW left, left = IF answer THEN Leaves(Head(pending)) ELSE 0
  PROVE  /\ PlacedIn(others, reads, done, n)
         /\ Serving(reads) \in Nat /\ Serving(reads) = Serving(pending) - left
<1>1. Serving(pending) \in Nat
  BY CountIsNatural DEF PlacedIn, Serving
<1>2. CASE answer
  <2>1. /\ Placed(readq, writeq, actq, others, reads, done, n)
        /\ Counts(readq, writeq, actq, pending, readq, writeq, actq, reads, 0, left)
    BY <1>2, AnsweredCount DEF PlacedIn, Leaves
  <2>2. Serving(reads) \in Nat
    BY <2>1, CountIsNatural DEF Serving
  <2>3. Serving(reads) = Serving(pending) + 0 - left
    BY <2>1 DEF Counts, Serving
  <2>4. left \in Int
    BY <1>2 DEF Leaves
  <2> QED BY <1>1, <2>1, <2>2, <2>3, <2>4 DEF PlacedIn
<1>3. CASE ~answer
  BY <1>1, <1>3
<1> QED BY <1>2, <1>3

\* A request is served.
LEMMA ServePlaces ==
  ASSUME NEW others, NEW n \in Nat, NEW reads, NEW done, PlacedIn(others, reads, done, n),
         NEW mode, NEW ready, NEW left,
         NEW chosen \in readq \cup writeq \cup actq \cup others,
         Serve(mode, chosen, others, reads, left, ready),
         serving - left = Serving(reads)
  PROVE  /\ Placed(readq', writeq', actq', otherq', pending', done, n)
         /\ serving' = InService(readq', writeq', actq', pending')
<1> DEFINE b == Begins(chosen)
<1>1. PICK cmd \in {get_first_cmd(b)} :
        LET finished == cmd = translate(b.type)
            opens == HasActq /\ ~finished /\ cmd \in Table[Std].opening
            moved(q) == IF chosen \notin q THEN q
                          ELSE Without(q, chosen) \cup (IF opens \/ finished THEN {} ELSE {b})
        IN  /\ readq' = moved(readq) /\ writeq' = moved(writeq) /\ otherq' = moved(others)
            /\ actq' = moved(actq) \cup (IF opens THEN {b} ELSE {})
            /\ pending' = IF finished /\ b.type \in {"READ", "EXTENSION"}
                            THEN Append(reads, b) ELSE reads
            /\ serving' = serving - left
                            + (IF chosen.first /\ chosen.type \in {"READ", "WRITE"} THEN 1 ELSE 0)
                            - (IF finished /\ chosen.type = "WRITE" THEN 1 ELSE 0)
  BY DEF Serve, Begins
<1> DEFINE finished == cmd = translate(b.type)
           opens == HasActq /\ ~finished /\ cmd \in Table[Std].opening
<1>2. finished \in BOOLEAN /\ opens \in BOOLEAN /\ ~(finished /\ opens)
  OBVIOUS
<1>3. /\ readq' = Moved(readq, chosen, b, opens \/ finished)
      /\ writeq' = Moved(writeq, chosen, b, opens \/ finished)
      /\ otherq' = Moved(others, chosen, b, opens \/ finished)
      /\ actq' = Moved(actq, chosen, b, opens \/ finished) \cup (IF opens THEN {b} ELSE {})
  BY <1>1 DEF Moved, Without, Without
<1>4. pending' = IF finished /\ b.type \in {"READ", "EXTENSION"} THEN Append(reads, b) ELSE reads
  BY <1>1
<1> DEFINE plus == IF chosen.first /\ chosen.type \in {"READ", "WRITE"} THEN 1 ELSE 0
           minus == IF finished /\ chosen.type = "WRITE" THEN 1 ELSE 0
<1>5. serving' = serving - left + plus - minus
  BY <1>1
<1>6. chosen \in Waiting
  BY DEF PlacedIn, Placed, WellFormed
<1> HIDE DEF finished, opens, b
<1>7. /\ b \in Waiting /\ b.id = chosen.id /\ b.first = FALSE
      /\ b.type = chosen.type \/ (chosen.type = "READ" /\ b.type = "EXTENSION")
  BY <1>6, BegunFields DEF b, Waiting, Request
<1>8. ServedBy(readq, writeq, actq, others, reads, chosen, b, finished, opens,
               readq', writeq', actq', otherq', pending')
  BY <1>2, <1>3, <1>4, <1>7 DEF ServedBy
<1>9. /\ Placed(readq', writeq', actq', otherq', pending', done, n)
      /\ Counts(readq, writeq, actq, reads, readq', writeq', actq', pending', plus, minus)
  BY <1>8, ServingCounts DEF PlacedIn
<1> QED BY <1>5, <1>9 DEF Counts, Serving

LEMMA TickPlaces ==
  ASSUME IInv, Tick
  PROVE  IInv'
<1>0. PICK needs \in {Needs(Requests)} :
        \E due, refresh \in BOOLEAN, ready \in SUBSET Wanted(needs) :
          /\ refresh => refreshed < MaxRefreshes /\ sent + refreshed < MaxEvents
          /\ due => pending # <<>>
          /\ tick(due, refresh, needs, ready)
  BY Zenon DEF Tick
<1>1. PICK due \in BOOLEAN, refresh \in BOOLEAN, ready \in SUBSET Wanted(needs) :
        tick(due, refresh, needs, ready)
  BY <1>0
<1> DEFINE answer == due /\ pending # <<>>
           reads == IF answer THEN Tail(pending) ELSE pending
           left == IF answer THEN Leaves(Head(pending)) ELSE 0
           done == IF answer THEN answered \cup {Head(pending).id} ELSE answered
           others == otherq \cup (IF refresh THEN {NewRequest("REFRESH", WholeRank, 0)} ELSE {})
           n == sent' + refreshed'
<1>2. /\ answered' = done
      /\ refreshed' = IF refresh THEN refreshed + 1 ELSE refreshed
      /\ sent' = sent /\ scheduler' = scheduler
  BY <1>1 DEF tick
<1>3. \/ \E chosen \in Chosen(NextMode, others, needs, ready) :
           Serve(NextMode, chosen, others, reads, left, ready)
      \/ /\ serving' = serving - left /\ pending' = reads /\ otherq' = others
         /\ readq' = readq /\ writeq' = writeq /\ actq' = actq
  BY <1>1 DEF tick
<1> HIDE DEF others
<1>4. sent' \in Nat /\ refreshed' \in Nat /\ n \in Nat /\ PlacedIn(others, pending, answered, n)
  BY <1>2, RefreshPlaces DEF others
<1>5. answer \in BOOLEAN /\ (answer => pending # <<>>)
  OBVIOUS
<1> HIDE DEF n, answer
<1>6. PlacedIn(others, reads, done, n) /\ Serving(reads) \in Nat /\ Serving(reads) = Serving(pending) - left
  BY <1>4, <1>5, AnswerPlaces
<1>7. serving = Serving(pending) /\ scheduler \in Schedulers
  BY DEF IInv
<1> HIDE DEF reads, done, left
<1>8. /\ Placed(readq', writeq', actq', otherq', pending', done, n)
      /\ serving' = InService(readq', writeq', actq', pending')
  <2>1. CASE \E chosen \in Chosen(NextMode, others, needs, ready) :
               Serve(NextMode, chosen, others, reads, left, ready)
    <3>1. PICK chosen \in Chosen(NextMode, others, needs, ready) :
            Serve(NextMode, chosen, others, reads, left, ready)
      BY <2>1
    <3>2. others \in SUBSET Request /\ readq \subseteq Request /\ writeq \subseteq Request
          /\ actq \subseteq Request
      BY <1>4 DEF PlacedIn, Placed, WellFormed, Waiting
    <3>3. chosen \in readq \cup writeq \cup actq \cup others
      BY <1>7, <3>2, ChosenIn
    <3> QED BY <1>4, <1>6, <1>7, <3>1, <3>3, ServePlaces
  <2>2. CASE /\ serving' = serving - left /\ pending' = reads /\ otherq' = others
             /\ readq' = readq /\ writeq' = writeq /\ actq' = actq
    BY <1>6, <1>7, <2>2 DEF PlacedIn, Serving
  <2> QED BY <1>3, <2>1, <2>2
<1> QED BY <1>2, <1>4, <1>7, <1>8 DEF IInv, PlacedIn, Serving, n

LEMMA StutterPlaces ==
  ASSUME IInv, UNCHANGED vars
  PROVE  IInv'
BY DEF IInv, PlacedIn, Serving, vars, nodes

\* In every reachable state each request is in one place and the count is right.
THEOREM ChannelInvariance == Spec => []IInv
<1>1. Init => IInv
  BY InitPlaced
<1>2. IInv /\ [Next]_vars => IInv'
  BY SendPlaces, TickPlaces, StutterPlaces DEF Next
<1> QED BY <1>1, <1>2, PTL DEF Spec

-----------------------------------------------------------------------------
(* What follows from the invariant.                                        *)

LEMMA PlacesDiffer ==
  ASSUME IInv
  PROVE  InOnePlace
<1> DEFINE P == Spots(readq, writeq, actq, otherq, pending, answered)
           places == <<Ids(readq), Ids(writeq), Ids(actq), Ids(otherq),
                       {pending[i].id : i \in DOMAIN pending}, answered>>
<1>1. Apart(P) /\ Distinct(pending)
  BY DEF IInv, PlacedIn, Placed, Orderly, WellFormed
<1>2. P = places
  BY DEF Spots, Ids, Ids, PendingIds
<1>3. DOMAIN places = 1 .. 6
  OBVIOUS
<1> HIDE DEF places, P
<1>4. \A i, j \in DOMAIN places : i # j => places[i] \cap places[j] = {}
  BY <1>1, <1>2, <1>3 DEF Apart
<1>5. \A i, j \in DOMAIN pending : i # j => pending[i].id # pending[j].id
  BY <1>1 DEF Distinct
<1> QED BY <1>4, <1>5 DEF InOnePlace, places

\* Both modules count alike.
LEMMA CardinalityAgrees ==
  ASSUME NEW S
  PROVE  Cardinality(S) = Cardinality(S)
BY DEF Cardinality, Cardinality, IsFiniteSet, IsFiniteSet

LEMMA CountIsRight ==
  ASSUME IInv
  PROVE  ServingCounted
<1> DEFINE B == BegunOf(readq, writeq, actq, pending)
<1>1. serving = Cardinality(B)
  BY DEF IInv, Serving, InService
<1>2. Begun = B
  <2>1. BegunPending(pending) = {pending[i].id : i \in {i \in DOMAIN pending : ~pending[i].forwarded}}
    BY DEF BegunPending
  <2>2. Ids({r \in readq \cup writeq \cup actq : ~r.first /\ r.type # "REFRESH"})
          = BegunIn(readq) \cup BegunIn(writeq) \cup BegunIn(actq)
    BY DEF Ids, BegunIn, Ids
  <2> QED BY <2>1, <2>2 DEF Begun, BegunOf
<1> HIDE DEF B
<1> QED BY <1>1, <1>2, CardinalityAgrees DEF ServingCounted

\* A request waits in one place only and a read is answered once, whatever the
\* scheduler, the row policy, the standard and its timing.
THEOREM RequestsInOnePlace == Spec => []InOnePlace
<1>1. IInv => InOnePlace
  BY PlacesDiffer
<1> QED BY <1>1, ChannelInvariance, PTL

\* cur_serving_requests is the number of requests that were begun and are not
\* finished, through moves to actq, forwarded reads and refreshes.
THEOREM ServingIsCounted == Spec => []ServingCounted
<1>1. IInv => ServingCounted
  BY CountIsRight
<1> QED BY <1>1, ChannelInvariance, PTL

-----------------------------------------------------------------------------
(***************************************************************************)
(* The bounds of the read and the write queue.                             *)
(***************************************************************************)
\* The queue q holds requests of the types Kind only, and at most QueueMax.
Bounded(q, Kind) ==
  /\ IsFiniteSet(q) /\ Cardinality(q) <= QueueMax
  /\ \A r \in q : r.type \in Kind

ReadKind == {"READ", "EXTENSION"}
BInv == Bounded(readq, ReadKind) /\ Bounded(writeq, {"WRITE"})

LEMMA BoundedAfterEnqueue ==
  ASSUME NEW q, NEW Kind, Bounded(q, Kind), Cardinality(q) # QueueMax, NEW x, x.type \in Kind
  PROVE  Bounded(q \cup {x}, Kind)
<1>1. /\ Cardinality(q) \in Nat /\ IsFiniteSet(q \cup {x})
      /\ Cardinality(q \cup {x}) = IF x \in q THEN Cardinality(q) ELSE Cardinality(q) + 1
  BY FS_CardinalityType, FS_AddElement DEF Bounded
<1>2. QueueMax \in Nat /\ Cardinality(q) <= QueueMax
  BY WatermarkAssumption DEF Bounded
<1>3. Cardinality(q \cup {x}) <= QueueMax
  BY <1>1, <1>2
<1> QED BY <1>1, <1>3 DEF Bounded

LEMMA BoundedAfterServe ==
  ASSUME NEW q, NEW Kind, Bounded(q, Kind), NEW c, NEW b, c \in q => b.type \in Kind,
         NEW leaves, NEW m, m = Moved(q, c, b, leaves)
  PROVE  Bounded(m, Kind)
<1>1. CASE c \notin q
  BY <1>1 DEF Moved
<1>2. CASE c \in q
  <2> DEFINE rest == q \ {c}
             some == Without(q, c)
  <2>1. m = some \cup (IF leaves THEN {} ELSE {b})
    BY <1>2 DEF Moved
  <2>2. some \subseteq rest /\ some \subseteq q
    BY DEF Without
  <2>3. /\ Cardinality(q) \in Nat /\ IsFiniteSet(rest)
        /\ Cardinality(rest) = Cardinality(q) - 1
    BY <1>2, FS_CardinalityType, FS_RemoveElement DEF Bounded
  <2> HIDE DEF rest, some
  <2>4. IsFiniteSet(some) /\ Cardinality(some) <= Cardinality(rest) /\ Cardinality(some) \in Nat
    BY <2>2, <2>3, FS_Subset, FS_CardinalityType
  <2>5. /\ IsFiniteSet(some \cup {b})
        /\ Cardinality(some \cup {b}) = IF b \in some THEN Cardinality(some) ELSE Cardinality(some) + 1
    BY <2>4, FS_AddElement
  <2>6. m = some \/ m = some \cup {b}
    BY <2>1
  <2>7. IsFiniteSet(m) /\ Cardinality(m) <= Cardinality(q)
    BY <2>3, <2>4, <2>5, <2>6
  <2>8. QueueMax \in Nat /\ Cardinality(q) <= QueueMax
    BY WatermarkAssumption DEF Bounded
  <2>9. Cardinality(m) \in Nat
    BY <2>7, FS_CardinalityType
  <2>10. Cardinality(m) <= QueueMax
    BY <2>3, <2>7, <2>8, <2>9
  <2>11. \A r \in m : r.type \in Kind
    BY <1>2, <2>2, <2>6 DEF Bounded
  <2> QED BY <2>7, <2>10, <2>11 DEF Bounded
<1> QED BY <1>1, <1>2

LEMMA InitBounded ==
  ASSUME Init
  PROVE  BInv
BY FS_EmptySet, WatermarkAssumption DEF Init, BInv, Bounded

LEMMA SendBounded ==
  ASSUME IInv, BInv, Send
  PROVE  BInv'
<1>1. PICK type \in {"READ", "WRITE"}, a \in Address, col \in Columns :
        enqueue(NewRequest(type, a, col))
  BY DEF Send
<1> DEFINE x == NewRequest(type, a, col)
<1>2. x.type = type
  BY NewRequestFields DEF IInv
<1>3. \/ x.type = "WRITE" /\ Cardinality(writeq) # QueueMax /\ writeq' = writeq \cup {x} /\ readq' = readq
      \/ x.type = "READ" /\ Cardinality(readq) # QueueMax /\ readq' = readq \cup {x} /\ writeq' = writeq
      \/ readq' = readq /\ writeq' = writeq
  BY <1>1 DEF enqueue
<1> HIDE DEF x
<1>4. \/ Bounded(writeq \cup {x}, {"WRITE"}) /\ writeq' = writeq \cup {x} /\ readq' = readq
      \/ Bounded(readq \cup {x}, ReadKind) /\ readq' = readq \cup {x} /\ writeq' = writeq
      \/ readq' = readq /\ writeq' = writeq
  BY <1>3, BoundedAfterEnqueue DEF BInv, ReadKind
<1> QED BY <1>4 DEF BInv

\* A served request of a queue stays of the queue's kind.
LEMMA ServeBounded ==
  ASSUME BInv, readq \subseteq Waiting, writeq \subseteq Waiting,
         NEW others, NEW reads, NEW mode, NEW ready, NEW left, NEW chosen,
         Serve(mode, chosen, others, reads, left, ready)
  PROVE  BInv'
<1> DEFINE b == Begins(chosen)
<1>1. \E leaves : /\ readq' = Moved(readq, chosen, b, leaves)
                  /\ writeq' = Moved(writeq, chosen, b, leaves)
  <2>1. PICK cmd \in {get_first_cmd(b)} :
          LET finished == cmd = translate(b.type)
              opens == HasActq /\ ~finished /\ cmd \in Table[Std].opening
              moved(q) == IF chosen \notin q THEN q
                            ELSE Without(q, chosen) \cup (IF opens \/ finished THEN {} ELSE {b})
          IN  readq' = moved(readq) /\ writeq' = moved(writeq)
    BY DEF Serve, Begins
  <2> DEFINE leaves == (HasActq /\ ~(cmd = translate(b.type)) /\ cmd \in Table[Std].opening)
                         \/ cmd = translate(b.type)
  <2>2. /\ readq' = Moved(readq, chosen, b, leaves)
        /\ writeq' = Moved(writeq, chosen, b, leaves)
    BY <2>1 DEF Moved, Without, Without
  <2> QED BY <2>2
<1>2. chosen \in readq => b.type \in ReadKind
  BY BegunFields DEF BInv, Bounded, ReadKind
<1>3. chosen \in writeq => b.type \in {"WRITE"}
  BY BegunFields DEF BInv, Bounded
<1> HIDE DEF b
<1>4. PICK leaves : /\ readq' = Moved(readq, chosen, b, leaves)
                    /\ writeq' = Moved(writeq, chosen, b, leaves)
  BY <1>1
<1>5. Bounded(readq', ReadKind)
  BY <1>2, <1>4, BoundedAfterServe DEF BInv
<1>6. Bounded(writeq', {"WRITE"})
  BY <1>3, <1>4, BoundedAfterServe DEF BInv
<1> QED BY <1>5, <1>6 DEF BInv

LEMMA TickBounded ==
  ASSUME IInv, BInv, Tick
  PROVE  BInv'
<1>1. PICK needs \in {Needs(Requests)} :
        \E due, refresh \in BOOLEAN, ready \in SUBSET Wanted(needs) :
          /\ refresh => refreshed < MaxRefreshes /\ sent + refreshed < MaxEvents
          /\ due => pending # <<>>
          /\ tick(due, refresh, needs, ready)
  BY Zenon DEF Tick
<1>2. PICK due \in BOOLEAN, refresh \in BOOLEAN, ready \in SUBSET Wanted(needs) :
        tick(due, refresh, needs, ready)
  BY <1>1
<1>3. \/ \E chosen, others, reads, left : Serve(NextMode, chosen, others, reads, left, ready)
      \/ readq' = readq /\ writeq' = writeq
  BY <1>2 DEF tick
<1>4. readq \subseteq Waiting /\ writeq \subseteq Waiting
  BY DEF IInv, PlacedIn, Placed, WellFormed
<1>5. CASE \E chosen, others, reads, left : Serve(NextMode, chosen, others, reads, left, ready)
  BY <1>4, <1>5, ServeBounded
<1>6. CASE readq' = readq /\ writeq' = writeq
  BY <1>6 DEF BInv
<1> QED BY <1>3, <1>5, <1>6

\* The read and the write queue never hold more than their max, nor requests of
\* another kind; refreshes only are in the other queue.
THEOREM QueuesKeepTheirMax == Spec => []QueuesBounded
<1>1. Init => BInv
  BY InitBounded
<1>2. IInv /\ BInv /\ [Next]_vars => BInv'
  <2>1. ASSUME BInv, UNCHANGED vars PROVE BInv'
    BY <2>1 DEF BInv, Bounded, vars
  <2> QED BY <2>1, SendBounded, TickBounded DEF Next
<1>3. IInv /\ BInv => QueuesBounded
  BY DEF IInv, PlacedIn, Placed, WellFormed, BInv, Bounded, ReadKind, QueuesBounded
<1> QED BY <1>1, <1>2, <1>3, ChannelInvariance, PTL DEF Spec

=============================================================================
