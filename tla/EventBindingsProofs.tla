------------------------- MODULE EventBindingsProofs -------------------------
(***************************************************************************)
(* Proofs about the data store and its handlers, for a pool of one worker  *)
(* and for any number of commands, polls, lost answers, messages and       *)
(* waiting events.  With two workers the handlers' updates of one array    *)
(* overlap, and what is proved here does not hold.                         *)
(***************************************************************************)
EXTENDS EventBindings, TLAPS, SequenceTheorems, FiniteSetTheorems, WellFoundedInduction

-----------------------------------------------------------------------------
(* The events, and the sequences of them. *)

SwitchEvents == [type : {"PreampSwitchCmd", "GpioSignalSetCmd", "Store", "PreampSwitchEvent"},
                 key : Channels, value : BOOLEAN]
RateEvents == [type : {"Store", "CfgMsg"}, key : Ids, value : Rates]
Requests == {"PreampSwitchRequestCmd", "UbxMsgRateRequestCmd", "ServerConnCountEvent"}
Events == SwitchEvents \cup RateEvents \cup {Request(t) : t \in Requests}

Fits(e, t, k) == e.type = t /\ e.key = k

Without(P, t, k) == \A n \in 1..Len(P) : ~Fits(P[n], t, k)

\* The event n is the last one of P that is of type t and about k.
Latest(P, n, t, k) == Fits(P[n], t, k) /\ \A m \in (n + 1)..Len(P) : ~Fits(P[m], t, k)

\* What is known of k once all of P has been handled, if it is now known to be x, is v.
Ends(P, t, k, v, x) ==
    \/ Without(P, t, k) /\ x = v
    \/ \E n \in 1..Len(P) : Latest(P, n, t, k) /\ P[n].value = v

Has(P, t) == \E n \in 1..Len(P) : P[n].type = t

LEMMA Joined ==
    ASSUME NEW P \in Seq(Events), NEW Q \in Seq(Events)
    PROVE  /\ P \o Q \in Seq(Events) /\ Len(P \o Q) = Len(P) + Len(Q)
           /\ Len(P) \in Nat /\ Len(Q) \in Nat
           /\ \A n \in 1..Len(P) : (P \o Q)[n] = P[n]
           /\ \A n \in 1..Len(Q) : (P \o Q)[Len(P) + n] = Q[n]
<1>1. /\ P \o Q \in Seq(Events) /\ Len(P \o Q) = Len(P) + Len(Q)
      /\ Len(P) \in Nat /\ Len(Q) \in Nat
      /\ \A n \in 1..(Len(P) + Len(Q)) :
            (P \o Q)[n] = IF n <= Len(P) THEN P[n] ELSE Q[n - Len(P)]
  BY ConcatProperties
<1>2. ASSUME NEW n \in 1..Len(P) PROVE (P \o Q)[n] = P[n]
  <2>1. n \in 1..(Len(P) + Len(Q)) /\ n <= Len(P) BY <1>1
  <2> QED BY <2>1, <1>1
<1>3. ASSUME NEW n \in 1..Len(Q) PROVE (P \o Q)[Len(P) + n] = Q[n]
  <2>1. /\ Len(P) + n \in 1..(Len(P) + Len(Q)) /\ ~(Len(P) + n <= Len(P))
        /\ (Len(P) + n) - Len(P) = n
    BY <1>1
  <2> QED BY <2>1, <1>1
<1> QED BY <1>1, <1>2, <1>3

\* A place of P \o Q is one of P or one of Q.
LEMMA Places ==
    ASSUME NEW p \in Nat, NEW q \in Nat, NEW n \in 1..(p + q)
    PROVE  n \in 1..p \/ \E m \in 1..q : n = p + m
<1>1. CASE n <= p BY <1>1
<1>2. CASE n > p
  <2>1. n - p \in 1..q /\ n = p + (n - p) BY <1>2
  <2> QED BY <2>1
<1> QED BY <1>1, <1>2

LEMMA JoinedHas ==
    ASSUME NEW P \in Seq(Events), NEW Q \in Seq(Events), NEW t
    PROVE  Has(P \o Q, t) <=> Has(P, t) \/ Has(Q, t)
<1> DEFINE p == Len(P)
           q == Len(Q)
           R == P \o Q
<1>1. /\ Len(R) = p + q /\ p \in Nat /\ q \in Nat
      /\ \A n \in 1..p : R[n] = P[n]
      /\ \A n \in 1..q : R[p + n] = Q[n]
  BY Joined
<1>2. Has(P, t) <=> \E n \in 1..p : P[n].type = t BY DEF Has
<1>3. Has(Q, t) <=> \E n \in 1..q : Q[n].type = t BY DEF Has
<1>4. Has(R, t) <=> \E n \in 1..(p + q) : R[n].type = t BY <1>1 DEF Has
<1> HIDE DEF p, q, R
<1>5. ASSUME NEW n \in 1..(p + q), R[n].type = t PROVE Has(P, t) \/ Has(Q, t)
  <2>1. n \in 1..p \/ \E m \in 1..q : n = p + m BY <1>1, Places
  <2> QED BY <2>1, <1>1, <1>2, <1>3, <1>5
<1>6. ASSUME NEW n \in 1..p, P[n].type = t PROVE Has(R, t)
  <2>1. n \in 1..(p + q) /\ R[n] = P[n] BY <1>1
  <2> QED BY <2>1, <1>4, <1>6
<1>7. ASSUME NEW n \in 1..q, Q[n].type = t PROVE Has(R, t)
  <2>1. p + n \in 1..(p + q) /\ R[p + n] = Q[n] BY <1>1
  <2> QED BY <2>1, <1>4, <1>7
<1> QED BY <1>2, <1>3, <1>4, <1>5, <1>6, <1>7 DEF R

LEMMA JoinedWithout ==
    ASSUME NEW P \in Seq(Events), NEW Q \in Seq(Events), NEW t, NEW k
    PROVE  Without(P \o Q, t, k) <=> Without(P, t, k) /\ Without(Q, t, k)
<1> DEFINE p == Len(P)
           q == Len(Q)
           R == P \o Q
<1>1. /\ Len(R) = p + q /\ p \in Nat /\ q \in Nat
      /\ \A n \in 1..p : R[n] = P[n]
      /\ \A n \in 1..q : R[p + n] = Q[n]
  BY Joined
<1>2. Without(P, t, k) <=> \A n \in 1..p : ~Fits(P[n], t, k) BY DEF Without
<1>3. Without(Q, t, k) <=> \A n \in 1..q : ~Fits(Q[n], t, k) BY DEF Without
<1>4. Without(R, t, k) <=> \A n \in 1..(p + q) : ~Fits(R[n], t, k) BY <1>1 DEF Without
<1> HIDE DEF p, q, R
<1>5. ASSUME NEW n \in 1..(p + q), Fits(R[n], t, k), Without(P, t, k), Without(Q, t, k) PROVE FALSE
  <2>1. n \in 1..p \/ \E m \in 1..q : n = p + m BY <1>1, Places
  <2> QED BY <2>1, <1>1, <1>2, <1>3, <1>5
<1>6. ASSUME NEW n \in 1..p, Fits(P[n], t, k) PROVE ~Without(R, t, k)
  <2>1. n \in 1..(p + q) /\ R[n] = P[n] BY <1>1
  <2> QED BY <2>1, <1>4, <1>6
<1>7. ASSUME NEW n \in 1..q, Fits(Q[n], t, k) PROVE ~Without(R, t, k)
  <2>1. p + n \in 1..(p + q) /\ R[p + n] = Q[n] BY <1>1
  <2> QED BY <2>1, <1>4, <1>7
<1> QED BY <1>2, <1>3, <1>4, <1>5, <1>6, <1>7 DEF R

\* The last fitting event of P \o Q is that of Q, or that of P if Q has none.
LEMMA JoinedLatest ==
    ASSUME NEW P \in Seq(Events), NEW Q \in Seq(Events), NEW t, NEW k
    PROVE  /\ \A n \in 1..Len(Q) : Latest(P \o Q, Len(P) + n, t, k) <=> Latest(Q, n, t, k)
           /\ \A n \in 1..Len(P) :
                 Latest(P \o Q, n, t, k) <=> Latest(P, n, t, k) /\ Without(Q, t, k)
<1> DEFINE p == Len(P)
           q == Len(Q)
           R == P \o Q
<1>1. /\ Len(R) = p + q /\ p \in Nat /\ q \in Nat
      /\ \A n \in 1..p : R[n] = P[n]
      /\ \A n \in 1..q : R[p + n] = Q[n]
  BY Joined
<1>2. \A n : Latest(P, n, t, k) <=> Fits(P[n], t, k) /\ \A m \in (n + 1)..p : ~Fits(P[m], t, k)
  BY DEF Latest
<1>3. \A n : Latest(Q, n, t, k) <=> Fits(Q[n], t, k) /\ \A m \in (n + 1)..q : ~Fits(Q[m], t, k)
  BY DEF Latest
<1>4. \A n : Latest(R, n, t, k) <=>
          Fits(R[n], t, k) /\ \A m \in (n + 1)..(p + q) : ~Fits(R[m], t, k)
  BY <1>1 DEF Latest
<1>5. Without(Q, t, k) <=> \A n \in 1..q : ~Fits(Q[n], t, k) BY DEF Without
<1> HIDE DEF p, q, R
<1>6. ASSUME NEW n \in 1..q PROVE Latest(R, p + n, t, k) <=> Latest(Q, n, t, k)
  <2>1. R[p + n] = Q[n] BY <1>1
  <2>2. ASSUME NEW m \in (n + 1)..q, Fits(Q[m], t, k) PROVE ~Latest(R, p + n, t, k)
    <3>1. m \in 1..q /\ p + m \in ((p + n) + 1)..(p + q) BY <1>1
    <3>2. R[p + m] = Q[m] BY <3>1, <1>1
    <3> QED BY <3>1, <3>2, <2>2, <1>4
  <2>3. ASSUME NEW m \in ((p + n) + 1)..(p + q), Fits(R[m], t, k) PROVE ~Latest(Q, n, t, k)
    <3>1. m - p \in (n + 1)..q /\ m - p \in 1..q /\ p + (m - p) = m BY <1>1
    <3>2. R[m] = Q[m - p] BY <3>1, <1>1
    <3> QED BY <3>1, <3>2, <2>3, <1>3
  <2> QED BY <2>1, <2>2, <2>3, <1>3, <1>4
<1>7. ASSUME NEW n \in 1..p
      PROVE  Latest(R, n, t, k) <=> Latest(P, n, t, k) /\ Without(Q, t, k)
  <2>1. R[n] = P[n] BY <1>1
  <2>2. ASSUME NEW m \in (n + 1)..p, Fits(P[m], t, k) PROVE ~Latest(R, n, t, k)
    <3>1. m \in 1..p /\ m \in (n + 1)..(p + q) BY <1>1
    <3>2. R[m] = P[m] BY <3>1, <1>1
    <3> QED BY <3>1, <3>2, <2>2, <1>4
  <2>3. ASSUME NEW m \in 1..q, Fits(Q[m], t, k) PROVE ~Latest(R, n, t, k)
    <3>1. p + m \in (n + 1)..(p + q) BY <1>1
    <3>2. R[p + m] = Q[m] BY <1>1
    <3> QED BY <3>1, <3>2, <2>3, <1>4
  <2>4. ASSUME NEW m \in (n + 1)..(p + q), Fits(R[m], t, k)
        PROVE  ~(Latest(P, n, t, k) /\ Without(Q, t, k))
    <3>1. m \in 1..(p + q) BY <1>1
    <3>2. m \in 1..p \/ \E j \in 1..q : m = p + j BY <3>1, <1>1, Places
    <3>3. CASE m \in 1..p
      <4>1. m \in (n + 1)..p BY <3>3
      <4>2. R[m] = P[m] BY <3>3, <1>1
      <4> QED BY <4>1, <4>2, <2>4, <1>2
    <3>4. CASE \E j \in 1..q : m = p + j BY <3>4, <2>4, <1>1, <1>5
    <3> QED BY <3>2, <3>3, <3>4
  <2> QED BY <2>1, <2>2, <2>3, <2>4, <1>2, <1>4, <1>5
<1> QED BY <1>6, <1>7 DEF p, q, R
\* The largest of some numbers up to a bound, which stands for an induction.
LEMMA LargestNumber ==
    ASSUME NEW l \in Nat, NEW S \in SUBSET (1..l), S # {}
    PROVE  \E n \in S : \A m \in (n + 1)..l : m \notin S
<1> DEFINE T == {l - n : n \in S}
<1>1. IsWellFoundedOn(OpToRel(<, Nat), Nat) BY NatLessThanWellFounded
<1>2. T \subseteq Nat /\ T # {}
  <2>1. \A n \in S : n \in 1..l OBVIOUS
  <2>2. \A n \in 1..l : l - n \in Nat OBVIOUS
  <2>3. PICK n \in S : TRUE OBVIOUS
  <2>4. l - n \in T BY <2>3
  <2> QED BY <2>1, <2>2, <2>4
<1>3. PICK k \in T : \A m \in T : ~(<<m, k>> \in OpToRel(<, Nat))
  <2> HIDE DEF T, OpToRel
  <2> QED BY <1>1, <1>2, WFMin
<1>4. \A m \in T : ~(m < k) BY <1>2, <1>3 DEF OpToRel
<1>5. PICK n \in S : k = l - n OBVIOUS
<1>6. ASSUME NEW m \in (n + 1)..l, m \in S PROVE FALSE
  <2>1. l - m \in T BY <1>6
  <2>2. n \in 1..l BY <1>5
  <2> HIDE DEF T
  <2>3. l - m < l - n BY <1>6, <2>2
  <2> QED BY <2>1, <2>3, <1>4, <1>5
<1> QED BY <1>6

LEMMA LastOne ==
    ASSUME NEW P \in Seq(Events), NEW t, NEW k, ~Without(P, t, k)
    PROVE  \E n \in 1..Len(P) : Latest(P, n, t, k)
<1> DEFINE S == {n \in 1..Len(P) : Fits(P[n], t, k)}
<1>1. Len(P) \in Nat /\ S \in SUBSET (1..Len(P)) OBVIOUS
<1>2. S # {} BY DEF Without
<1> HIDE DEF S
<1>3. PICK n \in S : \A m \in (n + 1)..Len(P) : m \notin S BY <1>1, <1>2, LargestNumber
<1>4. n \in 1..Len(P) /\ Fits(P[n], t, k) BY <1>3 DEF S
<1>5. \A m \in (n + 1)..Len(P) : m \in 1..Len(P) BY <1>4, <1>1
<1>6. \A m \in (n + 1)..Len(P) : ~Fits(P[m], t, k) BY <1>3, <1>5 DEF S
<1> QED BY <1>4, <1>6 DEF Latest

\* First all of P is handled and then all of Q.
LEMMA EndsJoined ==
    ASSUME NEW P \in Seq(Events), NEW Q \in Seq(Events), NEW t, NEW k, NEW v, NEW x, NEW y,
           Ends(P, t, k, y, x), Ends(Q, t, k, v, y)
    PROVE  Ends(P \o Q, t, k, v, x)
<1>1. /\ Len(P \o Q) = Len(P) + Len(Q) /\ Len(P) \in Nat /\ Len(Q) \in Nat
      /\ \A n \in 1..Len(P) : (P \o Q)[n] = P[n]
      /\ \A n \in 1..Len(Q) : (P \o Q)[Len(P) + n] = Q[n]
  BY Joined
<1>2. CASE Without(Q, t, k) /\ y = v
  <2>1. CASE Without(P, t, k) /\ x = y
    BY <1>2, <2>1, JoinedWithout DEF Ends
  <2>2. CASE \E n \in 1..Len(P) : Latest(P, n, t, k) /\ P[n].value = y
    <3>1. PICK n \in 1..Len(P) : Latest(P, n, t, k) /\ P[n].value = y BY <2>2
    <3>2. Latest(P \o Q, n, t, k) BY <3>1, <1>2, JoinedLatest
    <3>3. n \in 1..Len(P \o Q) /\ (P \o Q)[n].value = v BY <3>1, <1>1, <1>2
    <3> QED BY <3>2, <3>3 DEF Ends
  <2> QED BY <2>1, <2>2 DEF Ends
<1>3. CASE \E n \in 1..Len(Q) : Latest(Q, n, t, k) /\ Q[n].value = v
  <2>1. PICK n \in 1..Len(Q) : Latest(Q, n, t, k) /\ Q[n].value = v BY <1>3
  <2>2. Latest(P \o Q, Len(P) + n, t, k) BY <2>1, JoinedLatest
  <2>3. Len(P) + n \in 1..Len(P \o Q) /\ (P \o Q)[Len(P) + n].value = v BY <2>1, <1>1
  <2> QED BY <2>2, <2>3 DEF Ends
<1> QED BY <1>2, <1>3 DEF Ends

\* What is known when P has been handled and Q has not.
LEMMA EndsSplit ==
    ASSUME NEW P \in Seq(Events), NEW Q \in Seq(Events), NEW t, NEW k, NEW v, NEW x,
           Ends(P \o Q, t, k, v, x)
    PROVE  \E y : Ends(P, t, k, y, x) /\ Ends(Q, t, k, v, y)
<1>1. /\ Len(P \o Q) = Len(P) + Len(Q) /\ Len(P) \in Nat /\ Len(Q) \in Nat
      /\ \A n \in 1..Len(P) : (P \o Q)[n] = P[n]
      /\ \A n \in 1..Len(Q) : (P \o Q)[Len(P) + n] = Q[n]
  BY Joined
<1>2. CASE Without(P \o Q, t, k) /\ x = v
  <2>1. Ends(P, t, k, x, x) /\ Ends(Q, t, k, v, x) BY <1>2, JoinedWithout DEF Ends
  <2> QED BY <2>1
<1>3. ASSUME NEW n \in 1..Len(P), Latest(P \o Q, n, t, k), (P \o Q)[n].value = v
      PROVE  \E y : Ends(P, t, k, y, x) /\ Ends(Q, t, k, v, y)
  <2>1. Latest(P, n, t, k) /\ Without(Q, t, k) BY <1>3, JoinedLatest
  <2>2. P[n].value = v BY <1>3, <1>1
  <2>3. Ends(P, t, k, v, x) BY <2>1, <2>2 DEF Ends
  <2>4. Ends(Q, t, k, v, v) BY <2>1 DEF Ends
  <2> QED BY <2>3, <2>4
<1>4. ASSUME NEW n \in 1..Len(Q), Latest(P \o Q, Len(P) + n, t, k), (P \o Q)[Len(P) + n].value = v
      PROVE  \E y : Ends(P, t, k, y, x) /\ Ends(Q, t, k, v, y)
  <2>1. Latest(Q, n, t, k) BY <1>4, JoinedLatest
  <2>2. Q[n].value = v BY <1>4, <1>1
  <2>3. \A y : Ends(Q, t, k, v, y) BY <2>1, <2>2 DEF Ends
  <2>4. \E y : Ends(P, t, k, y, x)
    <3>1. CASE Without(P, t, k)
      <4>1. Ends(P, t, k, x, x) BY <3>1 DEF Ends
      <4> QED BY <4>1
    <3>2. CASE ~Without(P, t, k)
      <4>1. \E m \in 1..Len(P) : Latest(P, m, t, k) BY <3>2, <1>1, LastOne
      <4>2. PICK m \in 1..Len(P) : Latest(P, m, t, k) BY <4>1
      <4>3. Ends(P, t, k, P[m].value, x) BY <4>2 DEF Ends
      <4> QED BY <4>3
    <3> QED BY <3>1, <3>2
  <2> QED BY <2>3, <2>4
<1>5. CASE \E n \in 1..Len(P \o Q) : Latest(P \o Q, n, t, k) /\ (P \o Q)[n].value = v
  <2>1. PICK n \in 1..Len(P \o Q) : Latest(P \o Q, n, t, k) /\ (P \o Q)[n].value = v BY <1>5
  <2>2. n \in 1..Len(P) \/ \E m \in 1..Len(Q) : n = Len(P) + m
    <3>1. n \in 1..(Len(P) + Len(Q)) BY <2>1, <1>1
    <3> QED BY <3>1, <1>1, Places
  <2> QED BY <2>1, <2>2, <1>3, <1>4
<1> QED BY <1>2, <1>5 DEF Ends

\* Q settles what is known of k, whatever was known before.
LEMMA EndsLate ==
    ASSUME NEW P \in Seq(Events), NEW Q \in Seq(Events), NEW t, NEW k,
           NEW n \in 1..Len(Q), Latest(Q, n, t, k)
    PROVE  \A x : Ends(P \o Q, t, k, Q[n].value, x)
<1>1. /\ Len(P \o Q) = Len(P) + Len(Q) /\ Len(P) \in Nat /\ Len(Q) \in Nat
      /\ (P \o Q)[Len(P) + n] = Q[n]
  BY Joined
<1>2. Latest(P \o Q, Len(P) + n, t, k) BY JoinedLatest
<1>3. Len(P) + n \in 1..Len(P \o Q) BY <1>1
<1> QED BY <1>1, <1>2, <1>3 DEF Ends

\* One event.
LEMMA EndsOne ==
    ASSUME NEW e \in Events, NEW t, NEW k, NEW v, NEW x
    PROVE  Ends(<<e>>, t, k, v, x) <=> v = IF Fits(e, t, k) THEN e.value ELSE x
<1>1. Len(<<e>>) = 1 /\ <<e>>[1] = e /\ 1..1 = {1} OBVIOUS
<1>2. Latest(<<e>>, 1, t, k) <=> Fits(e, t, k)
  <2>1. (1 + 1)..Len(<<e>>) = {} BY <1>1
  <2> QED BY <1>1, <2>1 DEF Latest
<1>3. Without(<<e>>, t, k) <=> ~Fits(e, t, k) BY <1>1 DEF Without
<1> QED BY <1>1, <1>2, <1>3 DEF Ends

\* The first event is handled.
LEMMA EndsTaken ==
    ASSUME NEW e \in Events, NEW Q \in Seq(Events), NEW t, NEW k, NEW v, NEW x,
           Ends(<<e>> \o Q, t, k, v, x)
    PROVE  Ends(Q, t, k, v, IF Fits(e, t, k) THEN e.value ELSE x)
<1>1. <<e>> \in Seq(Events) OBVIOUS
<1>2. PICK y : Ends(<<e>>, t, k, y, x) /\ Ends(Q, t, k, v, y) BY <1>1, EndsSplit
<1> QED BY <1>2, EndsOne

\* An event of another type or about something else comes in between.
LEMMA EndsInserted ==
    ASSUME NEW P \in Seq(Events), NEW Q \in Seq(Events), NEW e \in Events,
           NEW t, NEW k, NEW v, NEW x, Ends(P \o Q, t, k, v, x), ~Fits(e, t, k)
    PROVE  Ends((P \o <<e>>) \o Q, t, k, v, x)
<1>1. <<e>> \in Seq(Events) /\ P \o <<e>> \in Seq(Events) BY Joined
<1>2. PICK y : Ends(P, t, k, y, x) /\ Ends(Q, t, k, v, y) BY EndsSplit
<1>3. Ends(<<e>>, t, k, y, y) BY EndsOne
<1>4. Ends(P \o <<e>>, t, k, y, x) BY <1>1, <1>2, <1>3, EndsJoined
<1> QED BY <1>1, <1>2, <1>4, EndsJoined

-----------------------------------------------------------------------------
(* The invariants. *)

Arrays == [Channels -> [channel : Channels, state : BOOLEAN]]
Maps == UNION {[known -> Rates] : known \in SUBSET Ids}

Works == [pc : {"idle", "taken", "copied", "publishing"}, job : Events \cup {Request(None)},
          copy : {None} \cup Arrays \cup Maps, out : Seq(Events)]

BindingsTypeOK ==
    /\ queue \in Seq(Events)
    /\ work \in [Workers -> Works]
    /\ pins \in [Channels -> BOOLEAN]
    /\ preamps \in {None} \cup Arrays
    /\ rates \in {None} \cup Maps
    /\ polled \in [Ids -> Nat]
    /\ task \in {"waiting", "ended"}
    /\ client \in [state : {"away", "connected", "asked"},
                   told : [Channels \cup Ids -> {None} \cup BOOLEAN \cup Rates]]
    /\ switched \subseteq Channels
    /\ commands \in Nat /\ lost \in Nat

\* A worker has events to publish only after its handler, and what it is about to change is a
\* copy of what is stored.  Only of one worker is that so.
WorkIsSound ==
    \A w \in Workers :
        /\ work[w].pc = "idle" => work[w] = Idle
        /\ work[w].pc \in {"taken", "copied"} => work[w].job \in Events /\ work[w].out = <<>>
        /\ work[w].pc = "publishing" => work[w].out # <<>>
        /\ work[w].pc = "copied" =>
              /\ work[w].job.type = "Store"
              /\ work[w].job.key \in Channels => work[w].copy = preamps
              /\ work[w].job.key \in Ids =>
                    work[w].copy = rates \/ (work[w].copy = None /\ rates = <<>>)

StoreIsSound ==
    /\ preamps = None <=> switched = {}
    /\ \A c \in switched : preamps[c].channel = c

\* The event a worker handles, those that wait and those it is about to publish.
Held(w) == IF work[w].pc \in {"taken", "copied"} THEN <<work[w].job>> ELSE <<>>
Pending(w) == Held(w) \o (queue \o work[w].out)

Stored(c) == IF preamps = None THEN FALSE ELSE preamps[c].state

\* When all that is pending has been stored, the store says what the lines are.
LinesEnd(w) == \A c \in Channels : Ends(Pending(w), "Store", c, pins[c], Stored(c))

\* When all that is pending has been told, the client knows the states, unless they are yet to
\* be asked for.
SwitchesEnd(w) ==
    client.state # "away" /\ switched = Channels =>
        \/ Has(Pending(w), "ServerConnCountEvent") \/ Has(Pending(w), "PreampSwitchRequestCmd")
        \/ \A c \in Channels :
              Ends(Pending(w), "PreampSwitchEvent", c, preamps[c].state, client.told[c])

RatesEnd(w) ==
    client.state = "asked" =>
        \/ Has(Pending(w), "UbxMsgRateRequestCmd")
        \/ \A i \in Known : Ends(Pending(w), "CfgMsg", i, rates[i], client.told[i])

BindingsIInv ==
    /\ BindingsTypeOK /\ WorkIsSound /\ StoreIsSound
    /\ \A w \in Workers : LinesEnd(w) /\ SwitchesEnd(w) /\ RatesEnd(w)

-----------------------------------------------------------------------------
(* What a worker does, and what is pending. *)

LEMMA EventsAreTyped ==
    /\ \A c \in Channels, s \in BOOLEAN :
          /\ Event("PreampSwitchCmd", c, s) \in Events /\ Event("GpioSignalSetCmd", c, s) \in Events
          /\ Event("Store", c, s) \in Events /\ Event("PreampSwitchEvent", c, s) \in Events
    /\ \A i \in Ids, r \in Rates : Event("Store", i, r) \in Events /\ Event("CfgMsg", i, r) \in Events
    /\ \A t \in Requests : Request(t) \in Events
BY DEF Events, SwitchEvents, RateEvents, Event

\* What the type of an event says of its key and value.
LEMMA EventsByType ==
    ASSUME NEW e \in Events
    PROVE  /\ e.type \in {"PreampSwitchCmd", "GpioSignalSetCmd", "PreampSwitchEvent"} =>
                 e.key \in Channels /\ e.value \in BOOLEAN
           /\ e.type = "CfgMsg" => e.key \in Ids /\ e.value \in Rates
           /\ e.type = "Store" => \/ e.key \in Channels /\ e.value \in BOOLEAN
                                  \/ e.key \in Ids /\ e.value \in Rates
<1>1. CASE e \in SwitchEvents BY <1>1 DEF SwitchEvents
<1>2. CASE e \in RateEvents BY <1>2 DEF RateEvents
<1>3. CASE e \in {Request(t) : t \in Requests} BY <1>3 DEF Requests, Request, Event
<1> QED BY <1>1, <1>2, <1>3 DEF Events

LEMMA IdleWork == Idle \in Works /\ Idle.pc = "idle" /\ Idle.out = <<>>
BY DEF Idle, Works

LEMMA TakenWork ==
    ASSUME NEW e \in Events
    PROVE  LET r == [Idle EXCEPT !.pc = "taken", !.job = e]
           IN r \in Works /\ r.pc = "taken" /\ r.job = e /\ r.out = <<>>
<1> DEFINE r == [Idle EXCEPT !.pc = "taken", !.job = e]
<1>1. Idle \in Works /\ Idle.out = <<>> BY DEF Idle, Works
<1>2. /\ r \in [pc : {"idle", "taken", "copied", "publishing"}, job : Events \cup {Request(None)},
               copy : {None} \cup Arrays \cup Maps, out : Seq(Events)]
      /\ r.pc = "taken" /\ r.job = e /\ r.out = Idle.out
  BY <1>1 DEF Works
<1> QED BY <1>1, <1>2 DEF Works

LEMMA PublishingWork ==
    ASSUME NEW out \in Seq(Events)
    PROVE  LET r == [Idle EXCEPT !.pc = "publishing", !.out = out]
           IN r \in Works /\ r.pc = "publishing" /\ r.out = out
BY DEF Idle, Works

LEMMA CopiedWork ==
    ASSUME NEW w \in Workers, work \in [Workers -> Works], NEW copy \in {None} \cup Arrays \cup Maps,
           work' = [work EXCEPT ![w].pc = "copied", ![w].copy = copy]
    PROVE  /\ work' \in [Workers -> Works]
           /\ work'[w].pc = "copied" /\ work'[w].copy = copy
           /\ work'[w].job = work[w].job /\ work'[w].out = work[w].out
<1>1. work[w] \in Works OBVIOUS
<1> DEFINE r == [[work[w] EXCEPT !.pc = "copied"] EXCEPT !.copy = copy]
<1>2. /\ r \in Works /\ r.pc = "copied" /\ r.copy = copy
      /\ r.job = work[w].job /\ r.out = work[w].out
  BY <1>1 DEF Works
<1>3. work' = [work EXCEPT ![w] = r] OBVIOUS
<1> HIDE DEF r
<1> QED BY <1>2, <1>3

LEMMA FinishedWork ==
    ASSUME NEW w \in Workers, work \in [Workers -> Works], NEW out \in Seq(Events), Finish(w, out)
    PROVE  /\ work' \in [Workers -> Works] /\ work'[w].out = out
           /\ work'[w] = Idle \/ (work'[w].pc = "publishing" /\ out # <<>>)
<1>1. CASE out = <<>> BY <1>1, IdleWork DEF Finish
<1>2. CASE out # <<>>
  <2>1. work' = [work EXCEPT ![w] = [Idle EXCEPT !.pc = "publishing", !.out = out]]
    BY <1>2 DEF Finish
  <2> QED BY <2>1, <1>2, PublishingWork
<1> QED BY <1>1, <1>2

\* A handler is done with its event.
LEMMA FinishHandles ==
    ASSUME NEW w, Workers = {w}, BindingsTypeOK, WorkIsSound,
           work[w].pc \in {"taken", "copied"}, NEW out \in Seq(Events), Finish(w, out),
           queue' = queue
    PROVE  /\ work' \in [Workers -> Works] /\ WorkIsSound'
           /\ work[w].job \in Events
           /\ Pending(w) = <<work[w].job>> \o queue
           /\ Pending(w)' = queue \o out
<1>1. w \in Workers /\ work \in [Workers -> Works] /\ queue \in Seq(Events) BY DEF BindingsTypeOK
<1>2. work[w].job \in Events /\ work[w].out = <<>> BY <1>1 DEF WorkIsSound
<1>3. /\ work' \in [Workers -> Works] /\ work'[w].out = out
      /\ work'[w] = Idle \/ (work'[w].pc = "publishing" /\ out # <<>>)
  BY <1>1, FinishedWork
<1>4. WorkIsSound' BY <1>3, IdleWork DEF WorkIsSound
<1>5. Pending(w) = <<work[w].job>> \o queue
  <2>1. queue \o <<>> = queue BY <1>1, ConcatEmptySeq
  <2> QED BY <2>1, <1>2 DEF Pending, Held
<1>6. Pending(w)' = queue \o out
  <2>1. queue \o out \in Seq(Events) BY <1>1, Joined
  <2>2. <<>> \o (queue \o out) = queue \o out BY <2>1, ConcatEmptySeq
  <2>3. Held(w)' = <<>> BY <1>3, IdleWork DEF Held
  <2>4. Pending(w)' = <<>> \o (queue \o out) BY <2>3, <1>3 DEF Pending
  <2> QED BY <2>2, <2>4
<1> QED BY <1>2, <1>3, <1>4, <1>5, <1>6

\* An event from outside the pool comes behind what waits and before what is yet to be published.
LEMMA PublishInserts ==
    ASSUME NEW w, Workers = {w}, BindingsTypeOK, WorkIsSound, NEW e \in Events,
           Publish(<<e>>), work' = work
    PROVE  /\ queue' \in Seq(Events)
           /\ \E P, Q \in Seq(Events) :
                 Pending(w) = P \o Q /\ Pending(w)' = (P \o <<e>>) \o Q
<1>1. w \in Workers /\ work[w] \in Works /\ queue \in Seq(Events) BY DEF BindingsTypeOK
<1>2. work[w].out \in Seq(Events) BY <1>1 DEF Works
<1>3. Held(w) \in Seq(Events) BY <1>1 DEF Held, WorkIsSound
<1>4. <<e>> \in Seq(Events) OBVIOUS
<1>5. queue' = queue \o <<e>> BY DEF Publish
<1> DEFINE H == Held(w)
           O == work[w].out
<1>6. Pending(w) = H \o (queue \o O) BY DEF Pending
<1>7. Pending(w)' = H \o ((queue \o <<e>>) \o O) BY <1>5 DEF Pending, Held
<1> HIDE DEF H, O
<1>8. H \in Seq(Events) /\ O \in Seq(Events) BY <1>2, <1>3 DEF H, O
<1>9. H \o queue \in Seq(Events) /\ queue \o <<e>> \in Seq(Events) BY <1>1, <1>4, <1>8, Joined
<1>10. H \o (queue \o O) = (H \o queue) \o O BY <1>1, <1>8, ConcatAssociative, SMTT(30)
<1>11. H \o ((queue \o <<e>>) \o O) = ((H \o queue) \o <<e>>) \o O
  <2>1. H \o ((queue \o <<e>>) \o O) = (H \o (queue \o <<e>>)) \o O
    BY <1>8, <1>9, ConcatAssociative, SMTT(30)
  <2>2. H \o (queue \o <<e>>) = (H \o queue) \o <<e>> BY <1>1, <1>4, <1>8, ConcatAssociative
  <2> QED BY <2>1, <2>2
<1> QED BY <1>5, <1>6, <1>7, <1>8, <1>9, <1>10, <1>11

LEMMA TakeKeeps ==
    ASSUME NEW w, Workers = {w}, BindingsTypeOK, WorkIsSound, Take(w)
    PROVE  /\ BindingsTypeOK' /\ WorkIsSound'
           /\ Pending(w)' = Pending(w)
<1>1. /\ w \in Workers /\ work \in [Workers -> Works] /\ queue \in Seq(Events)
      /\ work[w].pc = "idle" /\ queue # <<>> /\ queue' = Tail(queue)
      /\ work' = [work EXCEPT ![w] = [Idle EXCEPT !.pc = "taken", !.job = Head(queue)]]
  BY DEF BindingsTypeOK, Take
<1>2. Head(queue) \in Events /\ Tail(queue) \in Seq(Events) /\ queue = <<Head(queue)>> \o Tail(queue)
  BY <1>1
<1>3. /\ work' \in [Workers -> Works] /\ work'[w].pc = "taken" /\ work'[w].job = Head(queue)
      /\ work'[w].out = <<>>
  BY <1>1, <1>2, TakenWork
<1>4. Pending(w) = queue
  <2>1. work[w].out = <<>> BY <1>1, IdleWork DEF WorkIsSound
  <2>2. Pending(w) = <<>> \o (queue \o <<>>) BY <2>1, <1>1 DEF Pending, Held
  <2>3. queue \o <<>> = queue /\ <<>> \o queue = queue BY <1>1, ConcatEmptySeq
  <2> QED BY <2>2, <2>3
<1>5. Pending(w)' = queue
  <2>1. Pending(w)' = <<Head(queue)>> \o (Tail(queue) \o <<>>) BY <1>1, <1>3 DEF Pending, Held
  <2>2. Tail(queue) \o <<>> = Tail(queue) BY <1>2, ConcatEmptySeq
  <2> QED BY <2>1, <2>2, <1>2
<1>6. WorkIsSound' BY <1>2, <1>3 DEF WorkIsSound
<1>7. BindingsTypeOK' BY <1>1, <1>2, <1>3 DEF BindingsTypeOK, Take
<1> QED BY <1>4, <1>5, <1>6, <1>7

LEMMA PublishNextKeeps ==
    ASSUME NEW w, Workers = {w}, BindingsTypeOK, WorkIsSound, PublishNext(w)
    PROVE  /\ BindingsTypeOK' /\ WorkIsSound'
           /\ Pending(w)' = Pending(w)
<1> DEFINE O == work[w].out
<1>1. /\ w \in Workers /\ work \in [Workers -> Works] /\ queue \in Seq(Events)
      /\ work[w].pc = "publishing" /\ queue' = queue \o <<Head(O)>> /\ Finish(w, Tail(O))
  BY DEF BindingsTypeOK, PublishNext, Publish
<1>2. O \in Seq(Events) /\ O # <<>> BY <1>1 DEF Works, WorkIsSound
<1>3. Pending(w) = <<>> \o (queue \o O) BY <1>1 DEF Pending, Held
<1> HIDE DEF O
<1>4. Head(O) \in Events /\ Tail(O) \in Seq(Events) /\ O = <<Head(O)>> \o Tail(O) BY <1>2
<1>5. /\ work' \in [Workers -> Works] /\ work'[w].out = Tail(O)
      /\ work'[w] = Idle \/ (work'[w].pc = "publishing" /\ Tail(O) # <<>>)
  BY <1>1, <1>4, FinishedWork
<1>6. Pending(w)' = <<>> \o ((queue \o <<Head(O)>>) \o Tail(O))
  <2>1. Held(w)' = <<>> BY <1>5, IdleWork DEF Held
  <2> QED BY <2>1, <1>1, <1>5 DEF Pending
<1>7. <<Head(O)>> \in Seq(Events) BY <1>4
<1>8. (queue \o <<Head(O)>>) \o Tail(O) = queue \o (<<Head(O)>> \o Tail(O))
  BY <1>1, <1>4, <1>7, ConcatAssociative
<1>9. queue' \in Seq(Events) BY <1>1, <1>7, Joined
<1>10. WorkIsSound' BY <1>5, IdleWork DEF WorkIsSound
<1>11. BindingsTypeOK' BY <1>5, <1>9 DEF BindingsTypeOK, PublishNext
<1> QED BY <1>3, <1>4, <1>6, <1>8, <1>10, <1>11

-----------------------------------------------------------------------------
(* What the pending events promise, after each kind of step. *)

\* A handler took e and will publish out.
LEMMA HandledEnds ==
    ASSUME NEW e \in Events, NEW Q \in Seq(Events), NEW out \in Seq(Events),
           NEW t, NEW k, NEW v, NEW x,
           Ends(<<e>> \o Q, t, k, v, x), Without(out, t, k)
    PROVE  Ends(Q \o out, t, k, v, IF Fits(e, t, k) THEN e.value ELSE x)
<1>1. Ends(Q, t, k, v, IF Fits(e, t, k) THEN e.value ELSE x) BY EndsTaken
<1>2. Ends(out, t, k, v, v) BY DEF Ends
<1> QED BY <1>1, <1>2, EndsJoined

LEMMA HandledHas ==
    ASSUME NEW e \in Events, NEW Q \in Seq(Events), NEW out \in Seq(Events), NEW t
    PROVE  /\ Has(<<e>> \o Q, t) /\ e.type # t => Has(Q \o out, t)
           /\ Has(out, t) => Has(Q \o out, t)
<1>1. <<e>> \in Seq(Events) OBVIOUS
<1>2. Has(<<e>>, t) => e.type = t BY DEF Has
<1> QED BY <1>1, <1>2, JoinedHas

LEMMA InsertedHas ==
    ASSUME NEW P \in Seq(Events), NEW Q \in Seq(Events), NEW e \in Events, NEW t
    PROVE  /\ Has(P \o Q, t) => Has((P \o <<e>>) \o Q, t)
           /\ Has((P \o <<e>>) \o Q, e.type)
<1>1. <<e>> \in Seq(Events) /\ P \o <<e>> \in Seq(Events) BY Joined
<1>2. Has(<<e>>, e.type)
  <2>1. Len(<<e>>) = 1 /\ <<e>>[1] = e /\ 1 \in 1..1 OBVIOUS
  <2> QED BY <2>1 DEF Has
<1>3. Has(P \o Q, t) <=> Has(P, t) \/ Has(Q, t) BY JoinedHas
<1>4. \A s : Has((P \o <<e>>) \o Q, s) <=> Has(P \o <<e>>, s) \/ Has(Q, s) BY <1>1, JoinedHas
<1>5. \A s : Has(P \o <<e>>, s) <=> Has(P, s) \/ Has(<<e>>, s) BY <1>1, JoinedHas
<1> QED BY <1>2, <1>3, <1>4, <1>5

\* The sequences a handler publishes.
LEMMA NoneOut == <<>> \in Seq(Events) /\ \A t, k : Without(<<>>, t, k)
BY DEF Without

LEMMA OneOut ==
    ASSUME NEW e \in Events
    PROVE  /\ <<e>> \in Seq(Events) /\ Has(<<e>>, e.type)
           /\ \A t, k : Without(<<e>>, t, k) <=> ~Fits(e, t, k)
           /\ \A t, k : Fits(e, t, k) => \A Q \in Seq(Events) : \A x : Ends(Q \o <<e>>, t, k, e.value, x)
<1>1. <<e>> \in Seq(Events) /\ Len(<<e>>) = 1 /\ <<e>>[1] = e /\ 1..1 = {1} /\ 1 \in 1..1 OBVIOUS
<1>2. \A t, k : Without(<<e>>, t, k) <=> ~Fits(e, t, k) BY <1>1 DEF Without
<1>3. ASSUME NEW t, NEW k, Fits(e, t, k), NEW Q \in Seq(Events), NEW x
      PROVE  Ends(Q \o <<e>>, t, k, e.value, x)
  <2>1. (1 + 1)..Len(<<e>>) = {} BY <1>1
  <2>2. Latest(<<e>>, 1, t, k) BY <1>1, <1>3, <2>1 DEF Latest
  <2>3. 1 \in 1..Len(<<e>>) BY <1>1
  <2> QED BY <1>1, <2>2, <2>3, EndsLate
<1> QED BY <1>1, <1>2, <1>3 DEF Has

\* A handler that neither stores nor tells anything and whose event is none of those that matter.
LEMMA HandledIsSound ==
    ASSUME NEW w, LinesEnd(w), SwitchesEnd(w), RatesEnd(w),
           NEW e \in Events, queue \in Seq(Events), NEW out \in Seq(Events),
           Pending(w) = <<e>> \o queue, Pending(w)' = queue \o out,
           UNCHANGED <<preamps, rates, client, switched>>
    PROVE  /\ e.type # "Store" /\ pins' = pins /\ (\A c \in Channels : Without(out, "Store", c))
                => LinesEnd(w)'
           /\ e.type \notin {"ServerConnCountEvent", "PreampSwitchRequestCmd", "PreampSwitchEvent"}
                 /\ (\A c \in Channels : Without(out, "PreampSwitchEvent", c))
                => SwitchesEnd(w)'
           /\ e.type \notin {"UbxMsgRateRequestCmd", "CfgMsg"}
                 /\ (\A i \in Known : Without(out, "CfgMsg", i))
                => RatesEnd(w)'
<1>1. ASSUME NEW t, NEW k, NEW v, NEW x, e.type # t, Without(out, t, k),
             Ends(Pending(w), t, k, v, x)
      PROVE  Ends(Pending(w)', t, k, v, x)
  <2>1. ~Fits(e, t, k) BY <1>1 DEF Fits
  <2>2. Ends(queue \o out, t, k, v, IF Fits(e, t, k) THEN e.value ELSE x) BY <1>1, HandledEnds
  <2> QED BY <2>1, <2>2
<1>2. ASSUME NEW t, e.type # t, Has(Pending(w), t) PROVE Has(Pending(w)', t)
  BY <1>2, HandledHas
<1>3. ASSUME e.type # "Store", pins' = pins, \A c \in Channels : Without(out, "Store", c)
      PROVE  LinesEnd(w)'
  BY <1>1, <1>3 DEF LinesEnd, Stored
<1>4. ASSUME e.type \notin {"ServerConnCountEvent", "PreampSwitchRequestCmd", "PreampSwitchEvent"},
             \A c \in Channels : Without(out, "PreampSwitchEvent", c)
      PROVE  SwitchesEnd(w)'
  BY <1>1, <1>2, <1>4 DEF SwitchesEnd
<1>5. ASSUME e.type \notin {"UbxMsgRateRequestCmd", "CfgMsg"},
             \A i \in Known : Without(out, "CfgMsg", i)
      PROVE  RatesEnd(w)'
  BY <1>1, <1>2, <1>5 DEF RatesEnd, Known
<1> QED BY <1>3, <1>4, <1>5

\* An event from outside that neither stores a state nor tells anything.
LEMMA InsertedIsSound ==
    ASSUME NEW w, LinesEnd(w), SwitchesEnd(w), RatesEnd(w),
           NEW e \in Events, NEW P \in Seq(Events), NEW Q \in Seq(Events),
           Pending(w) = P \o Q, Pending(w)' = (P \o <<e>>) \o Q,
           \A c \in Channels : ~Fits(e, "Store", c),
           e.type \notin {"PreampSwitchEvent", "CfgMsg"},
           UNCHANGED <<pins, preamps, rates, switched, client.told>>
    PROVE  /\ LinesEnd(w)'
           /\ client.state # "away" \/ e.type = "ServerConnCountEvent" => SwitchesEnd(w)'
           /\ client'.state = client.state \/ client'.state = "connected"
                 \/ e.type = "UbxMsgRateRequestCmd" => RatesEnd(w)'
<1>1. ASSUME NEW t, NEW k, NEW v, NEW x, ~Fits(e, t, k), Ends(Pending(w), t, k, v, x)
      PROVE  Ends(Pending(w)', t, k, v, x)
  BY <1>1, EndsInserted
<1>2. \A t : Has(Pending(w), t) => Has(Pending(w)', t) BY InsertedHas
<1>3. Has(Pending(w)', e.type) BY InsertedHas
<1>4. LinesEnd(w)' BY <1>1 DEF LinesEnd, Stored
<1>5. \A k : ~Fits(e, "PreampSwitchEvent", k) /\ ~Fits(e, "CfgMsg", k) BY DEF Fits
<1>6. ASSUME client.state # "away" \/ e.type = "ServerConnCountEvent" PROVE SwitchesEnd(w)'
  BY <1>1, <1>2, <1>3, <1>5, <1>6 DEF SwitchesEnd
<1>7. ASSUME client'.state = client.state \/ client'.state = "connected"
                \/ e.type = "UbxMsgRateRequestCmd"
      PROVE  RatesEnd(w)'
  BY <1>1, <1>2, <1>3, <1>5, <1>7 DEF RatesEnd, Known
<1> QED BY <1>4, <1>6, <1>7

LEMMA KeptIsSound ==
    ASSUME NEW w, LinesEnd(w), SwitchesEnd(w), RatesEnd(w), Pending(w)' = Pending(w),
           UNCHANGED <<pins, preamps, client, switched>>,
           Known' = Known, \A i \in Known : rates'[i] = rates[i]
    PROVE  LinesEnd(w)' /\ SwitchesEnd(w)' /\ RatesEnd(w)'
BY DEF LinesEnd, SwitchesEnd, RatesEnd, Stored

-----------------------------------------------------------------------------
(* The steps. *)

USE DEF In

\* Types of the parts a step of a worker leaves alone.
LEMMA HandlerIsSound ==
    ASSUME NEW w, Workers = {w}, BindingsTypeOK, WorkIsSound, StoreIsSound,
           work[w].pc \in {"taken", "copied"}, NEW out \in Seq(Events), Finish(w, out),
           UNCHANGED <<queue, preamps, rates, polled, task, switched, commands, lost>>,
           pins' \in [Channels -> BOOLEAN],
           client' \in [state : {"away", "connected", "asked"},
                        told : [Channels \cup Ids -> {None} \cup BOOLEAN \cup Rates]]
    PROVE  /\ BindingsTypeOK' /\ WorkIsSound' /\ StoreIsSound'
           /\ work[w].job \in Events /\ queue \in Seq(Events)
           /\ Pending(w) = <<work[w].job>> \o queue
           /\ Pending(w)' = queue \o out
<1>1. /\ work' \in [Workers -> Works] /\ WorkIsSound' /\ work[w].job \in Events
      /\ Pending(w) = <<work[w].job>> \o queue /\ Pending(w)' = queue \o out
  BY FinishHandles
<1>2. BindingsTypeOK' BY <1>1 DEF BindingsTypeOK
<1>3. StoreIsSound' BY DEF StoreIsSound
<1> QED BY <1>1, <1>2, <1>3 DEF BindingsTypeOK

LEMMA SwitchCommandStep ==
    ASSUME NEW w, Workers = {w}, BindingsIInv, SwitchCommand(w) PROVE BindingsIInv'
<1> DEFINE j == work[w].job
           e == Event("GpioSignalSetCmd", j.key, j.value)
<1>1. /\ BindingsTypeOK /\ WorkIsSound /\ StoreIsSound
      /\ LinesEnd(w) /\ SwitchesEnd(w) /\ RatesEnd(w)
  BY DEF BindingsIInv
<1>2. /\ work[w].pc = "taken" /\ j.type = "PreampSwitchCmd" /\ Finish(w, <<e>>)
      /\ UNCHANGED <<queue, pins, preamps, rates, polled, task, client, switched, commands, lost>>
  BY DEF SwitchCommand
<1>3. j \in Events BY <1>1, <1>2 DEF WorkIsSound
<1>4. e \in Events /\ e.type = "GpioSignalSetCmd"
  <2>1. j.key \in Channels /\ j.value \in BOOLEAN BY <1>2, <1>3, EventsByType
  <2> QED BY <2>1, EventsAreTyped DEF Event
<1> HIDE DEF e
<1>5. /\ <<e>> \in Seq(Events) /\ \A t, k : t # "GpioSignalSetCmd" => Without(<<e>>, t, k)
  BY <1>4, OneOut DEF Fits
<1>6. /\ BindingsTypeOK' /\ WorkIsSound' /\ StoreIsSound' /\ queue \in Seq(Events)
      /\ Pending(w) = <<j>> \o queue /\ Pending(w)' = queue \o <<e>>
  BY <1>1, <1>2, <1>5, HandlerIsSound DEF BindingsTypeOK
<1>7. LinesEnd(w)' /\ SwitchesEnd(w)' /\ RatesEnd(w)'
  BY <1>1, <1>2, <1>3, <1>5, <1>6, HandledIsSound
<1> QED BY <1>6, <1>7 DEF BindingsIInv

LEMMA SignalSetStep ==
    ASSUME NEW w, Workers = {w}, BindingsIInv, SignalSet(w) PROVE BindingsIInv'
<1> DEFINE j == work[w].job
           e == Event("Store", j.key, j.value)
<1>1. /\ BindingsTypeOK /\ WorkIsSound /\ StoreIsSound
      /\ LinesEnd(w) /\ SwitchesEnd(w) /\ RatesEnd(w)
  BY DEF BindingsIInv
<1>2. /\ work[w].pc = "taken" /\ j.type = "GpioSignalSetCmd" /\ Finish(w, <<e>>)
      /\ pins' = [pins EXCEPT ![j.key] = j.value]
      /\ UNCHANGED <<queue, preamps, rates, polled, task, client, switched, commands, lost>>
  BY DEF SignalSet
<1>3. j \in Events BY <1>1, <1>2 DEF WorkIsSound
<1>4. j.key \in Channels /\ j.value \in BOOLEAN BY <1>2, <1>3, EventsByType
<1>5. /\ e \in Events /\ e.type = "Store" /\ e.key = j.key /\ e.value = j.value
  BY <1>4, EventsAreTyped DEF Event
<1> HIDE DEF e
<1>6. /\ <<e>> \in Seq(Events) /\ \A t, k : t # "Store" \/ k # j.key => Without(<<e>>, t, k)
      /\ \A Q \in Seq(Events) : \A x : Ends(Q \o <<e>>, "Store", j.key, j.value, x)
  BY <1>5, OneOut DEF Fits
<1>7. pins' \in [Channels -> BOOLEAN] BY <1>1, <1>2, <1>4 DEF BindingsTypeOK
<1>8. /\ BindingsTypeOK' /\ WorkIsSound' /\ StoreIsSound' /\ queue \in Seq(Events)
      /\ Pending(w) = <<j>> \o queue /\ Pending(w)' = queue \o <<e>>
  BY <1>1, <1>2, <1>6, <1>7, HandlerIsSound DEF BindingsTypeOK
<1>9. SwitchesEnd(w)' /\ RatesEnd(w)' BY <1>1, <1>2, <1>3, <1>6, <1>8, HandledIsSound
<1>10. ASSUME NEW c \in Channels PROVE Ends(Pending(w)', "Store", c, pins'[c], Stored(c)')
  <2>1. CASE c = j.key
    <3>1. pins'[c] = j.value BY <2>1, <1>1, <1>2 DEF BindingsTypeOK
    <3> QED BY <2>1, <3>1, <1>6, <1>8
  <2>2. CASE c # j.key
    <3>1. pins'[c] = pins[c] BY <2>2, <1>1, <1>2 DEF BindingsTypeOK
    <3>2. Ends(<<j>> \o queue, "Store", c, pins[c], Stored(c)) BY <1>1, <1>8 DEF LinesEnd
    <3>3. Without(<<e>>, "Store", c) /\ ~Fits(j, "Store", c) BY <2>2, <1>2, <1>6 DEF Fits
    <3>4. Ends(queue \o <<e>>, "Store", c, pins[c], IF Fits(j, "Store", c) THEN j.value ELSE Stored(c))
      BY <3>2, <3>3, <1>3, <1>6, <1>8, HandledEnds
    <3>5. Stored(c)' = Stored(c) BY <1>2 DEF Stored
    <3> QED BY <3>1, <3>3, <3>4, <3>5, <1>8
  <2> QED BY <2>1, <2>2
<1>11. LinesEnd(w)' BY <1>10 DEF LinesEnd
<1> QED BY <1>8, <1>9, <1>11 DEF BindingsIInv

LEMMA SignalSetFailsStep ==
    ASSUME NEW w, Workers = {w}, BindingsIInv, SignalSetFails(w) PROVE BindingsIInv'
<1> DEFINE j == work[w].job
<1>1. /\ BindingsTypeOK /\ WorkIsSound /\ StoreIsSound
      /\ LinesEnd(w) /\ SwitchesEnd(w) /\ RatesEnd(w)
  BY DEF BindingsIInv
<1>2. /\ work[w].pc = "taken" /\ j.type = "GpioSignalSetCmd" /\ Finish(w, <<>>)
      /\ UNCHANGED <<queue, pins, preamps, rates, polled, task, client, switched, commands, lost>>
  BY DEF SignalSetFails
<1>3. j \in Events BY <1>1, <1>2 DEF WorkIsSound
<1>4. /\ BindingsTypeOK' /\ WorkIsSound' /\ StoreIsSound' /\ queue \in Seq(Events)
      /\ Pending(w) = <<j>> \o queue /\ Pending(w)' = queue \o <<>>
  BY <1>1, <1>2, NoneOut, HandlerIsSound DEF BindingsTypeOK
<1>5. LinesEnd(w)' /\ SwitchesEnd(w)' /\ RatesEnd(w)'
  BY <1>1, <1>2, <1>3, <1>4, NoneOut, HandledIsSound
<1> QED BY <1>4, <1>5 DEF BindingsIInv

LEMMA CopyStep ==
    ASSUME NEW w, Workers = {w}, BindingsIInv, CopyPreamps(w) \/ CopyRates(w) PROVE BindingsIInv'
<1> DEFINE j == work[w].job
<1>1. /\ BindingsTypeOK /\ WorkIsSound /\ StoreIsSound
      /\ LinesEnd(w) /\ SwitchesEnd(w) /\ RatesEnd(w)
  BY DEF BindingsIInv
<1>2. PICK copy \in {preamps, rates} :
         /\ work' = [work EXCEPT ![w].pc = "copied", ![w].copy = copy]
         /\ j.key \in Channels => copy = preamps
         /\ j.key \in Ids => copy = rates
  BY EventBindingsAssumption DEF CopyPreamps, CopyRates
<1>3. /\ work[w].pc = "taken" /\ j.type = "Store"
      /\ UNCHANGED <<queue, pins, preamps, rates, polled, task, client, switched, commands, lost>>
  BY DEF CopyPreamps, CopyRates
<1>4. w \in Workers /\ work \in [Workers -> Works] /\ copy \in {None} \cup Arrays \cup Maps
  BY <1>1 DEF BindingsTypeOK
<1>5. /\ work' \in [Workers -> Works]
      /\ work'[w].pc = "copied" /\ work'[w].copy = copy
      /\ work'[w].job = j /\ work'[w].out = work[w].out
  BY <1>2, <1>4, CopiedWork
<1>6. j \in Events /\ work[w].out = <<>> BY <1>1, <1>3 DEF WorkIsSound
<1>7. WorkIsSound' BY <1>2, <1>3, <1>5, <1>6 DEF WorkIsSound
<1>8. BindingsTypeOK' BY <1>1, <1>3, <1>5 DEF BindingsTypeOK
<1>9. StoreIsSound' BY <1>1, <1>3 DEF StoreIsSound
<1>10. Pending(w)' = Pending(w) BY <1>3, <1>5 DEF Pending, Held
<1>11. Known' = Known /\ \A i \in Known : rates'[i] = rates[i] BY <1>3 DEF Known
<1>12. LinesEnd(w)' /\ SwitchesEnd(w)' /\ RatesEnd(w)' BY <1>1, <1>3, <1>10, <1>11, KeptIsSound
<1> QED BY <1>7, <1>8, <1>9, <1>12 DEF BindingsIInv

LEMMA KeepStep ==
    ASSUME NEW w, Workers = {w}, BindingsIInv, Take(w) \/ PublishNext(w) PROVE BindingsIInv'
<1>1. /\ BindingsTypeOK /\ WorkIsSound /\ StoreIsSound
      /\ LinesEnd(w) /\ SwitchesEnd(w) /\ RatesEnd(w)
  BY DEF BindingsIInv
<1>2. UNCHANGED <<pins, preamps, rates, client, switched>> BY DEF Take, PublishNext
<1>3. BindingsTypeOK' /\ WorkIsSound' /\ Pending(w)' = Pending(w)
  BY <1>1, TakeKeeps, PublishNextKeeps
<1>4. StoreIsSound' BY <1>1, <1>2 DEF StoreIsSound
<1>5. Known' = Known /\ \A i \in Known : rates'[i] = rates[i] BY <1>2 DEF Known
<1>6. LinesEnd(w)' /\ SwitchesEnd(w)' /\ RatesEnd(w)' BY <1>1, <1>2, <1>3, <1>5, KeptIsSound
<1> QED BY <1>3, <1>4, <1>6 DEF BindingsIInv

LEMMA StorePreampsStep ==
    ASSUME NEW w, Workers = {w}, BindingsIInv, StorePreamps(w) PROVE BindingsIInv'
<1> DEFINE j == work[w].job
           r == Request("PreampSwitchRequestCmd")
           out == IF preamps # None THEN <<r>> ELSE <<>>
           data == IF preamps # None THEN preamps ELSE NoPreamps
<1>1. /\ BindingsTypeOK /\ WorkIsSound /\ StoreIsSound
      /\ LinesEnd(w) /\ SwitchesEnd(w) /\ RatesEnd(w)
  BY DEF BindingsIInv
<1>2. /\ work[w].pc = "copied" /\ j.type = "Store" /\ j.key \in Channels
      /\ UNCHANGED <<queue, pins, rates, polled, task, client, commands, lost>>
      /\ switched' = switched \cup {j.key}
  BY DEF StorePreamps
<1>3. j \in Events /\ work[w].copy = preamps BY <1>1, <1>2 DEF WorkIsSound
<1>4. j.value \in BOOLEAN BY <1>2, <1>3, EventsByType, EventBindingsAssumption
<1>5. preamps' = Changed(data, j.key, j.value) /\ Finish(w, out)
  BY <1>3 DEF StorePreamps
<1>6. data \in Arrays /\ None \notin Arrays
  <2>1. NoPreamps \in Arrays BY DEF NoPreamps, Arrays, Channels
  <2> QED BY <2>1, <1>1, EventBindingsAssumption DEF BindingsTypeOK, Arrays
<1>7. /\ r \in Events /\ r.type = "PreampSwitchRequestCmd"
  BY EventsAreTyped DEF Request, Event, Requests
<1> HIDE DEF r
<1>8. /\ out \in Seq(Events) /\ \A t, k : t # "PreampSwitchRequestCmd" => Without(out, t, k)
      /\ preamps # None => Has(out, "PreampSwitchRequestCmd")
  BY <1>7, OneOut, NoneOut DEF Fits
<1>9. /\ preamps' \in Arrays /\ preamps' # None
      /\ \A c \in Channels : preamps'[c] = IF c = j.key THEN [channel |-> c, state |-> j.value]
                                           ELSE data[c]
  <2>1. [channel |-> j.key, state |-> j.value] \in [channel : Channels, state : BOOLEAN]
    BY <1>2, <1>4
  <2> HIDE DEF data
  <2> QED BY <2>1, <1>2, <1>5, <1>6 DEF Changed, Arrays
<1> HIDE DEF out
<1>10. /\ work' \in [Workers -> Works] /\ WorkIsSound' /\ queue \in Seq(Events)
       /\ Pending(w) = <<j>> \o queue /\ Pending(w)' = queue \o out
  BY <1>1, <1>2, <1>5, <1>8, FinishHandles DEF BindingsTypeOK
<1>11. BindingsTypeOK' BY <1>1, <1>2, <1>9, <1>10 DEF BindingsTypeOK
<1>12. StoreIsSound'
  <2>1. ASSUME NEW c \in switched' PROVE preamps'[c].channel = c
    <3>1. c \in Channels BY <1>1, <1>2 DEF BindingsTypeOK
    <3>2. CASE c = j.key
      <4>1. preamps'[c] = [channel |-> c, state |-> j.value] BY <3>1, <3>2, <1>9
      <4> QED BY <4>1
    <3>3. CASE c # j.key
      <4>1. c \in switched BY <3>3, <1>2
      <4>2. preamps # None /\ preamps[c].channel = c BY <4>1, <1>1 DEF StoreIsSound
      <4>3. preamps'[c] = preamps[c] BY <3>1, <3>3, <4>2, <1>9
      <4> QED BY <4>2, <4>3
    <3> QED BY <3>2, <3>3
  <2> QED BY <2>1, <1>2, <1>9 DEF StoreIsSound
<1>13. ASSUME NEW t, NEW k, NEW v, NEW x, t # "Store", t # "PreampSwitchRequestCmd",
              Ends(Pending(w), t, k, v, x)
       PROVE  Ends(Pending(w)', t, k, v, x)
  <2>1. ~Fits(j, t, k) /\ Without(out, t, k) BY <1>2, <1>8, <1>13 DEF Fits
  <2>2. Ends(queue \o out, t, k, v, IF Fits(j, t, k) THEN j.value ELSE x)
    BY <2>1, <1>3, <1>8, <1>10, <1>13, HandledEnds
  <2> QED BY <2>1, <2>2, <1>10
<1>14. ASSUME NEW c \in Channels PROVE Ends(Pending(w)', "Store", c, pins'[c], Stored(c)')
  <2>1. Ends(<<j>> \o queue, "Store", c, pins[c], Stored(c)) BY <1>1, <1>10 DEF LinesEnd
  <2>2. Ends(queue \o out, "Store", c, pins[c], IF Fits(j, "Store", c) THEN j.value ELSE Stored(c))
    BY <2>1, <1>3, <1>8, <1>10, HandledEnds
  <2>3. Stored(c)' = IF Fits(j, "Store", c) THEN j.value ELSE Stored(c)
    <3>1. Stored(c)' = preamps'[c].state BY <1>9 DEF Stored
    <3>2. CASE c = j.key
      <4>1. preamps'[c] = [channel |-> c, state |-> j.value] BY <3>2, <1>9
      <4>2. Fits(j, "Store", c) BY <3>2, <1>2 DEF Fits
      <4> QED BY <3>1, <4>1, <4>2
    <3>3. CASE c # j.key
      <4>1. Stored(c) = data[c].state BY DEF Stored, NoPreamps
      <4> QED BY <3>1, <3>3, <4>1, <1>9 DEF Fits
    <3> QED BY <3>2, <3>3
  <2> QED BY <2>2, <2>3, <1>2, <1>10
<1>15. LinesEnd(w)' BY <1>14 DEF LinesEnd
<1>16. SwitchesEnd(w)'
  <2>1. CASE preamps = None
    <3>1. switched' = {j.key} BY <2>1, <1>1, <1>2 DEF StoreIsSound
    <3> QED BY <3>1 DEF SwitchesEnd, Channels
  <2>2. CASE preamps # None
    <3>1. Has(Pending(w)', "PreampSwitchRequestCmd") BY <2>2, <1>3, <1>8, <1>10, HandledHas
    <3> QED BY <3>1 DEF SwitchesEnd
  <2> QED BY <2>1, <2>2
<1>17. RatesEnd(w)'
  <2>1. Has(Pending(w), "UbxMsgRateRequestCmd") => Has(Pending(w)', "UbxMsgRateRequestCmd")
    BY <1>2, <1>3, <1>8, <1>10, HandledHas
  <2> QED BY <2>1, <1>1, <1>2, <1>13 DEF RatesEnd, Known
<1> QED BY <1>10, <1>11, <1>12, <1>15, <1>16, <1>17 DEF BindingsIInv

LEMMA MapFacts == None \notin Maps /\ <<>> \in Maps /\ DOMAIN <<>> = {}
<1>1. None \notin Maps BY EventBindingsAssumption DEF Maps
<1>2. <<>> \in [{} -> Rates]
  <2>1. <<>> = [i \in {} |-> i]
    <3>1. 1..0 = {} OBVIOUS
    <3>2. <<>> = [i \in 1..0 |-> i] OBVIOUS
    <3> QED BY <3>1, <3>2
  <2> QED BY <2>1
<1>3. {} \in SUBSET Ids OBVIOUS
<1>4. DOMAIN <<>> = {} BY <1>2
<1> QED BY <1>1, <1>2, <1>3, <1>4 DEF Maps

LEMMA StoreRatesStep ==
    ASSUME NEW w, Workers = {w}, BindingsIInv, StoreRates(w) PROVE BindingsIInv'
<1> DEFINE j == work[w].job
           i == j.key
           data == IF work[w].copy = None THEN <<>> ELSE work[w].copy
           e == Event("CfgMsg", i, j.value)
           out == IF IsNews(data, i, j.value) THEN <<e>> ELSE <<>>
<1>1. /\ BindingsTypeOK /\ WorkIsSound /\ StoreIsSound
      /\ LinesEnd(w) /\ SwitchesEnd(w) /\ RatesEnd(w)
  BY DEF BindingsIInv
<1>2. /\ work[w].pc = "copied" /\ j.type = "Store" /\ i \in Ids
      /\ rates' = [n \in DOMAIN data \cup {i} |-> IF n = i THEN j.value ELSE data[n]]
      /\ Finish(w, out)
      /\ UNCHANGED <<queue, pins, preamps, polled, task, client, switched, commands, lost>>
  BY DEF StoreRates, Announced
<1>3. j \in Events /\ (work[w].copy = rates \/ (work[w].copy = None /\ rates = <<>>))
  BY <1>1, <1>2 DEF WorkIsSound
<1>4. j.value \in Rates BY <1>2, <1>3, EventsByType, EventBindingsAssumption
<1>5. /\ data \in Maps /\ DOMAIN data = Known
      /\ \A n \in Known : data[n] = rates[n]
  BY <1>1, <1>3, MapFacts DEF BindingsTypeOK, Known
<1> HIDE DEF data
<1>6. e \in Events /\ e.type = "CfgMsg" /\ e.key = i /\ e.value = j.value
  BY <1>2, <1>4, EventsAreTyped DEF Event
<1> HIDE DEF e
<1>7. /\ out \in Seq(Events)
      /\ \A t, k : t # "CfgMsg" \/ k # i => Without(out, t, k)
      /\ IsNews(data, i, j.value) =>
            \A Q \in Seq(Events) : \A x : Ends(Q \o out, "CfgMsg", i, j.value, x)
      /\ ~IsNews(data, i, j.value) => Without(out, "CfgMsg", i)
  BY <1>6, OneOut, NoneOut DEF Fits
<1>8. /\ rates' \in Maps /\ rates' # None /\ Known' = Known \cup {i}
      /\ rates'[i] = j.value /\ \A n \in Known : n # i => rates'[n] = rates[n]
  <2>1. PICK known \in SUBSET Ids : data \in [known -> Rates] BY <1>5 DEF Maps
  <2>2. /\ rates' = [n \in known \cup {i} |-> IF n = i THEN j.value ELSE data[n]]
        /\ known = Known
    BY <2>1, <1>2, <1>5
  <2>3. rates' \in [known \cup {i} -> Rates] BY <2>1, <2>2, <1>4
  <2>4. known \cup {i} \in SUBSET Ids BY <2>1, <1>2
  <2>5. rates' \in Maps BY <2>3, <2>4 DEF Maps
  <2>6. rates' # None BY <2>5, MapFacts
  <2>7. Known' = known \cup {i} BY <2>3, <2>6 DEF Known
  <2> QED BY <2>2, <2>5, <2>6, <2>7, <1>5
<1> HIDE DEF out
<1>9. /\ work' \in [Workers -> Works] /\ WorkIsSound' /\ queue \in Seq(Events)
      /\ Pending(w) = <<j>> \o queue /\ Pending(w)' = queue \o out
  BY <1>1, <1>2, <1>7, FinishHandles DEF BindingsTypeOK
<1>10. BindingsTypeOK' BY <1>1, <1>2, <1>8, <1>9 DEF BindingsTypeOK
<1>11. StoreIsSound' BY <1>1, <1>2 DEF StoreIsSound
<1>12. ASSUME NEW t, NEW k, NEW v, NEW x, ~Fits(j, t, k), Without(out, t, k),
              Ends(Pending(w), t, k, v, x)
       PROVE  Ends(Pending(w)', t, k, v, x)
  <2>1. Ends(queue \o out, t, k, v, IF Fits(j, t, k) THEN j.value ELSE x)
    BY <1>3, <1>7, <1>9, <1>12, HandledEnds
  <2> QED BY <2>1, <1>9, <1>12
<1>13. \A t : t # "Store" /\ Has(Pending(w), t) => Has(Pending(w)', t)
  BY <1>2, <1>3, <1>7, <1>9, HandledHas
<1>14. LinesEnd(w)'
  <2>1. ASSUME NEW c \in Channels PROVE Ends(Pending(w)', "Store", c, pins[c], Stored(c))
    <3>1. ~Fits(j, "Store", c) BY <1>2, EventBindingsAssumption DEF Fits
    <3>2. Without(out, "Store", c) BY <1>7
    <3> QED BY <3>1, <3>2, <1>1, <1>12 DEF LinesEnd
  <2> QED BY <2>1, <1>2 DEF LinesEnd, Stored
<1>15. SwitchesEnd(w)'
  <2>1. \A c : ~Fits(j, "PreampSwitchEvent", c) /\ Without(out, "PreampSwitchEvent", c)
    BY <1>2, <1>7 DEF Fits
  <2> QED BY <2>1, <1>1, <1>2, <1>12, <1>13 DEF SwitchesEnd
<1>16. RatesEnd(w)'
  <2>1. SUFFICES ASSUME client.state = "asked", ~Has(Pending(w)', "UbxMsgRateRequestCmd"),
                        NEW n \in Known'
                 PROVE  Ends(Pending(w)', "CfgMsg", n, rates'[n], client.told[n])
    BY <1>2 DEF RatesEnd
  <2>2. \A m \in Known : Ends(Pending(w), "CfgMsg", m, rates[m], client.told[m])
    BY <2>1, <1>1, <1>13 DEF RatesEnd
  <2>3. ~Fits(j, "CfgMsg", n) BY <1>2 DEF Fits
  <2>4. CASE n = i /\ IsNews(data, i, j.value)
    BY <2>4, <1>7, <1>8, <1>9
  <2>5. CASE n = i /\ ~IsNews(data, i, j.value)
    <3>1. n \in Known /\ rates'[n] = rates[n] BY <2>5, <1>5, <1>8 DEF IsNews
    <3>2. Without(out, "CfgMsg", n) BY <2>5, <1>7
    <3> QED BY <3>1, <3>2, <2>2, <2>3, <1>12
  <2>6. CASE n # i
    <3>1. n \in Known /\ rates'[n] = rates[n] BY <2>1, <2>6, <1>8
    <3>2. Without(out, "CfgMsg", n) BY <2>6, <1>7
    <3> QED BY <3>1, <3>2, <2>2, <2>3, <1>12
  <2> QED BY <2>4, <2>5, <2>6
<1> QED BY <1>9, <1>10, <1>11, <1>14, <1>15, <1>16 DEF BindingsIInv

LEMMA AnswerPreampsStep ==
    ASSUME NEW w, Workers = {w}, BindingsIInv, AnswerPreamps(w) PROVE BindingsIInv'
<1> DEFINE j == work[w].job
           Told(c) == Event("PreampSwitchEvent", preamps[c].channel, preamps[c].state)
           out == IF preamps = None THEN <<>> ELSE <<Told("preamp0"), Told("preamp1")>>
<1>1. /\ BindingsTypeOK /\ WorkIsSound /\ StoreIsSound
      /\ LinesEnd(w) /\ SwitchesEnd(w) /\ RatesEnd(w)
  BY DEF BindingsIInv
<1>2. /\ work[w].pc = "taken" /\ j.type = "PreampSwitchRequestCmd" /\ Finish(w, out)
      /\ UNCHANGED <<queue, pins, preamps, rates, polled, task, client, switched, commands, lost>>
  BY DEF AnswerPreamps
<1>3. j \in Events BY <1>1, <1>2 DEF WorkIsSound
<1>4. ASSUME preamps # None, NEW c \in Channels
      PROVE  Told(c) \in Events /\ Told(c).type = "PreampSwitchEvent"
             /\ Told(c).key = preamps[c].channel /\ Told(c).value = preamps[c].state
  <2>1. preamps[c] \in [channel : Channels, state : BOOLEAN]
    BY <1>1, <1>4 DEF BindingsTypeOK, Arrays
  <2>2. preamps[c].channel \in Channels /\ preamps[c].state \in BOOLEAN BY <2>1
  <2> QED BY <2>2, EventsAreTyped DEF Event
<1>5. "preamp0" \in Channels /\ "preamp1" \in Channels BY DEF Channels
<1> HIDE DEF Told
<1>6. ASSUME preamps # None
      PROVE  /\ out \in Seq(Events) /\ Len(out) = 2 /\ out[1] = Told("preamp0") /\ out[2] = Told("preamp1")
  BY <1>4, <1>5, <1>6
<1>7. out \in Seq(Events) /\ \A t, k : t # "PreampSwitchEvent" => Without(out, t, k)
  <2>1. CASE preamps = None BY <2>1, NoneOut
  <2>2. CASE preamps # None
    <3>1. \A n \in 1..Len(out) : out[n].type = "PreampSwitchEvent"
      <4>1. 1..2 = {1, 2} OBVIOUS
      <4> QED BY <4>1, <2>2, <1>4, <1>5, <1>6
    <3> QED BY <3>1, <2>2, <1>6 DEF Without, Fits
  <2> QED BY <2>1, <2>2
<1>8. ASSUME switched = Channels, NEW c \in Channels
      PROVE  \A x : Ends(queue \o out, "PreampSwitchEvent", c, preamps[c].state, x)
  <2>1. preamps # None BY <1>1, <1>8, <1>5 DEF StoreIsSound
  <2>2. preamps["preamp0"].channel = "preamp0" /\ preamps["preamp1"].channel = "preamp1"
    BY <1>1, <1>8, <1>5 DEF StoreIsSound
  <2>3. queue \in Seq(Events) BY <1>1 DEF BindingsTypeOK
  <2>4. CASE c = "preamp0"
    <3>1. Fits(out[1], "PreampSwitchEvent", c) /\ ~Fits(out[2], "PreampSwitchEvent", c)
      BY <2>1, <2>2, <2>4, <1>4, <1>5, <1>6 DEF Fits
    <3>2. (1 + 1)..Len(out) = {2} /\ 1 \in 1..Len(out) BY <2>1, <1>6
    <3>3. Latest(out, 1, "PreampSwitchEvent", c) BY <3>1, <3>2 DEF Latest
    <3>4. out[1].value = preamps[c].state BY <2>1, <2>4, <1>4, <1>5, <1>6
    <3> QED BY <3>2, <3>3, <3>4, <2>3, <1>7, EndsLate
  <2>5. CASE c = "preamp1"
    <3>1. Fits(out[2], "PreampSwitchEvent", c)
      BY <2>1, <2>2, <2>5, <1>4, <1>5, <1>6 DEF Fits
    <3>2. (2 + 1)..Len(out) = {} /\ 2 \in 1..Len(out) BY <2>1, <1>6
    <3>3. Latest(out, 2, "PreampSwitchEvent", c) BY <3>1, <3>2 DEF Latest
    <3>4. out[2].value = preamps[c].state BY <2>1, <2>5, <1>4, <1>5, <1>6
    <3> QED BY <3>2, <3>3, <3>4, <2>3, <1>7, EndsLate
  <2> QED BY <2>4, <2>5 DEF Channels
<1> HIDE DEF out
<1>9. /\ BindingsTypeOK' /\ WorkIsSound' /\ StoreIsSound' /\ queue \in Seq(Events)
      /\ Pending(w) = <<j>> \o queue /\ Pending(w)' = queue \o out
  BY <1>1, <1>2, <1>7, HandlerIsSound DEF BindingsTypeOK
<1>10. LinesEnd(w)' /\ RatesEnd(w)' BY <1>1, <1>2, <1>3, <1>7, <1>9, HandledIsSound
<1>11. SwitchesEnd(w)' BY <1>2, <1>8, <1>9 DEF SwitchesEnd
<1> QED BY <1>9, <1>10, <1>11 DEF BindingsIInv

\* Every element of a finite set is in each of the sequences SetToSeqs() makes of it, once.
LEMMA SetInSequence ==
    ASSUME NEW S, IsFiniteSet(S), NEW out \in SetToSeqs(S)
    PROVE  /\ out \in Seq(S)
           /\ \A e \in S : \E n \in 1..Len(out) : out[n] = e
           /\ \A n, m \in 1..Len(out) : out[n] = out[m] => n = m
<1> DEFINE l == Cardinality(S)
<1>1. l \in Nat BY FS_CardinalityType
<1>2. out \in [1..l -> S] /\ \A n, m \in 1..l : n # m => out[n] # out[m] BY DEF SetToSeqs
<1> HIDE DEF l
<1>3. out \in Seq(S) /\ Len(out) = l BY <1>1, <1>2
<1>4. IsFiniteSet(1..l) /\ Cardinality(1..l) = l
  <2>1. 1 \in Int /\ l \in Int BY <1>1
  <2>2. /\ IsFiniteSet(1..l)
        /\ Cardinality(1..l) = IF 1 > l THEN 0 ELSE l - 1 + 1
    BY <2>1, FS_Interval
  <2>3. (IF 1 > l THEN 0 ELSE l - 1 + 1) = l BY <1>1
  <2> QED BY <2>2, <2>3
<1>5. out \in Injection(1..l, S) BY <1>2 DEF Injection, IsInjective
<1>6. out \in Surjection(1..l, S) BY <1>4, <1>5, FS_Injection DEF l
<1>7. \A e \in S : \E n \in 1..l : out[n] = e BY <1>6 DEF Surjection
<1> QED BY <1>2, <1>3, <1>7

LEMMA AnswerRatesStep ==
    ASSUME NEW w, Workers = {w}, BindingsIInv, AnswerRates(w) PROVE BindingsIInv'
<1> DEFINE j == work[w].job
           data == IF rates = None THEN <<>> ELSE rates
           Rate(i) == Event("CfgMsg", i, data[i])
           all == {Rate(i) : i \in DOMAIN data}
<1>1. /\ BindingsTypeOK /\ WorkIsSound /\ StoreIsSound
      /\ LinesEnd(w) /\ SwitchesEnd(w) /\ RatesEnd(w)
  BY DEF BindingsIInv
<1>2. PICK out \in SetToSeqs(all) : Finish(w, out) BY DEF AnswerRates
<1>3. /\ work[w].pc = "taken" /\ j.type = "UbxMsgRateRequestCmd"
      /\ UNCHANGED <<queue, pins, preamps, rates, polled, task, client, switched, commands, lost>>
  BY DEF AnswerRates
<1>4. j \in Events BY <1>1, <1>3 DEF WorkIsSound
<1>5. data \in Maps /\ DOMAIN data = Known /\ \A i \in Known : data[i] = rates[i]
  BY <1>1, MapFacts DEF BindingsTypeOK, Known
<1> HIDE DEF data
<1>6. \A i \in Known : /\ i \in Ids /\ Rate(i) \in Events
                       /\ Rate(i).type = "CfgMsg" /\ Rate(i).key = i /\ Rate(i).value = rates[i]
  <2>1. PICK known \in SUBSET Ids : data \in [known -> Rates] BY <1>5 DEF Maps
  <2>2. \A i \in Known : i \in Ids /\ data[i] \in Rates BY <2>1, <1>5
  <2> QED BY <2>2, <1>5, EventsAreTyped DEF Event
<1>7. IsFiniteSet(all)
  <2>1. DOMAIN data \subseteq Ids BY <1>5, <1>6
  <2>2. IsFiniteSet(DOMAIN data) BY <2>1, EventBindingsAssumption, FS_Subset
  <2> DEFINE f == [i \in DOMAIN data |-> Rate(i)]
  <2>3. f \in Surjection(DOMAIN data, all) BY DEF Surjection
  <2> QED BY <2>2, <2>3, FS_Surjection
<1> HIDE DEF Rate
<1>8. all \subseteq Events /\ \A e \in all : e.type = "CfgMsg" BY <1>5, <1>6
<1>9. \A i \in Known : Rate(i) \in all BY <1>5
<1>10. \A e \in all : e.key \in Known /\ e = Rate(e.key) BY <1>5, <1>6
<1> HIDE DEF all
<1>11. /\ out \in Seq(all) /\ \A e \in all : \E n \in 1..Len(out) : out[n] = e
       /\ \A n, m \in 1..Len(out) : out[n] = out[m] => n = m
  BY <1>7, SetInSequence
<1>12. out \in Seq(Events) /\ Len(out) \in Nat /\ \A n \in 1..Len(out) : out[n] \in all
  BY <1>8, <1>11
<1>13. \A t, k : t # "CfgMsg" => Without(out, t, k) BY <1>8, <1>12 DEF Without, Fits
<1>14. ASSUME NEW i \in Known PROVE \A x : Ends(queue \o out, "CfgMsg", i, rates[i], x)
  <2>1. PICK n \in 1..Len(out) : out[n] = Rate(i) BY <1>9, <1>11
  <2>2. ASSUME NEW m \in (n + 1)..Len(out), Fits(out[m], "CfgMsg", i) PROVE FALSE
    <3>1. m \in 1..Len(out) /\ m # n BY <1>12
    <3>2. out[m] = Rate(i) BY <3>1, <2>2, <1>10, <1>12 DEF Fits
    <3> QED BY <3>1, <3>2, <2>1, <1>11
  <2>3. Latest(out, n, "CfgMsg", i) BY <2>1, <2>2, <1>6 DEF Latest, Fits
  <2>4. out[n].value = rates[i] BY <2>1, <1>6
  <2>5. queue \in Seq(Events) BY <1>1 DEF BindingsTypeOK
  <2> QED BY <2>3, <2>4, <2>5, <1>12, EndsLate
<1>15. /\ BindingsTypeOK' /\ WorkIsSound' /\ StoreIsSound' /\ queue \in Seq(Events)
       /\ Pending(w) = <<j>> \o queue /\ Pending(w)' = queue \o out
  BY <1>1, <1>2, <1>3, <1>12, HandlerIsSound DEF BindingsTypeOK
<1>16. LinesEnd(w)' /\ SwitchesEnd(w)' BY <1>1, <1>3, <1>4, <1>12, <1>13, <1>15, HandledIsSound
<1>17. RatesEnd(w)' BY <1>3, <1>14, <1>15 DEF RatesEnd, Known
<1> QED BY <1>15, <1>16, <1>17 DEF BindingsIInv

LEMMA PollDatastoreStep ==
    ASSUME NEW w, Workers = {w}, BindingsIInv, PollDatastore(w) PROVE BindingsIInv'
<1> DEFINE j == work[w].job
           r == Request("PreampSwitchRequestCmd")
<1>1. /\ BindingsTypeOK /\ WorkIsSound /\ StoreIsSound
      /\ LinesEnd(w) /\ SwitchesEnd(w) /\ RatesEnd(w)
  BY DEF BindingsIInv
<1>2. /\ work[w].pc = "taken" /\ j.type = "ServerConnCountEvent" /\ Finish(w, <<r>>)
      /\ UNCHANGED <<queue, pins, preamps, rates, polled, task, client, switched, commands, lost>>
  BY DEF PollDatastore
<1>3. j \in Events BY <1>1, <1>2 DEF WorkIsSound
<1>4. r \in Events /\ r.type = "PreampSwitchRequestCmd"
  BY EventsAreTyped DEF Request, Event, Requests
<1> HIDE DEF r
<1>5. /\ <<r>> \in Seq(Events) /\ Has(<<r>>, "PreampSwitchRequestCmd")
      /\ \A t, k : t # "PreampSwitchRequestCmd" => Without(<<r>>, t, k)
  BY <1>4, OneOut DEF Fits
<1>6. /\ BindingsTypeOK' /\ WorkIsSound' /\ StoreIsSound' /\ queue \in Seq(Events)
      /\ Pending(w) = <<j>> \o queue /\ Pending(w)' = queue \o <<r>>
  BY <1>1, <1>2, <1>5, HandlerIsSound DEF BindingsTypeOK
<1>7. LinesEnd(w)' /\ RatesEnd(w)' BY <1>1, <1>2, <1>3, <1>5, <1>6, HandledIsSound
<1>8. SwitchesEnd(w)'
  <2>1. Has(Pending(w)', "PreampSwitchRequestCmd") BY <1>3, <1>5, <1>6, HandledHas
  <2> QED BY <2>1 DEF SwitchesEnd
<1> QED BY <1>6, <1>7, <1>8 DEF BindingsIInv

LEMMA TellClientStep ==
    ASSUME NEW w, Workers = {w}, BindingsIInv, TellClient(w) PROVE BindingsIInv'
<1> DEFINE j == work[w].job
<1>1. /\ BindingsTypeOK /\ WorkIsSound /\ StoreIsSound
      /\ LinesEnd(w) /\ SwitchesEnd(w) /\ RatesEnd(w)
  BY DEF BindingsIInv
<1>2. /\ work[w].pc = "taken" /\ j.type \in {"PreampSwitchEvent", "CfgMsg"} /\ Finish(w, <<>>)
      /\ client' = IF client.state = "away" THEN client
                   ELSE [client EXCEPT !.told[j.key] = j.value]
      /\ UNCHANGED <<queue, pins, preamps, rates, polled, task, switched, commands, lost>>
  BY DEF TellClient
<1>3. j \in Events BY <1>1, <1>2 DEF WorkIsSound
<1>4. j.key \in Channels \cup Ids /\ j.value \in {None} \cup BOOLEAN \cup Rates
  BY <1>2, <1>3, EventsByType
<1>5. /\ client' \in [state : {"away", "connected", "asked"},
                      told : [Channels \cup Ids -> {None} \cup BOOLEAN \cup Rates]]
      /\ client'.state = client.state
      /\ client.state # "away" =>
            \A k \in Channels \cup Ids : client'.told[k] = IF k = j.key THEN j.value ELSE client.told[k]
  BY <1>1, <1>2, <1>4 DEF BindingsTypeOK
<1>6. /\ BindingsTypeOK' /\ WorkIsSound' /\ StoreIsSound' /\ queue \in Seq(Events)
      /\ Pending(w) = <<j>> \o queue /\ Pending(w)' = queue \o <<>>
  BY <1>1, <1>2, <1>5, NoneOut, HandlerIsSound DEF BindingsTypeOK
<1>7. ASSUME NEW t, NEW k, NEW v, NEW x, Ends(Pending(w), t, k, v, x)
      PROVE  Ends(Pending(w)', t, k, v, IF Fits(j, t, k) THEN j.value ELSE x)
  BY <1>3, <1>6, <1>7, NoneOut, HandledEnds
<1>8. ASSUME NEW t, t \notin {"PreampSwitchEvent", "CfgMsg"}, Has(Pending(w), t)
      PROVE  Has(Pending(w)', t)
  <2>1. j.type # t BY <1>2, <1>8
  <2>2. <<>> \in Seq(Events) OBVIOUS
  <2>3. Has(<<j>> \o queue, t) BY <1>6, <1>8
  <2>4. Has(queue \o <<>>, t) BY <2>1, <2>2, <2>3, <1>3, <1>6, HandledHas
  <2> QED BY <2>4, <1>6
<1>9. LinesEnd(w)'
  <2>1. ASSUME NEW c \in Channels PROVE Ends(Pending(w)', "Store", c, pins[c], Stored(c))
    <3>1. ~Fits(j, "Store", c) BY <1>2 DEF Fits
    <3> QED BY <3>1, <1>1, <1>7 DEF LinesEnd
  <2> QED BY <2>1, <1>2 DEF LinesEnd, Stored
\* An event about a channel is one of its state, and one about a message is one of its rate.
<1>10. /\ \A c \in Channels : c = j.key <=> Fits(j, "PreampSwitchEvent", c)
       /\ \A i \in Ids : i = j.key <=> Fits(j, "CfgMsg", i)
  BY <1>2, <1>3, EventsByType, EventBindingsAssumption DEF Fits
<1>11. ASSUME client.state # "away", NEW c \in Channels, NEW v,
              Ends(Pending(w), "PreampSwitchEvent", c, v, client.told[c])
       PROVE  Ends(Pending(w)', "PreampSwitchEvent", c, v, client'.told[c])
  <2>1. client'.told[c] = IF Fits(j, "PreampSwitchEvent", c) THEN j.value ELSE client.told[c]
    BY <1>5, <1>10, <1>11
  <2> QED BY <2>1, <1>7, <1>11
<1>12. ASSUME client.state # "away", NEW i \in Ids, NEW v,
              Ends(Pending(w), "CfgMsg", i, v, client.told[i])
       PROVE  Ends(Pending(w)', "CfgMsg", i, v, client'.told[i])
  <2>1. client'.told[i] = IF Fits(j, "CfgMsg", i) THEN j.value ELSE client.told[i]
    BY <1>5, <1>10, <1>12
  <2> QED BY <2>1, <1>7, <1>12
<1>13. SwitchesEnd(w)'
  <2>1. SUFFICES ASSUME client.state # "away", switched = Channels,
                        ~Has(Pending(w)', "ServerConnCountEvent"),
                        ~Has(Pending(w)', "PreampSwitchRequestCmd"), NEW c \in Channels
                 PROVE  Ends(Pending(w)', "PreampSwitchEvent", c, preamps[c].state, client'.told[c])
    BY <1>2, <1>5 DEF SwitchesEnd
  <2>2. Ends(Pending(w), "PreampSwitchEvent", c, preamps[c].state, client.told[c])
    BY <2>1, <1>1, <1>8 DEF SwitchesEnd
  <2> QED BY <2>1, <2>2, <1>11
<1>14. RatesEnd(w)'
  <2>1. SUFFICES ASSUME client.state = "asked", ~Has(Pending(w)', "UbxMsgRateRequestCmd"),
                        NEW i \in Known
                 PROVE  Ends(Pending(w)', "CfgMsg", i, rates[i], client'.told[i])
    BY <1>2, <1>5 DEF RatesEnd, Known
  <2>2. Ends(Pending(w), "CfgMsg", i, rates[i], client.told[i])
    BY <2>1, <1>1, <1>8 DEF RatesEnd
  <2>3. i \in Ids BY <1>1, MapFacts DEF BindingsTypeOK, Known, Maps
  <2> QED BY <2>1, <2>2, <2>3, <1>12
<1> QED BY <1>6, <1>9, <1>13, <1>14 DEF BindingsIInv

\* Connect, AskRates, Command and Answer.
LEMMA PublishStep ==
    ASSUME NEW w, Workers = {w}, BindingsIInv, NEW e \in Events, Publish(<<e>>),
           \A c \in Channels : ~Fits(e, "Store", c),
           e.type \notin {"PreampSwitchEvent", "CfgMsg"},
           UNCHANGED <<work, pins, preamps, rates, task, switched, lost, client.told>>,
           polled' \in [Ids -> Nat], commands' \in Nat,
           client' = client \/ client' = [client EXCEPT !.state = client'.state],
           \/ client'.state = client.state
           \/ client'.state = "connected" /\ e.type = "ServerConnCountEvent"
           \/ client'.state = "asked" /\ client.state # "away" /\ e.type = "UbxMsgRateRequestCmd",
           client.state = "away" => client'.state \in {"away", "connected"}
    PROVE  BindingsIInv'
<1>1. /\ BindingsTypeOK /\ WorkIsSound /\ StoreIsSound
      /\ LinesEnd(w) /\ SwitchesEnd(w) /\ RatesEnd(w)
  BY DEF BindingsIInv
<1>2. queue' \in Seq(Events) /\ \E P, Q \in Seq(Events) :
          Pending(w) = P \o Q /\ Pending(w)' = (P \o <<e>>) \o Q
  BY <1>1, PublishInserts, ZenonT(40)
<1>3. PICK P, Q \in Seq(Events) : Pending(w) = P \o Q /\ Pending(w)' = (P \o <<e>>) \o Q BY <1>2
<1>4. client' \in [state : {"away", "connected", "asked"},
                   told : [Channels \cup Ids -> {None} \cup BOOLEAN \cup Rates]]
  BY <1>1 DEF BindingsTypeOK
<1>5. BindingsTypeOK' BY <1>1, <1>2, <1>4 DEF BindingsTypeOK
<1>6. WorkIsSound' BY <1>1 DEF WorkIsSound
<1>7. StoreIsSound' BY <1>1 DEF StoreIsSound
<1>8. /\ LinesEnd(w)'
      /\ client.state # "away" \/ e.type = "ServerConnCountEvent" => SwitchesEnd(w)'
      /\ client'.state = client.state \/ client'.state = "connected"
            \/ e.type = "UbxMsgRateRequestCmd" => RatesEnd(w)'
  BY <1>1, <1>3, InsertedIsSound
<1>9. SwitchesEnd(w)'
  <2>1. CASE client.state = "away" /\ client'.state = "away" BY <2>1 DEF SwitchesEnd
  <2>2. CASE client.state # "away" \/ e.type = "ServerConnCountEvent" BY <2>2, <1>8
  <2> QED BY <2>1, <2>2
<1>10. RatesEnd(w)' BY <1>8
<1> QED BY <1>5, <1>6, <1>7, <1>8, <1>9, <1>10 DEF BindingsIInv

LEMMA OutsideStep ==
    ASSUME NEW w, Workers = {w}, BindingsIInv,
           \/ Connect \/ AskRates
           \/ \E c \in Channels, s \in BOOLEAN : Command(c, s)
           \/ \E i \in Ids, r \in Rates : Answer(i, r)
    PROVE  BindingsIInv'
<1>1. BindingsTypeOK BY DEF BindingsIInv
<1>2. CASE Connect
  <2> DEFINE e == Request("ServerConnCountEvent")
  <2>1. e \in Events /\ e.type = "ServerConnCountEvent"
    BY EventsAreTyped DEF Request, Event, Requests
  <2>2. /\ client' = [client EXCEPT !.state = "connected"] /\ Publish(<<e>>)
        /\ UNCHANGED <<work, pins, preamps, rates, polled, task, switched, commands, lost>>
    BY <1>2 DEF Connect
  <2>3. client'.state = "connected" /\ client'.told = client.told BY <2>2, <1>1 DEF BindingsTypeOK
  <2> HIDE DEF e
  <2> QED BY <2>1, <2>2, <2>3, <1>1, PublishStep DEF BindingsTypeOK, Fits
<1>3. CASE AskRates
  <2> DEFINE e == Request("UbxMsgRateRequestCmd")
  <2>1. e \in Events /\ e.type = "UbxMsgRateRequestCmd"
    BY EventsAreTyped DEF Request, Event, Requests
  <2>2. /\ client' = [client EXCEPT !.state = "asked"] /\ Publish(<<e>>)
        /\ client.state = "connected"
        /\ UNCHANGED <<work, pins, preamps, rates, polled, task, switched, commands, lost>>
    BY <1>3 DEF AskRates
  <2>3. client'.state = "asked" /\ client'.told = client.told BY <2>2, <1>1 DEF BindingsTypeOK
  <2> HIDE DEF e
  <2> QED BY <2>1, <2>2, <2>3, <1>1, PublishStep DEF BindingsTypeOK, Fits
<1>4. ASSUME NEW c \in Channels, NEW s \in BOOLEAN, Command(c, s) PROVE BindingsIInv'
  <2> DEFINE e == Event("PreampSwitchCmd", c, s)
  <2>1. e \in Events /\ e.type = "PreampSwitchCmd" BY EventsAreTyped DEF Event
  <2>2. /\ commands' = commands + 1 /\ Publish(<<e>>)
        /\ UNCHANGED <<work, pins, preamps, rates, polled, task, client, switched, lost>>
    BY <1>4 DEF Command
  <2> HIDE DEF e
  <2>3. client.state = "away" => client'.state \in {"away", "connected"} BY <2>2
  <2>4. polled' \in [Ids -> Nat] /\ commands' \in Nat BY <2>2, <1>1 DEF BindingsTypeOK
  <2>5. \A k : ~Fits(e, "Store", k) BY <2>1 DEF Fits
  <2> QED BY <2>1, <2>2, <2>3, <2>4, <2>5, PublishStep
<1>5. ASSUME NEW i \in Ids, NEW r \in Rates, Answer(i, r) PROVE BindingsIInv'
  <2> DEFINE e == Event("Store", i, r)
  <2>1. e \in Events /\ e.type = "Store" /\ e.key = i BY EventsAreTyped DEF Event
  <2>2. /\ polled[i] > 0 /\ polled' = [polled EXCEPT ![i] = @ - 1] /\ Publish(<<e>>)
        /\ UNCHANGED <<work, pins, preamps, rates, task, client, switched, commands, lost>>
    BY <1>5 DEF Answer
  <2> HIDE DEF e
  <2>3. polled' \in [Ids -> Nat] BY <2>2, <1>1 DEF BindingsTypeOK
  <2>4. \A c \in Channels : ~Fits(e, "Store", c) BY <2>1, EventBindingsAssumption DEF Fits
  <2>5. client.state = "away" => client'.state \in {"away", "connected"} BY <2>2
  <2> QED BY <2>1, <2>2, <2>3, <2>4, <2>5, <1>1, PublishStep DEF BindingsTypeOK
<1> QED BY <1>2, <1>3, <1>4, <1>5

\* RatesTask and LoseAnswer.
LEMMA TaskStep ==
    ASSUME NEW w, Workers = {w}, BindingsIInv, RatesTask \/ \E i \in Ids : LoseAnswer(i)
    PROVE  BindingsIInv'
<1>1. /\ BindingsTypeOK /\ WorkIsSound /\ StoreIsSound
      /\ LinesEnd(w) /\ SwitchesEnd(w) /\ RatesEnd(w)
  BY DEF BindingsIInv
<1>2. /\ UNCHANGED <<queue, work, pins, preamps, client, switched, commands>>
      /\ rates' = rates \/ (rates = None /\ rates' = <<>>)
  BY DEF RatesTask, LoseAnswer
<1>3. polled' \in [Ids -> Nat] /\ task' \in {"waiting", "ended"} /\ lost' \in Nat
  BY <1>1, SMTT(30) DEF BindingsTypeOK, RatesTask, LoseAnswer
<1>4. rates' \in {None} \cup Maps BY <1>1, <1>2, MapFacts DEF BindingsTypeOK
<1>5. BindingsTypeOK' BY <1>1, <1>2, <1>3, <1>4 DEF BindingsTypeOK
<1>6. WorkIsSound' BY <1>1, <1>2, MapFacts DEF WorkIsSound
<1>7. StoreIsSound' BY <1>1, <1>2 DEF StoreIsSound
<1>8. Known' = Known /\ \A i \in Known : rates'[i] = rates[i] BY <1>2, MapFacts DEF Known
<1>9. Pending(w)' = Pending(w) BY <1>2 DEF Pending, Held
<1>10. LinesEnd(w)' /\ SwitchesEnd(w)' /\ RatesEnd(w)' BY <1>1, <1>2, <1>8, <1>9, KeptIsSound
<1> QED BY <1>5, <1>6, <1>7, <1>10 DEF BindingsIInv

-----------------------------------------------------------------------------
LEMMA BindingsInit == ASSUME NEW w, Workers = {w}, Init PROVE BindingsIInv
<1> DEFINE s0 == Event("PreampSwitchCmd", "preamp0", "preamp0" \in Enabled)
           s1 == Event("PreampSwitchCmd", "preamp1", "preamp1" \in Enabled)
<1>1. /\ queue = <<s0, s1>> /\ work = [v \in Workers |-> Idle]
      /\ pins = [c \in Channels |-> FALSE] /\ preamps = None /\ rates = None
      /\ polled = [i \in Ids |-> 0] /\ task = "waiting"
      /\ client = [state |-> "away", told |-> [k \in Channels \cup Ids |-> None]]
      /\ switched = {} /\ commands = 0 /\ lost = 0
  BY DEF Init
<1>2. /\ s0 \in Events /\ s1 \in Events
      /\ s0.type = "PreampSwitchCmd" /\ s1.type = "PreampSwitchCmd"
  <2>1. "preamp0" \in Channels /\ "preamp1" \in Channels
        /\ ("preamp0" \in Enabled) \in BOOLEAN /\ ("preamp1" \in Enabled) \in BOOLEAN
    BY DEF Channels
  <2> QED BY <2>1, EventsAreTyped DEF Event
<1> HIDE DEF s0, s1
<1>3. queue \in Seq(Events) /\ Len(queue) = 2 /\ queue[1] = s0 /\ queue[2] = s1 /\ 1..2 = {1, 2}
  BY <1>1, <1>2
<1>4. w \in Workers /\ work[w] = Idle /\ work \in [Workers -> Works] BY <1>1, IdleWork
<1>5. Pending(w) = queue
  <2>1. Pending(w) = <<>> \o (queue \o <<>>) BY <1>4, IdleWork DEF Pending, Held
  <2>2. queue \o <<>> = queue /\ <<>> \o queue = queue BY <1>3, ConcatEmptySeq
  <2> QED BY <2>1, <2>2
<1>6. BindingsTypeOK BY <1>1, <1>3, <1>4 DEF BindingsTypeOK
<1>7. WorkIsSound BY <1>4, IdleWork DEF WorkIsSound
<1>8. StoreIsSound BY <1>1 DEF StoreIsSound
<1>9. LinesEnd(w)
  <2>1. \A c \in Channels : Without(queue, "Store", c) BY <1>2, <1>3 DEF Without, Fits
  <2>2. \A c \in Channels : pins[c] = FALSE /\ Stored(c) = FALSE BY <1>1 DEF Stored
  <2> QED BY <2>1, <2>2, <1>5 DEF LinesEnd, Ends
<1>10. SwitchesEnd(w) /\ RatesEnd(w) BY <1>1 DEF SwitchesEnd, RatesEnd
<1> QED BY <1>6, <1>7, <1>8, <1>9, <1>10 DEF BindingsIInv

LEMMA BindingsNext == ASSUME NEW w, Workers = {w}, BindingsIInv, [Next]_vars PROVE BindingsIInv'
<1>1. CASE Worker(w)
  BY <1>1, KeepStep, SwitchCommandStep, SignalSetStep, SignalSetFailsStep, CopyStep,
     StorePreampsStep, StoreRatesStep, AnswerPreampsStep, AnswerRatesStep, PollDatastoreStep,
     TellClientStep
  DEF Worker
<1>2. CASE Connect \/ AskRates \/ (\E c \in Channels, s \in BOOLEAN : Command(c, s))
           \/ (\E i \in Ids, r \in Rates : Answer(i, r))
  BY <1>2, OutsideStep
<1>3. CASE RatesTask \/ \E i \in Ids : LoseAnswer(i) BY <1>3, TaskStep
<1>4. CASE UNCHANGED vars
  <2>1. UNCHANGED <<queue, work, pins, preamps, rates, polled, task, client, switched, commands, lost>>
    BY <1>4 DEF vars
  <2> QED BY <2>1, ZenonT(40) DEF BindingsIInv, BindingsTypeOK, WorkIsSound, StoreIsSound, LinesEnd,
                     SwitchesEnd, RatesEnd, Pending, Held, Stored, Known
<1> QED BY <1>1, <1>2, <1>3, <1>4 DEF Next

\* Nothing is pending when no event is on its way.
LEMMA QuietSettles ==
    ASSUME NEW w, Workers = {w}, BindingsIInv, Quiet
    PROVE  StoreMatchesPins /\ ClientIsUpToDate
<1>1. /\ BindingsTypeOK /\ StoreIsSound /\ LinesEnd(w) /\ SwitchesEnd(w) /\ RatesEnd(w)
  BY DEF BindingsIInv
<1>2. Pending(w) = <<>>
  <2>1. queue = <<>> /\ work[w] = Idle BY DEF Quiet
  <2>2. <<>> \in Seq(Events) OBVIOUS
  <2>3. <<>> \o (<<>> \o <<>>) = <<>> BY <2>2, ConcatEmptySeq
  <2> QED BY <2>1, <2>3, IdleWork DEF Pending, Held
<1>3. \A t : ~Has(<<>>, t) BY DEF Has
<1>4. \A t, k, v, x : Ends(<<>>, t, k, v, x) => x = v BY DEF Ends
<1>5. StoreMatchesPins BY <1>1, <1>2, <1>4 DEF LinesEnd, StoreMatchesPins, Stored
<1>6. ClientIsUpToDate
  <2>1. SUFFICES ASSUME client.state # "away"
                 PROVE  /\ switched = Channels => \A c \in Channels : client.told[c] = preamps[c].state
                        /\ client.state = "asked" => \A i \in Known : client.told[i] = rates[i]
    BY DEF ClientIsUpToDate
  <2> QED BY <2>1, <1>1, <1>2, <1>3, <1>4 DEF SwitchesEnd, RatesEnd
<1> QED BY <1>5, <1>6

\* With one worker a quiet daemon's store says what the lines of the preamplifiers are: the
\* handlers of event_bindings.cpp read, change and store the array one after the other.
THEOREM OneWorkerKeepsTheStore == (\E w : Workers = {w}) /\ Spec => []StoreMatchesPins
<1>1. SUFFICES ASSUME NEW w, Workers = {w} PROVE Spec => []StoreMatchesPins OBVIOUS
<1>2. Init => BindingsIInv BY <1>1, BindingsInit
<1>3. BindingsIInv /\ [Next]_vars => BindingsIInv' BY <1>1, BindingsNext
<1>4. BindingsIInv => StoreMatchesPins BY <1>1, QuietSettles DEF StoreMatchesPins
<1> QED BY <1>2, <1>3, <1>4, PTL DEF Spec

\* With one worker a client of a quiet daemon knows what the store knows: every change of the
\* store is announced behind what was announced before, and each request is answered from it.
THEOREM OneWorkerTellsTheClient == (\E w : Workers = {w}) /\ Spec => []ClientIsUpToDate
<1>1. SUFFICES ASSUME NEW w, Workers = {w} PROVE Spec => []ClientIsUpToDate OBVIOUS
<1>2. Init => BindingsIInv BY <1>1, BindingsInit
<1>3. BindingsIInv /\ [Next]_vars => BindingsIInv' BY <1>1, BindingsNext
<1>4. BindingsIInv => ClientIsUpToDate BY <1>1, QuietSettles DEF ClientIsUpToDate
<1> QED BY <1>2, <1>3, <1>4, PTL DEF Spec

=============================================================================
