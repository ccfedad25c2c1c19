---------------------------- MODULE NotifyProofs -----------------------------
(***************************************************************************)
(* Proofs about the notify-controller in PodSystem, for every set of names *)
(* and every bound: nobody hears of a pod that is still there, or twice    *)
(* from one process of one that is gone.                                   *)
(***************************************************************************)
EXTENDS PodSystemProofs, FiniteSetTheorems, SequenceTheorems

-----------------------------------------------------------------------------
(* The messages that somebody has had or is to have. *)
Elements(s) == { s[i] : i \in DOMAIN s }

Message(uid, start) == [uid |-> uid, start |-> start]

Ahead(deletions, start) ==
  [i \in DOMAIN deletions |-> Message(deletions[i].uid, start)]

InHand ==
  IF sending.at = "idle" THEN {} ELSE {Message(sending.uid, starts)}

(* A name stands for the pod that was created with it. *)
Holds(names) ==
  \A n \in Names : names[n] # 0 =>
    names[n] \in DOMAIN nameOf /\ nameOf[names[n]] = n

Has(v, uid) == \E n \in Names : versions[v][n] = uid

(* A pod that has been there and is gone does not come back in a later     *)
(* version.                                                                *)
VersionsInOrder ==
  /\ \A v \in DOMAIN versions : Holds(versions[v])
  /\ \A i, j, k \in DOMAIN versions : \A uid \in Uids :
       i <= j /\ j <= k /\ Has(i, uid) /\ ~Has(j, uid) => ~Has(k, uid)

(* The informer does not have the pod, and no event or list brings it back *)
(* for as long as the process runs.                                        *)
Gone(uid) == \A v \in DOMAIN versions : v >= known => ~Has(v, uid)

(* The pod of a message is gone, and the process that has sent the message *)
(* cannot announce it again.                                               *)
Past(m) ==
  /\ m \in Messages /\ m.start <= starts
  /\ Deleted(m.uid)
  /\ m.start = starts => Gone(m.uid)

AllPast ==
  \A m \in Elements(received) \cup Elements(queue) \cup InHand
           \cup Elements(Ahead(pending, starts)) : Past(m)

(* Each message is in one place. *)
InOnePlace ==
  /\ IsInjective(received) /\ IsInjective(queue)
  /\ IsInjective(Ahead(pending, starts))
  /\ Elements(received) \cap Elements(queue) = {}
  /\ (Elements(received) \cup Elements(queue)) \cap InHand = {}
  /\ (Elements(received) \cup Elements(queue))
       \cap Elements(Ahead(pending, starts)) = {}
  /\ InHand \cap Elements(Ahead(pending, starts)) = {}

AlarmInv ==
  /\ NotifyTypeOK /\ VersionsInOrder /\ AllPast /\ InOnePlace

-----------------------------------------------------------------------------
(* Sequences without repetition. *)

LEMMA Appended ==
  ASSUME NEW S, NEW s \in Seq(S), NEW x \in S
  PROVE  /\ Append(s, x) \in Seq(S)
         /\ Elements(Append(s, x)) = Elements(s) \cup {x}
         /\ IsInjective(s) /\ x \notin Elements(s)
              => IsInjective(Append(s, x))
<1> DEFINE t == Append(s, x)
<1>1. /\ t \in Seq(S) /\ Len(t) = Len(s) + 1 /\ Len(s) \in Nat
      /\ DOMAIN t = 1..(Len(s) + 1) /\ DOMAIN s = 1..Len(s)
      /\ \A i \in 1..Len(s) : t[i] = s[i]
      /\ t[Len(s) + 1] = x
  BY AppendProperties
<1> HIDE DEF t
<1>2. Elements(t) = Elements(s) \cup {x}
  BY <1>1 DEF Elements
<1>3. ASSUME IsInjective(s), x \notin Elements(s)
      PROVE  IsInjective(t)
  BY <1>1, <1>3 DEF IsInjective, Elements
<1>4. QED
  BY <1>1, <1>2, <1>3 DEF t

LEMMA Joined ==
  ASSUME NEW S, NEW s \in Seq(S), NEW t \in Seq(S)
  PROVE  /\ Elements(s \o t) = Elements(s) \cup Elements(t)
         /\ IsInjective(s) /\ IsInjective(t) /\ Elements(s) \cap Elements(t) = {}
              => IsInjective(s \o t)
<1> DEFINE w == s \o t
<1>1. /\ w \in Seq(S) /\ Len(w) = Len(s) + Len(t)
      /\ Len(s) \in Nat /\ Len(t) \in Nat
      /\ DOMAIN w = 1..(Len(s) + Len(t))
      /\ DOMAIN s = 1..Len(s) /\ DOMAIN t = 1..Len(t)
      /\ \A i \in 1..Len(s) : w[i] = s[i]
      /\ \A i \in 1..Len(t) : w[Len(s) + i] = t[i]
  BY ConcatProperties
<1> HIDE DEF w
<1>2. \A i \in DOMAIN w :
        \/ i \in DOMAIN s /\ w[i] = s[i]
        \/ i - Len(s) \in DOMAIN t /\ w[i] = t[i - Len(s)]
  <2> SUFFICES ASSUME NEW i \in DOMAIN w, i \notin DOMAIN s
               PROVE  i - Len(s) \in DOMAIN t /\ w[i] = t[i - Len(s)]
    BY <1>1
  <2>1. i - Len(s) \in 1..Len(t) /\ Len(s) + (i - Len(s)) = i
    BY <1>1
  <2>2. QED
    BY <1>1, <2>1
<1>3. Elements(w) \subseteq Elements(s) \cup Elements(t)
  BY <1>2 DEF Elements
<1>4. Elements(s) \subseteq Elements(w)
  BY <1>1 DEF Elements
<1>5. Elements(t) \subseteq Elements(w)
  <2>1. \A i \in DOMAIN t : Len(s) + i \in DOMAIN w /\ w[Len(s) + i] = t[i]
    BY <1>1
  <2>2. QED
    BY <2>1 DEF Elements
<1>6. ASSUME IsInjective(s), IsInjective(t), Elements(s) \cap Elements(t) = {}
      PROVE  IsInjective(w)
  <2> SUFFICES ASSUME NEW i \in DOMAIN w, NEW j \in DOMAIN w, w[i] = w[j]
               PROVE  i = j
    BY DEF IsInjective
  <2>1. i \in Int /\ j \in Int /\ Len(s) \in Int
    BY <1>1
  <2>2. CASE i \in DOMAIN s /\ w[i] = s[i] /\ j \in DOMAIN s /\ w[j] = s[j]
    BY <1>6, <2>2 DEF IsInjective
  <2>3. CASE /\ i - Len(s) \in DOMAIN t /\ w[i] = t[i - Len(s)]
             /\ j - Len(s) \in DOMAIN t /\ w[j] = t[j - Len(s)]
    <3>1. i - Len(s) = j - Len(s)
      BY <1>6, <2>3 DEF IsInjective
    <3>2. QED
      BY <2>1, <3>1
  <2>4. CASE \/ /\ i \in DOMAIN s /\ w[i] = s[i]
                /\ j - Len(s) \in DOMAIN t /\ w[j] = t[j - Len(s)]
             \/ /\ j \in DOMAIN s /\ w[j] = s[j]
                /\ i - Len(s) \in DOMAIN t /\ w[i] = t[i - Len(s)]
    <3>1. w[i] \in Elements(s) /\ w[i] \in Elements(t)
      BY <2>4 DEF Elements
    <3>2. QED
      BY <1>6, <3>1
  <2>5. QED
    BY <1>2, <2>2, <2>3, <2>4
<1>7. QED
  BY <1>3, <1>4, <1>5, <1>6 DEF w

LEMMA Taken ==
  ASSUME NEW S, NEW s \in Seq(S), s # << >>
  PROVE  /\ Tail(s) \in Seq(S) /\ Head(s) \in S
         /\ Elements(s) = Elements(Tail(s)) \cup {Head(s)}
         /\ IsInjective(s) =>
              IsInjective(Tail(s)) /\ Head(s) \notin Elements(Tail(s))
<1> DEFINE t == Tail(s)
<1>1. /\ Len(s) \in Nat /\ Len(s) > 0 /\ DOMAIN s = 1..Len(s)
      /\ t \in Seq(S) /\ DOMAIN t = 1..(Len(s) - 1) /\ Head(s) = s[1]
      /\ \A i \in DOMAIN t : t[i] = s[i + 1]
  BY HeadTailProperties, EmptySeq, LenProperties
<1> HIDE DEF t
<1>2. \A i \in DOMAIN t : i + 1 \in DOMAIN s /\ i + 1 # 1
  BY <1>1
<1>3. 1 \in DOMAIN s /\ \A i \in DOMAIN s : i # 1 =>
        i - 1 \in DOMAIN t /\ s[i] = t[i - 1]
  <2>1. ASSUME NEW i \in DOMAIN s, i # 1
        PROVE  i - 1 \in DOMAIN t /\ (i - 1) + 1 = i
    BY <1>1, <2>1
  <2>2. QED
    BY <1>1, <2>1
<1>4. Elements(s) = Elements(t) \cup {Head(s)}
  <2>1. Head(s) \in Elements(s) /\ \A i \in DOMAIN t : t[i] \in Elements(s)
    <3>1. \A i \in DOMAIN t : \E j \in DOMAIN s : s[j] = t[i]
      BY <1>1, <1>2
    <3>2. \E j \in DOMAIN s : s[j] = Head(s)
      BY <1>1, <1>3
    <3>3. QED
      BY <3>1, <3>2 DEF Elements
  <2>2. \A i \in DOMAIN s : s[i] = Head(s) \/ s[i] \in Elements(t)
    BY <1>1, <1>3 DEF Elements
  <2>3. QED
    BY <2>1, <2>2 DEF Elements
<1>5. ASSUME IsInjective(s)
      PROVE  IsInjective(t) /\ Head(s) \notin Elements(t)
  <2>1. ASSUME NEW i \in DOMAIN t, NEW j \in DOMAIN t, t[i] = t[j]
        PROVE  i = j
    <3>1. i + 1 = j + 1
      BY <1>1, <1>2, <1>5, <2>1 DEF IsInjective
    <3>2. QED
      BY <1>1, <3>1
  <2>2. ASSUME NEW i \in DOMAIN t
        PROVE  t[i] # Head(s)
    BY <1>1, <1>2, <1>3, <1>5 DEF IsInjective
  <2>3. QED
    BY <2>1, <2>2 DEF IsInjective, Elements
<1>6. QED
  BY <1>1, <1>4, <1>5, ElementOfSeq DEF t

LEMMA NothingLeft ==
  /\ Elements(<< >>) = {} /\ IsInjective(<< >>)
  /\ \A start : Ahead(<< >>, start) = << >>
BY DEF Elements, IsInjective, Ahead


(* The messages of deletions that are taken, or come after others. *)
LEMMA AheadMoves ==
  ASSUME NEW s \in Seq(Deletions), NEW start \in Nat
  PROVE  /\ Ahead(s, start) \in Seq(Messages)
         /\ s # << >> =>
              /\ Ahead(Tail(s), start) = Tail(Ahead(s, start))
              /\ Head(Ahead(s, start)) = Message(Head(s).uid, start)
              /\ Ahead(s, start) # << >>
         /\ \A t \in Seq(Deletions) :
              Ahead(s \o t, start) = Ahead(s, start) \o Ahead(t, start)
<1> DEFINE A(t) == Ahead(t, start)
<1>1. \A t \in Seq(Deletions) :
        /\ A(t) \in Seq(Messages) /\ Len(A(t)) = Len(t)
        /\ \A i \in 1..Len(t) : A(t)[i] = Message(t[i].uid, start)
  <2> SUFFICES ASSUME NEW t \in Seq(Deletions)
               PROVE  /\ A(t) \in Seq(Messages) /\ Len(A(t)) = Len(t)
                      /\ \A i \in 1..Len(t) : A(t)[i] = Message(t[i].uid, start)
    OBVIOUS
  <2>1. Len(t) \in Nat /\ DOMAIN t = 1..Len(t)
    BY LenProperties
  <2>2. ASSUME NEW i \in 1..Len(t) PROVE Message(t[i].uid, start) \in Messages
    <3>1. t[i] \in Deletions
      BY ElementOfSeq
    <3>2. t[i].uid \in Uids
      BY <3>1 DEF Deletions
    <3>3. QED
      BY <3>2 DEF Message, Messages
  <2>3. A(t) = [i \in 1..Len(t) |-> Message(t[i].uid, start)]
    BY <2>1 DEF Ahead
  <2>4. A(t) \in [1..Len(t) -> Messages]
    BY <2>2, <2>3
  <2>5. A(t) \in Seq(Messages) /\ Len(A(t)) = Len(t)
    BY <2>1, <2>4, IsASeq, LenProperties
  <2>6. QED
    BY <2>3, <2>5
<1> HIDE DEF A
<1>2. ASSUME s # << >>
      PROVE  /\ A(Tail(s)) = Tail(A(s))
             /\ Head(A(s)) = Message(Head(s).uid, start) /\ A(s) # << >>
  <2>1. /\ Tail(s) \in Seq(Deletions) /\ Len(s) \in Nat /\ Len(s) > 0
        /\ Len(Tail(s)) = Len(s) - 1 /\ Head(s) = s[1]
        /\ \A i \in 1..Len(Tail(s)) : Tail(s)[i] = s[i + 1]
    BY <1>2, HeadTailProperties, EmptySeq, LenProperties
  <2> DEFINE a == A(s)
             b == A(Tail(s))
  <2>2. /\ a \in Seq(Messages) /\ Len(a) = Len(s)
        /\ \A i \in 1..Len(s) : a[i] = Message(s[i].uid, start)
        /\ b \in Seq(Messages) /\ Len(b) = Len(s) - 1
        /\ \A i \in 1..(Len(s) - 1) : b[i] = Message(Tail(s)[i].uid, start)
    BY <1>1, <2>1
  <2> HIDE DEF a, b
  <2>3. a # << >> /\ Head(a) = a[1]
    BY <2>1, <2>2, EmptySeq, HeadTailProperties
  <2>4. /\ Tail(a) \in Seq(Messages) /\ Len(Tail(a)) = Len(s) - 1
        /\ \A i \in 1..(Len(s) - 1) : Tail(a)[i] = a[i + 1]
    BY <2>1, <2>2, <2>3, HeadTailProperties
  <2>5. ASSUME NEW i \in 1..(Len(s) - 1)
        PROVE  b[i] = Tail(a)[i]
    <3>1. i \in 1..Len(Tail(s)) /\ i + 1 \in 1..Len(s)
      BY <2>1
    <3>2. QED
      BY <2>1, <2>2, <2>4, <3>1
  <2>6. b = Tail(a)
    BY <2>2, <2>4, <2>5, SeqEqual
  <2>7. QED
    BY <2>1, <2>2, <2>3, <2>6 DEF a, b
<1>3. ASSUME NEW t \in Seq(Deletions)
      PROVE  A(s \o t) = A(s) \o A(t)
  <2> DEFINE w == s \o t
             a == A(s)
             b == A(t)
             c == A(w)
             u == a \o b
  <2>1. /\ Len(s) \in Nat /\ Len(t) \in Nat
        /\ w \in Seq(Deletions) /\ Len(w) = Len(s) + Len(t)
        /\ \A i \in 1..Len(w) :
             w[i] = IF i <= Len(s) THEN s[i] ELSE t[i - Len(s)]
    BY ConcatProperties, LenProperties
  <2> HIDE DEF w
  <2>2. /\ a \in Seq(Messages) /\ Len(a) = Len(s)
        /\ b \in Seq(Messages) /\ Len(b) = Len(t)
        /\ c \in Seq(Messages) /\ Len(c) = Len(s) + Len(t)
        /\ \A i \in 1..Len(s) : a[i] = Message(s[i].uid, start)
        /\ \A i \in 1..Len(t) : b[i] = Message(t[i].uid, start)
        /\ \A i \in 1..(Len(s) + Len(t)) : c[i] = Message(w[i].uid, start)
    BY <1>1, <2>1
  <2> HIDE DEF a, b, c
  <2>3. /\ u \in Seq(Messages) /\ Len(u) = Len(s) + Len(t)
        /\ \A i \in 1..Len(u) :
             u[i] = IF i <= Len(s) THEN a[i] ELSE b[i - Len(s)]
    <3>1. /\ Len(a \o b) = Len(a) + Len(b) /\ a \o b \in Seq(Messages)
          /\ \A i \in 1..(Len(a) + Len(b)) :
               (a \o b)[i] = IF i <= Len(a) THEN a[i] ELSE b[i - Len(a)]
      BY <2>2, ConcatProperties
    <3>2. QED
      BY <2>2, <3>1
  <2> HIDE DEF u
  <2>4. ASSUME NEW i \in 1..Len(u) PROVE c[i] = u[i]
    <3>1. /\ i \in 1..Len(w) /\ i \in 1..(Len(s) + Len(t))
          /\ i <= Len(s) => i \in 1..Len(s)
          /\ ~(i <= Len(s)) => i - Len(s) \in 1..Len(t)
      BY <2>1, <2>3
    <3>2. QED
      BY <2>1, <2>2, <2>3, <3>1
  <2>5. c = u
    BY <2>2, <2>3, <2>4, SeqEqual
  <2>6. QED
    BY <2>5 DEF w, a, b, c, u
<1>4. QED
  BY <1>1, <1>2, <1>3 DEF A

-----------------------------------------------------------------------------
(* Types. *)

LEMMA NameOfType ==
  nameOf \in UNION { [1..n -> Names] : n \in 0..MaxPods }
    <=> nameOf \in Seq(Names) /\ Len(nameOf) <= MaxPods
<1>1. MaxPods \in Nat
  BY NotifyAssumption
<1>2. ASSUME NEW n \in 0..MaxPods, nameOf \in [1..n -> Names]
      PROVE  nameOf \in Seq(Names) /\ Len(nameOf) <= MaxPods
  <2>1. nameOf \in Seq(Names)
    BY <1>1, <1>2, SeqDef
  <2>2. DOMAIN nameOf = 1..n /\ DOMAIN nameOf = 1..Len(nameOf)
        /\ Len(nameOf) \in Nat
    BY <1>2, <2>1, LenProperties
  <2>3. QED
    BY <1>1, <2>1, <2>2
<1>3. ASSUME nameOf \in Seq(Names), Len(nameOf) <= MaxPods
      PROVE  Len(nameOf) \in 0..MaxPods /\ nameOf \in [1..Len(nameOf) -> Names]
  BY <1>1, <1>3, LenProperties
<1>4. QED
  BY <1>2, <1>3

LEMMA NamesKnown ==
  ASSUME NotifyTypeOK
  PROVE  /\ nameOf \in Seq(Names) /\ Len(nameOf) \in 0..MaxPods
         /\ DOMAIN nameOf = 1..Len(nameOf)
         /\ DOMAIN nameOf \subseteq Uids
         /\ \A uid \in DOMAIN nameOf : nameOf[uid] \in Names
         /\ MaxPods \in Nat
<1>1. MaxPods \in Nat /\ nameOf \in Seq(Names) /\ Len(nameOf) <= MaxPods
  BY NotifyAssumption, NameOfType DEF NotifyTypeOK
<1>2. QED
  BY <1>1, LenProperties DEF Uids

LEMMA VersionsKnown ==
  ASSUME NotifyTypeOK
  PROVE  /\ versions \in Seq([Names -> 0..MaxPods])
         /\ Len(versions) \in Nat /\ Len(versions) > 0
         /\ DOMAIN versions = 1..Len(versions) /\ Len(versions) \in DOMAIN versions
         /\ \A v \in DOMAIN versions : versions[v] \in [Names -> 0..MaxPods]
         /\ pods \in [Names -> 0..MaxPods]
         /\ known \in 0..Len(versions)
         /\ known # 0 => known \in DOMAIN versions /\ store = versions[known]
<1>1. /\ versions \in Seq([Names -> 0..MaxPods]) /\ versions # << >>
      /\ known \in 0..Len(versions)
  BY DEF NotifyTypeOK
<1>2. /\ Len(versions) \in Nat /\ Len(versions) > 0
      /\ DOMAIN versions = 1..Len(versions)
  BY <1>1, LenProperties, EmptySeq
<1>3. \A v \in DOMAIN versions : versions[v] \in [Names -> 0..MaxPods]
  BY <1>1, <1>2, ElementOfSeq
<1>4. QED
  BY <1>1, <1>2, <1>3 DEF pods, store

LEMMA SendingType ==
  /\ Idle \in Sendings /\ Idle.at = "idle"
  /\ InHand' = IF sending'.at = "idle" THEN {}
               ELSE {Message(sending'.uid, starts')}
BY NotifyAssumption DEF Idle, InHand, Sendings

(* The steps that leave what is under way where it is, or lose it.         *)
Loses ==
  /\ received' = received
  /\ queue' \in {queue, << >>}
  /\ pending' = << >> \/ (pending' = pending /\ starts' = starts)
  /\ InHand' \in {InHand, {}}

LEMMA Fewer ==
  ASSUME AllPast, InOnePlace, Loses, \A m : Past(m) => Past(m)'
  PROVE  AllPast' /\ InOnePlace'
<1>1. /\ Elements(received)' = Elements(received)
      /\ Elements(queue)' \subseteq Elements(queue)
      /\ Elements(Ahead(pending, starts))' \subseteq Elements(Ahead(pending, starts))
      /\ InHand' \subseteq InHand
      /\ IsInjective(received') /\ IsInjective(queue')
      /\ IsInjective(Ahead(pending', starts'))
  BY NothingLeft DEF Loses, InOnePlace
<1>2. AllPast'
  BY <1>1 DEF AllPast
<1>3. InOnePlace'
  BY <1>1 DEF InOnePlace
<1>4. QED
  BY <1>2, <1>3

-----------------------------------------------------------------------------
(* The API server. *)

(* A further version, in which no pod is back that was gone.               *)
LEMMA Changed ==
  ASSUME NotifyTypeOK, VersionsInOrder, NEW new \in [Names -> 0..MaxPods],
         versions' = Append(versions, new), known' = known, starts' = starts,
         DOMAIN nameOf \subseteq DOMAIN nameOf',
         \A u \in DOMAIN nameOf : nameOf'[u] = nameOf[u],
         Holds(new)',
         \A n \in Names : new[n] \in DOMAIN nameOf => pods[n] = new[n]
  PROVE  /\ versions' \in Seq([Names -> 0..MaxPods]) /\ versions' # << >>
         /\ Len(versions') = Len(versions) + 1
         /\ VersionsInOrder' /\ \A m : Past(m) => Past(m)'
<1> PICK last : last = Len(versions) + 1
  OBVIOUS
<1>1. /\ versions \in Seq([Names -> 0..MaxPods]) /\ Len(versions) \in Nat
      /\ Len(versions) > 0 /\ DOMAIN versions = 1..Len(versions)
      /\ Len(versions) \in DOMAIN versions /\ known \in 0..Len(versions)
  BY VersionsKnown
<1>2. /\ versions' \in Seq([Names -> 0..MaxPods]) /\ Len(versions') = last
      /\ DOMAIN versions' = 1..last /\ versions'[last] = new
      /\ \A v \in DOMAIN versions : versions'[v] = versions[v]
  BY <1>1, AppendProperties, LenProperties
<1>3. /\ last \in Nat /\ last > Len(versions) /\ last \notin DOMAIN versions
      /\ \A v \in DOMAIN versions' : v \in DOMAIN versions \/ v = last
      /\ \A v \in DOMAIN versions : v \in Nat /\ v < last /\ v <= Len(versions)
      /\ last >= known /\ Len(versions) >= known
  BY <1>1, <1>2
<1>4. versions' # << >> /\ pods' = new
  BY <1>2, <1>3, EmptySeq DEF pods
<1>5. \A n \in Names : new[n] \in DOMAIN nameOf =>
        Has(Len(versions), new[n]) /\ nameOf[new[n]] = n
  <2>1. pods = versions[Len(versions)] /\ Holds(pods)
    BY <1>1 DEF pods, VersionsInOrder
  <2>2. \A u \in DOMAIN nameOf : u # 0
    BY NamesKnown DEF Uids
  <2>3. QED
    BY <2>1, <2>2 DEF Holds, Has
<1>6. \A v \in DOMAIN versions : \A u :
        /\ Has(v, u)' <=> Has(v, u)
        /\ Has(v, u) /\ u \in Uids => u \in DOMAIN nameOf
  <2>1. \A v \in DOMAIN versions : \A u : Has(v, u)' <=> Has(v, u)
    BY <1>2 DEF Has
  <2>2. \A v \in DOMAIN versions : \A u \in Uids :
          Has(v, u) => u \in DOMAIN nameOf
    BY NotifyAssumption DEF VersionsInOrder, Holds, Has, Uids
  <2>3. QED
    BY <2>1, <2>2
<1>7. \A u \in DOMAIN nameOf : Has(last, u)' => Has(Len(versions), u)
  BY <1>2, <1>5 DEF Has
<1>8. VersionsInOrder'
  <2>1. \A v \in DOMAIN versions' : Holds(versions[v])'
    <3>1. \A v \in DOMAIN versions : Holds(versions[v])'
      BY <1>2 DEF VersionsInOrder, Holds
    <3>2. Holds(versions[last])'
      BY <1>2 DEF Holds
    <3>3. QED
      BY <1>3, <3>1, <3>2
  <2>2. ASSUME NEW i \in DOMAIN versions', NEW j \in DOMAIN versions',
               NEW k \in DOMAIN versions', NEW u \in Uids,
               i <= j, j <= k, Has(i, u)', ~Has(j, u)'
        PROVE  ~Has(k, u)'
    <3>1. CASE j = last
      BY <1>1, <1>2, <1>3, <2>2, <3>1
    <3>2. CASE j \in DOMAIN versions
      <4>1. i \in DOMAIN versions
        BY <1>1, <1>2, <1>3, <2>2, <3>2
      <4>2. CASE k \in DOMAIN versions
        BY <1>6, <2>2, <3>2, <4>1, <4>2 DEF VersionsInOrder
      <4>3. CASE k = last
        <5>1. u \in DOMAIN nameOf /\ j <= Len(versions)
          BY <1>3, <1>6, <2>2, <3>2, <4>1
        <5>2. ~Has(Len(versions), u)
          BY <1>1, <1>6, <2>2, <3>2, <4>1, <5>1 DEF VersionsInOrder
        <5>3. QED
          BY <1>7, <4>3, <5>1, <5>2
      <4>4. QED
        BY <1>3, <4>2, <4>3
    <3>3. QED
      BY <1>3, <3>1, <3>2
  <2>3. QED
    BY <2>1, <2>2 DEF VersionsInOrder
<1>9. ASSUME NEW m, Past(m)
      PROVE  Past(m)'
  <2>1. m \in Messages /\ m.uid \in DOMAIN nameOf /\ Deleted(m.uid)
    BY <1>9 DEF Past, Deleted
  <2>2. Deleted(m.uid)'
    <3>1. nameOf[m.uid] \in Names
      BY <2>1, NamesKnown
    <3>2. QED
      BY <1>4, <2>1, <3>1 DEF Deleted
  <2>3. ASSUME Gone(m.uid)
        PROVE  Gone(m.uid)'
    <3>1. ~Has(Len(versions), m.uid)
      BY <1>1, <1>3, <2>3 DEF Gone
    <3>2. ~Has(last, m.uid)'
      BY <1>7, <2>1, <3>1
    <3>3. QED
      BY <1>3, <1>6, <2>3, <3>2 DEF Gone
  <2>4. QED
    BY <1>9, <2>1, <2>2, <2>3 DEF Past
<1>10. QED
  BY <1>2, <1>4, <1>8, <1>9

(* The uid is new: no earlier version has it. *)
LEMMA CreateAlarm ==
  ASSUME AlarmInv, NEW n \in Names, CreatePod(n)
  PROVE  AlarmInv'
<1> PICK uid, new : uid = Len(nameOf) + 1 /\ new = [pods EXCEPT ![n] = uid]
  OBVIOUS
<1>1. /\ nameOf \in Seq(Names) /\ Len(nameOf) \in Nat
      /\ DOMAIN nameOf = 1..Len(nameOf) /\ MaxPods \in Nat
      /\ pods \in [Names -> 0..MaxPods] /\ NotifyTypeOK /\ Holds(pods)
  <2>1. Holds(pods)
    BY VersionsKnown DEF AlarmInv, VersionsInOrder, pods
  <2>2. QED
    BY <2>1, NamesKnown, VersionsKnown DEF AlarmInv
<1>2. /\ pods[n] = 0 /\ Len(nameOf) < MaxPods /\ nameOf' = Append(nameOf, n)
      /\ versions' = Append(versions, new)
      /\ UNCHANGED << informer, handler, starts, broker, messages, faults >>
  BY DEF CreatePod, Change
<1>3. /\ nameOf' \in Seq(Names) /\ Len(nameOf') = uid
      /\ DOMAIN nameOf' = 1..uid
      /\ \A u \in DOMAIN nameOf : nameOf'[u] = nameOf[u]
      /\ nameOf'[uid] = n
  BY <1>1, <1>2, AppendProperties, LenProperties
<1>4. /\ uid \in DOMAIN nameOf' /\ uid \notin DOMAIN nameOf
      /\ DOMAIN nameOf \subseteq DOMAIN nameOf' /\ uid <= MaxPods
      /\ uid \in 0..MaxPods
  BY <1>1, <1>2, <1>3
<1>5. /\ new \in [Names -> 0..MaxPods] /\ new[n] = uid
      /\ \A m \in Names : m # n => new[m] = pods[m]
  BY <1>1, <1>4
<1>6. Holds(new)'
  BY <1>1, <1>3, <1>4, <1>5 DEF Holds
<1>7. \A m \in Names : new[m] \in DOMAIN nameOf => pods[m] = new[m]
  BY <1>4, <1>5
<1>8. /\ versions' \in Seq([Names -> 0..MaxPods]) /\ versions' # << >>
      /\ Len(versions') = Len(versions) + 1
      /\ VersionsInOrder' /\ \A m : Past(m) => Past(m)'
  <2>1. known' = known /\ starts' = starts /\ VersionsInOrder
    BY <1>2 DEF informer, AlarmInv
  <2>2. QED
    BY <1>1, <1>2, <1>3, <1>4, <1>5, <1>6, <1>7, <2>1, Changed
<1>9. NotifyTypeOK'
  <2>1. (nameOf \in UNION { [1..k -> Names] : k \in 0..MaxPods })'
    BY <1>3, <1>4, NameOfType
  <2>2. known' \in 0..Len(versions') /\ (watch' = "open" => known' > 0)
    <3>1. /\ Len(versions) \in Nat /\ known \in 0..Len(versions)
          /\ watch = "open" => known > 0
      BY <1>1, VersionsKnown DEF NotifyTypeOK
    <3>2. known' = known /\ watch' = watch /\ Len(versions') = Len(versions) + 1
      BY <1>2, <1>8 DEF informer
    <3>3. QED
      BY <3>1, <3>2
  <2>3. QED
    BY <1>1, <1>2, <1>8, <2>1, <2>2
       DEF NotifyTypeOK, informer, handler, messages, faults
<1>10. Loses
  BY <1>2 DEF Loses, InHand, handler, messages
<1>11. QED
  BY <1>8, <1>9, <1>10, Fewer DEF AlarmInv

LEMMA DeleteAlarm ==
  ASSUME AlarmInv, NEW n \in Names, DeletePod(n)
  PROVE  AlarmInv'
<1> PICK new : new = [pods EXCEPT ![n] = 0]
  OBVIOUS
<1>1. /\ MaxPods \in Nat /\ pods \in [Names -> 0..MaxPods] /\ NotifyTypeOK
      /\ Holds(pods) /\ \A u \in DOMAIN nameOf : u # 0
  <2>1. Holds(pods)
    BY VersionsKnown DEF AlarmInv, VersionsInOrder, pods
  <2>2. QED
    BY <2>1, NamesKnown, VersionsKnown DEF AlarmInv, Uids
<1>2. /\ versions' = Append(versions, new)
      /\ UNCHANGED << nameOf, informer, handler, starts, broker, messages,
                      faults >>
  BY DEF DeletePod, Change
<1>3. /\ new \in [Names -> 0..MaxPods] /\ new[n] = 0
      /\ \A m \in Names : m # n => new[m] = pods[m]
  BY <1>1
<1>4. Holds(new)'
  BY <1>1, <1>2, <1>3 DEF Holds
<1>5. \A m \in Names : new[m] \in DOMAIN nameOf => pods[m] = new[m]
  BY <1>1, <1>3
<1>6. /\ versions' \in Seq([Names -> 0..MaxPods]) /\ versions' # << >>
      /\ Len(versions') = Len(versions) + 1
      /\ VersionsInOrder' /\ \A m : Past(m) => Past(m)'
  <2>1. known' = known /\ starts' = starts /\ VersionsInOrder
    BY <1>2 DEF informer, AlarmInv
  <2>2. QED
    BY <1>1, <1>2, <1>3, <1>4, <1>5, <2>1, Changed
<1>7. NotifyTypeOK'
  <2>1. known' \in 0..Len(versions') /\ (watch' = "open" => known' > 0)
    <3>1. /\ Len(versions) \in Nat /\ known \in 0..Len(versions)
          /\ watch = "open" => known > 0
      BY <1>1, VersionsKnown DEF NotifyTypeOK
    <3>2. known' = known /\ watch' = watch /\ Len(versions') = Len(versions) + 1
      BY <1>2, <1>6 DEF informer
    <3>3. QED
      BY <3>1, <3>2
  <2>2. QED
    BY <1>1, <1>2, <1>6, <2>1
       DEF NotifyTypeOK, informer, handler, messages, faults
<1>8. Loses
  BY <1>2 DEF Loses, InHand, handler, messages
<1>9. QED
  BY <1>6, <1>7, <1>8, Fewer DEF AlarmInv

-----------------------------------------------------------------------------
(* The informer. *)

(* What is past stays so when the informer goes on to a later version.     *)
LEMMA InformerGoesOn ==
  ASSUME AlarmInv, UNCHANGED << server, starts >>, known' \in Nat,
         known' >= known
  PROVE  VersionsInOrder' /\ \A m : Past(m) => Past(m)'
<1>1. versions' = versions /\ nameOf' = nameOf /\ starts' = starts
  BY DEF server
<1>2. VersionsInOrder'
  BY <1>1 DEF AlarmInv, VersionsInOrder, Holds, Has
<1>3. \A v \in DOMAIN versions : v >= known' => v >= known
  BY VersionsKnown DEF AlarmInv
<1>4. \A u : /\ Deleted(u) => Deleted(u)'
             /\ Gone(u) => Gone(u)'
  BY <1>1, <1>3 DEF Deleted, pods, Gone, Has
<1>5. QED
  BY <1>1, <1>2, <1>4 DEF Past

(* A pod that the informer finds gone was not past, and is.                *)
LEMMA GoneNow ==
  ASSUME AlarmInv, UNCHANGED << server, starts >>,
         NEW v \in DOMAIN versions, v >= known, known' = v,
         NEW n \in Names, versions[v][n] = 0,
         NEW u, u = store[n], u # 0
  PROVE  /\ u \in Uids
         /\ Past(Message(u, starts))' /\ ~Past(Message(u, starts))
<1>1. /\ versions' = versions /\ nameOf' = nameOf /\ starts' = starts
      /\ starts \in Nat
  BY DEF server, AlarmInv, NotifyTypeOK
<1>2. /\ Len(versions) \in Nat /\ DOMAIN versions = 1..Len(versions)
      /\ Len(versions) \in DOMAIN versions /\ pods = versions[Len(versions)]
      /\ known \in DOMAIN versions /\ versions[known][n] = u
      /\ known <= v /\ v <= Len(versions) /\ known \in Nat /\ v \in Nat
  <2>1. known # 0
    BY DEF store, NoPods
  <2>2. /\ Len(versions) \in Nat /\ DOMAIN versions = 1..Len(versions)
        /\ Len(versions) \in DOMAIN versions
        /\ known \in DOMAIN versions /\ store = versions[known]
    BY <2>1, VersionsKnown DEF AlarmInv
  <2>3. QED
    BY <2>2 DEF pods
<1>3. /\ u \in DOMAIN nameOf /\ nameOf[u] = n /\ u \in Uids
      /\ \A w \in DOMAIN versions : \A m \in Names :
           versions[w][m] = u => m = n
  <2>1. \A w \in DOMAIN versions : Holds(versions[w])
    BY DEF AlarmInv, VersionsInOrder
  <2>2. u \in DOMAIN nameOf /\ nameOf[u] = n
    BY <1>2, <2>1 DEF Holds
  <2>3. QED
    BY <2>1, <2>2, NamesKnown DEF Holds, AlarmInv
<1>4. Has(known, u) /\ ~Has(v, u)
  BY <1>2, <1>3 DEF Has
<1>5. \A w \in DOMAIN versions : w >= v => ~Has(w, u)
  BY <1>2, <1>3, <1>4 DEF AlarmInv, VersionsInOrder
<1>6. Gone(u)' /\ ~Gone(u)
  <2>1. ~Gone(u)
    BY <1>2, <1>4 DEF Gone
  <2>2. Gone(u)'
    BY <1>1, <1>5 DEF Gone, Has
  <2>3. QED
    BY <2>1, <2>2
<1>7. Deleted(u)'
  BY <1>1, <1>2, <1>3, <1>5 DEF Deleted, pods, Has
<1>8. /\ Message(u, starts) \in Messages /\ Message(u, starts).uid = u
      /\ Message(u, starts).start = starts
  BY <1>1, <1>3 DEF Message, Messages
<1>9. QED
  BY <1>1, <1>3, <1>6, <1>7, <1>8 DEF Past

(* A further deletion is about to be announced: of pods that are past, and *)
(* about which nothing of this process is under way.                       *)
LEMMA MoreAhead ==
  ASSUME NotifyTypeOK, AllPast, InOnePlace, \A m : Past(m) => Past(m)',
         NEW more \in Seq(Deletions), pending' = pending \o more,
         IsInjective(Ahead(more, starts)),
         \A m \in Elements(Ahead(more, starts)) : Past(m)' /\ ~Past(m),
         UNCHANGED << sending, starts, messages >>
  PROVE  AllPast' /\ InOnePlace' /\ pending' \in Seq(Deletions)
<1> DEFINE a == Ahead(pending, starts)
           b == Ahead(more, starts)
<1>1. /\ pending \in Seq(Deletions) /\ a \in Seq(Messages)
      /\ b \in Seq(Messages) /\ Ahead(pending', starts') = a \o b
  <2>1. pending \in Seq(Deletions) /\ starts \in Nat
    BY DEF NotifyTypeOK
  <2>2. QED
    BY <2>1, AheadMoves
<1>2. /\ UNCHANGED << queue, received >> /\ InHand' = InHand
      /\ IsInjective(a) /\ IsInjective(b)
      /\ \A m \in Elements(received) \cup Elements(queue) \cup InHand
                  \cup Elements(a) : Past(m)
  BY DEF messages, InHand, InOnePlace, AllPast
<1>3. \A m \in Elements(b) : Past(m)' /\ ~Past(m)
  OBVIOUS
<1> HIDE DEF a, b
<1>4. (Elements(received) \cup Elements(queue) \cup InHand \cup Elements(a))
        \cap Elements(b) = {}
  BY <1>2, <1>3
<1>5. /\ Elements(a \o b) = Elements(a) \cup Elements(b)
      /\ IsInjective(a \o b)
  BY <1>1, <1>2, <1>4, Joined
<1>6. Elements(Ahead(pending, starts))' = Elements(a) \cup Elements(b)
  BY <1>1, <1>5
<1>7. AllPast'
  BY <1>2, <1>3, <1>6 DEF AllPast
<1>8. InOnePlace'
  BY <1>1, <1>2, <1>4, <1>5, <1>6 DEF InOnePlace, a
<1>9. pending' \in Seq(Deletions)
  BY <1>1, ConcatProperties
<1>10. QED
  BY <1>7, <1>8, <1>9

(* A single deletion. *)
LEMMA OneAhead ==
  ASSUME NEW uid \in Uids, NEW tombstone \in BOOLEAN, NEW start \in Nat,
         NEW more, more = << [uid |-> uid, tombstone |-> tombstone] >>
  PROVE  /\ more \in Seq(Deletions) /\ IsInjective(Ahead(more, start))
         /\ Elements(Ahead(more, start)) = {Message(uid, start)}
<1> PICK d : d = [uid |-> uid, tombstone |-> tombstone]
  OBVIOUS
<1>1. d \in Deletions /\ d.uid = uid
  BY DEF Deletions
<1>2. more \in Seq(Deletions) /\ DOMAIN more = 1..1 /\ more[1] = d
  BY <1>1
<1>3. /\ DOMAIN Ahead(more, start) = 1..1
      /\ Ahead(more, start)[1] = Message(uid, start)
  BY <1>1, <1>2 DEF Ahead
<1>4. QED
  BY <1>2, <1>3 DEF Elements, IsInjective

LEMMA DeliverAlarm ==
  ASSUME AlarmInv, DeliverEvent
  PROVE  AlarmInv'
<1>1. PICK n \in Names :
        /\ versions[known + 1][n] # store[n]
        /\ \/ versions[known + 1][n] # 0 /\ UNCHANGED pending
           \/ /\ versions[known + 1][n] = 0
              /\ pending' = pending \o
                   << [uid |-> store[n], tombstone |-> FALSE] >>
  BY DEF DeliverEvent, Announced
<1>2. /\ watch = "open" /\ known < Len(versions) /\ known' = known + 1
      /\ UNCHANGED << server, watch, sending, starts, broker, messages, faults >>
  BY DEF DeliverEvent
<1>3. /\ known \in Nat /\ known' \in Nat /\ known' >= known
      /\ known' \in DOMAIN versions /\ known' \in 0..Len(versions) /\ known' > 0
      /\ NotifyTypeOK
  BY <1>2, VersionsKnown DEF AlarmInv
<1>4. VersionsInOrder' /\ \A m : Past(m) => Past(m)'
  BY <1>2, <1>3, InformerGoesOn
<1>5. NotifyTypeOK' \/ pending' \notin Seq(Deletions)
  BY <1>2, <1>3 DEF NotifyTypeOK, server, messages, faults
<1>6. CASE UNCHANGED pending
  <2>1. Loses
    BY <1>2, <1>6 DEF Loses, InHand, messages
  <2>2. pending' \in Seq(Deletions)
    BY <1>3, <1>6 DEF NotifyTypeOK
  <2>3. QED
    BY <1>4, <1>5, <2>1, <2>2, Fewer DEF AlarmInv
<1>7. CASE /\ versions[known + 1][n] = 0
           /\ pending' = pending \o
                << [uid |-> store[n], tombstone |-> FALSE] >>
  <2> PICK u, m, more : /\ u = store[n] /\ m = Message(u, starts)
                        /\ more = << [uid |-> u, tombstone |-> FALSE] >>
    OBVIOUS
  <2>1. u \in Uids /\ starts \in Nat /\ Past(m)' /\ ~Past(m)
    <3>1. /\ u # 0 /\ versions[known'][n] = 0 /\ starts \in Nat /\ starts' = starts
      BY <1>1, <1>2, <1>3, <1>7 DEF NotifyTypeOK
    <3>2. /\ u \in Uids
          /\ Past(Message(u, starts))' /\ ~Past(Message(u, starts))
      BY <1>2, <1>3, <3>1, GoneNow
    <3>3. Past(m)' /\ ~Past(m)
      BY <3>1, <3>2
    <3>4. QED
      BY <3>1, <3>2, <3>3
  <2>2. /\ more \in Seq(Deletions) /\ IsInjective(Ahead(more, starts))
        /\ Elements(Ahead(more, starts)) = {m}
    BY <2>1, OneAhead
  <2>3. pending' = pending \o more
    BY <1>7
  <2>4. AllPast' /\ InOnePlace' /\ pending' \in Seq(Deletions)
    <3>1. \A p \in Elements(Ahead(more, starts)) : Past(p)' /\ ~Past(p)
      BY <2>1, <2>2
    <3>2. QED
      BY <1>2, <1>4, <2>2, <2>3, <3>1, MoreAhead DEF AlarmInv
  <2>5. QED
    BY <1>4, <1>5, <2>4 DEF AlarmInv
<1>8. QED
  BY <1>1, <1>6, <1>7

(* The list hands over the pods that it no longer has; none of them has    *)
(* been handed over in this process, as the informer still had it.         *)
LEMMA ListAlarm ==
  ASSUME AlarmInv, List
  PROVE  AlarmInv'
<1>1. PICK v \in Listed :
        /\ known' = v
        /\ LET gone == { store[n] : n \in { m \in Names :
                            store[m] # 0 /\ versions[v][m] = 0 } }
           IN \E order \in SetToSeqs(gone) :
                pending' = pending \o
                  [i \in DOMAIN order |->
                     [uid |-> order[i], tombstone |-> TRUE]]
  BY DEF List, Announced
<1> PICK gone : gone = { store[n] : n \in { m \in Names :
                            store[m] # 0 /\ versions[v][m] = 0 } }
  OBVIOUS
<1>2. PICK order \in SetToSeqs(gone) :
        pending' = pending \o
          [i \in DOMAIN order |-> [uid |-> order[i], tombstone |-> TRUE]]
  BY <1>1
<1> DEFINE more == [i \in DOMAIN order |->
                      [uid |-> order[i], tombstone |-> TRUE]]
<1>3. /\ watch' = "open" /\ v \in DOMAIN versions /\ v >= known
      /\ UNCHANGED << server, sending, starts, broker, messages, faults >>
      /\ NotifyTypeOK /\ starts \in Nat
  BY DEF List, Listed, AlarmInv, NotifyTypeOK
<1>4. /\ known' \in Nat /\ known' >= known /\ known' > 0
      /\ known' \in 0..Len(versions) /\ MaxPods \in Nat
  BY <1>1, <1>3, VersionsKnown, NotifyAssumption
<1>5. VersionsInOrder' /\ \A m : Past(m) => Past(m)'
  BY <1>3, <1>4, InformerGoesOn
<1>6. \A u \in gone : /\ u \in Uids
                      /\ Past(Message(u, starts))' /\ ~Past(Message(u, starts))
  <2> SUFFICES ASSUME NEW n \in Names, store[n] # 0, versions[v][n] = 0,
                      NEW u, u = store[n]
               PROVE  /\ u \in Uids
                      /\ Past(Message(u, starts))' /\ ~Past(Message(u, starts))
    OBVIOUS
  <2>1. QED
    BY <1>1, <1>3, GoneNow
<1>7. gone \subseteq Uids /\ IsFiniteSet(gone) /\ Cardinality(gone) \in Nat
  <2>1. IsFiniteSet(Uids)
    <3>1. MaxPods \in Int /\ 1 \in Int
      BY <1>4
    <3>2. QED
      BY <3>1, FS_Interval DEF Uids
  <2>2. QED
    BY <1>6, <2>1, FS_Subset, FS_CardinalityType
<1>8. pending' = pending \o more
  BY <1>2
<1>9. /\ order \in [1..Cardinality(gone) -> gone] /\ IsInjective(order)
      /\ DOMAIN order = 1..Cardinality(gone)
  BY DEF SetToSeqs, IsInjective
<1>10. more \in Seq(Deletions)
  <2>1. \A i \in DOMAIN order :
          [uid |-> order[i], tombstone |-> TRUE] \in Deletions
    BY <1>7, <1>9 DEF Deletions
  <2>2. more \in [1..Cardinality(gone) -> Deletions]
    BY <1>9, <2>1
  <2> HIDE DEF more
  <2>3. QED
    BY <1>7, <2>2, SeqDef
<1>11. Ahead(more, starts) = [i \in DOMAIN order |-> Message(order[i], starts)]
  BY DEF Ahead
<1> HIDE DEF more
<1>12. /\ IsInjective(Ahead(more, starts))
       /\ \A m \in Elements(Ahead(more, starts)) :
            \E u \in gone : m = Message(u, starts)
  <2>1. \A u, w : Message(u, starts) = Message(w, starts) => u = w
    BY DEF Message
  <2>2. IsInjective(Ahead(more, starts))
    BY <1>9, <1>11, <2>1 DEF IsInjective
  <2>3. QED
    BY <1>9, <1>11, <2>2 DEF Elements
<1>13. AllPast' /\ InOnePlace' /\ pending' \in Seq(Deletions)
  <2>1. \A m \in Elements(Ahead(more, starts)) : Past(m)' /\ ~Past(m)
    <3>1. \A u, m : m = Message(u, starts) => (Past(m)' <=> Past(Message(u, starts))')
      BY <1>3
    <3>2. QED
      BY <1>6, <1>12, <3>1
  <2>2. QED
    BY <1>3, <1>5, <1>8, <1>10, <1>12, <2>1, MoreAhead DEF AlarmInv
<1>14. NotifyTypeOK'
  BY <1>3, <1>4, <1>13 DEF NotifyTypeOK, server, messages, faults
<1>15. QED
  BY <1>5, <1>13, <1>14 DEF AlarmInv

LEMMA WatchExpiresAlarm ==
  ASSUME AlarmInv, WatchExpires
  PROVE  AlarmInv'
<1>1. /\ watch' = "list" /\ expiries' = expiries + 1
      /\ UNCHANGED << server, known, handler, starts, broker, messages,
                      crashes, outages >>
      /\ NotifyTypeOK
  BY DEF WatchExpires, AlarmInv
<1>2. NotifyTypeOK'
  BY <1>1 DEF NotifyTypeOK, server, handler, messages
<1>3. known' \in Nat /\ known' >= known
  BY <1>1, VersionsKnown
<1>4. Loses
  BY <1>1 DEF Loses, InHand, handler, messages
<1>5. QED
  BY <1>1, <1>2, <1>3, <1>4, InformerGoesOn, Fewer DEF AlarmInv

-----------------------------------------------------------------------------
(* The handler, the broker and the consumers. *)

(* What the informer knows stays. *)
LEMMA InformerStays ==
  ASSUME AlarmInv, UNCHANGED << server, known, starts >>
  PROVE  VersionsInOrder' /\ \A m : Past(m) => Past(m)'
<1>1. known' \in Nat /\ known' >= known
  BY VersionsKnown DEF AlarmInv
<1>2. QED
  BY <1>1, InformerGoesOn

(* The next process may list anything: what has been sent is none of its.  *)
LEMMA StartAgainAlarm ==
  ASSUME AlarmInv, StartAgain, UNCHANGED << server, messages >>
  PROVE  VersionsInOrder' /\ AllPast' /\ InOnePlace'
<1>1. /\ versions' = versions /\ nameOf' = nameOf /\ starts' = starts + 1
      /\ UNCHANGED << queue, received >> /\ starts \in Nat
      /\ pending' = << >> /\ InHand' = {}
  BY SendingType DEF StartAgain, messages, server, AlarmInv, NotifyTypeOK
<1>2. VersionsInOrder'
  BY <1>1 DEF AlarmInv, VersionsInOrder, Holds, Has
<1>3. \A m : Past(m) => Past(m)'
  <2>1. \A u : Deleted(u) => Deleted(u)'
    BY <1>1 DEF Deleted, pods
  <2>2. ASSUME NEW m, Past(m)
        PROVE  m.start <= starts' /\ m.start # starts'
    <3>1. m.start \in Nat /\ m.start <= starts
      BY <2>2 DEF Past, Messages
    <3>2. QED
      BY <1>1, <3>1
  <2>3. QED
    BY <1>1, <2>1, <2>2 DEF Past
<1>4. Loses
  BY <1>1 DEF Loses
<1>5. QED
  BY <1>2, <1>3, <1>4, Fewer DEF AlarmInv

LEMMA TakeAlarm ==
  ASSUME AlarmInv, TakeDeletion
  PROVE  AlarmInv'
<1> DEFINE a == Ahead(pending, starts)
           m == Message(Head(pending).uid, starts)
<1>1. /\ pending \in Seq(Deletions) /\ pending # << >>
      /\ pending' = Tail(pending) /\ starts \in Nat
      /\ sending.at = "idle"
      /\ sending' = [at |-> "dial", uid |-> Head(pending).uid, up |-> FALSE]
      /\ UNCHANGED << server, informer, starts, broker, messages, faults >>
  BY SendingType DEF TakeDeletion, AlarmInv, NotifyTypeOK
<1>2. /\ Tail(pending) \in Seq(Deletions) /\ Head(pending) \in Deletions
      /\ a \in Seq(Messages) /\ a # << >> /\ Head(a) = m
      /\ Ahead(pending', starts') = Tail(a)
  BY <1>1, AheadMoves, Taken
<1>3. Head(pending).uid \in 0..MaxPods
  <2>1. Head(pending).uid \in 1..MaxPods /\ MaxPods \in Nat
    BY <1>2, NotifyAssumption DEF Deletions, Uids
  <2>2. QED
    BY <2>1
<1>4. InHand = {} /\ InHand' = {m}
  BY <1>1, SendingType DEF InHand
<1>5. NotifyTypeOK'
  <2>1. sending' \in Sendings
    BY <1>1, <1>3 DEF Sendings
  <2>2. QED
    BY <1>1, <1>2, <2>1
       DEF AlarmInv, NotifyTypeOK, server, informer, messages, faults
<1>6. UNCHANGED << queue, received >>
  BY <1>1 DEF messages
<1>7. /\ IsInjective(a)
      /\ (Elements(received) \cup Elements(queue)) \cap Elements(a) = {}
      /\ \A p \in Elements(received) \cup Elements(queue)
                  \cup Elements(a) : Past(p)
  BY DEF AlarmInv, AllPast, InOnePlace
<1>8. VersionsInOrder' /\ \A p : Past(p) => Past(p)'
  BY <1>1, InformerStays DEF informer
<1> HIDE DEF a, m
<1>9. /\ Elements(a) = Elements(Tail(a)) \cup {m}
      /\ IsInjective(Tail(a)) /\ m \notin Elements(Tail(a))
  BY <1>2, <1>7, Taken
<1>10. AllPast'
  BY <1>2, <1>4, <1>6, <1>7, <1>8, <1>9 DEF AllPast
<1>11. InOnePlace'
  <2>1. IsInjective(received) /\ IsInjective(queue)
        /\ Elements(received) \cap Elements(queue) = {}
    BY DEF AlarmInv, InOnePlace
  <2>2. QED
    BY <1>2, <1>4, <1>6, <1>7, <1>9, <2>1 DEF InOnePlace
<1>12. QED
  BY <1>5, <1>8, <1>10, <1>11 DEF AlarmInv

(* A dial or a broker that is down costs the deletion, or everything under *)
(* way.                                                                    *)
LEMMA DialAlarm ==
  ASSUME AlarmInv, Dial \/ DeclareQueue \/ Crash
  PROVE  AlarmInv'
<1>1. CASE Dial \/ (DeclareQueue /\ UNCHANGED << informer, pending, starts >>
                      /\ sending' = [sending EXCEPT !.at = "publish"])
  <2>1. /\ UNCHANGED << server, informer, starts, broker, messages, faults >>
        /\ pending' = pending
        /\ sending' \in {Idle, [sending EXCEPT !.at = "declare", !.up = TRUE],
                         [sending EXCEPT !.at = "publish"]}
        /\ sending.at # "idle"
    BY <1>1 DEF Dial, DeclareQueue
  <2>2. sending' \in Sendings /\ InHand' \in {InHand, {}}
    <3>1. sending \in Sendings
      BY DEF AlarmInv, NotifyTypeOK
    <3>2. sending' \in Sendings
      BY <2>1, <3>1, SendingType DEF Sendings
    <3>3. InHand' \in {InHand, {}}
      BY <2>1, <3>1, SendingType DEF InHand, Sendings
    <3>4. QED
      BY <3>2, <3>3
  <2>3. NotifyTypeOK'
    BY <2>1, <2>2
       DEF AlarmInv, NotifyTypeOK, server, informer, messages, faults
  <2>4. Loses
    BY <2>1, <2>2 DEF Loses, messages
  <2>5. QED
    BY <2>1, <2>3, <2>4, InformerStays, Fewer DEF AlarmInv, informer
<1>2. CASE StartAgain /\ (DeclareQueue \/ Crash)
  <2>1. /\ UNCHANGED << server, messages, broker, outages, expiries >>
        /\ crashes' \in {crashes, crashes + 1}
    BY <1>2 DEF DeclareQueue, Crash, faults
  <2>2. NotifyTypeOK'
    <3>1. /\ NotifyTypeOK /\ Len(versions) \in Nat /\ starts \in Nat
          /\ starts' = starts + 1 /\ crashes \in Nat
      BY <1>2, VersionsKnown DEF AlarmInv, StartAgain, NotifyTypeOK
    <3>2. crashes' \in Nat /\ starts' \in Nat /\ 0 \in 0..Len(versions)
      BY <2>1, <3>1
    <3>3. << >> \in Seq(Deletions)
      OBVIOUS
    <3>4. QED
      BY <1>2, <2>1, <3>1, <3>2, <3>3, SendingType
         DEF NotifyTypeOK, StartAgain, messages, server
  <2>3. QED
    BY <1>2, <2>1, <2>2, StartAgainAlarm DEF AlarmInv
<1>3. DeclareQueue => \/ /\ UNCHANGED << informer, pending, starts >>
                         /\ sending' = [sending EXCEPT !.at = "publish"]
                      \/ StartAgain
  BY DEF DeclareQueue
<1>4. Crash => StartAgain
  BY DEF Crash
<1>5. QED
  BY <1>1, <1>2, <1>3, <1>4

LEMMA PublishAlarm ==
  ASSUME AlarmInv, Publish
  PROVE  AlarmInv'
<1> DEFINE m == Message(sending.uid, starts)
<1>1. /\ sending.at = "publish" /\ sending' = Idle
      /\ queue' \in {queue, Append(queue, m)}
      /\ UNCHANGED << server, informer, pending, starts, broker, received,
                      faults >>
  BY DEF Publish, Published, Message
<1>2. InHand = {m} /\ InHand' = {}
  BY <1>1, SendingType DEF InHand
<1>3. m \in Messages /\ Past(m)
  BY <1>2 DEF AlarmInv, AllPast, Past
<1>4. VersionsInOrder' /\ \A p : Past(p) => Past(p)'
  BY <1>1, InformerStays DEF informer
<1>5. /\ queue \in Seq(Messages) /\ pending' = pending /\ starts' = starts
      /\ received' = received
  BY <1>1 DEF AlarmInv, NotifyTypeOK
<1> HIDE DEF m
<1>6. NotifyTypeOK' \/ queue' \notin Seq(Messages)
  BY <1>1, SendingType DEF AlarmInv, NotifyTypeOK, server, informer, faults
<1>7. CASE queue' = queue
  <2>1. Loses
    BY <1>1, <1>2, <1>7 DEF Loses
  <2>2. QED
    BY <1>4, <1>5, <1>6, <1>7, <2>1, Fewer DEF AlarmInv
<1>8. CASE queue' = Append(queue, m)
  <2>1. /\ IsInjective(queue) /\ IsInjective(received)
        /\ IsInjective(Ahead(pending, starts))
        /\ Elements(received) \cap Elements(queue) = {}
        /\ (Elements(received) \cup Elements(queue))
             \cap Elements(Ahead(pending, starts)) = {}
        /\ m \notin Elements(received) /\ m \notin Elements(queue)
        /\ m \notin Elements(Ahead(pending, starts))
    BY <1>2 DEF AlarmInv, InOnePlace
  <2>2. /\ queue' \in Seq(Messages) /\ IsInjective(queue')
        /\ Elements(queue') = Elements(queue) \cup {m}
    BY <1>3, <1>5, <1>8, <2>1, Appended
  <2>3. AllPast'
    BY <1>2, <1>3, <1>4, <1>5, <2>2 DEF AlarmInv, AllPast
  <2>4. InOnePlace'
    BY <1>2, <1>5, <2>1, <2>2 DEF InOnePlace
  <2>5. QED
    BY <1>4, <1>6, <2>2, <2>3, <2>4 DEF AlarmInv
<1>9. QED
  BY <1>1, <1>7, <1>8

LEMMA BrokerAlarm ==
  ASSUME AlarmInv, BrokerStops \/ BrokerStarts
  PROVE  AlarmInv'
<1>1. /\ UNCHANGED << server, informer, pending, starts, received, crashes,
                      expiries >>
      /\ sending' \in {sending, [sending EXCEPT !.up = FALSE]}
      /\ queue' \in {queue, << >>} /\ outages' \in {outages, outages + 1}
      /\ broker' \in BOOLEAN
  BY DEF BrokerStops, BrokerStarts, messages, faults, handler
<1>2. /\ sending \in Sendings /\ queue \in Seq(Messages)
      /\ << >> \in Seq(Messages) /\ outages \in Nat
  BY DEF AlarmInv, NotifyTypeOK
<1>3. sending' \in Sendings /\ InHand' = InHand
  <2>1. sending' \in Sendings
    BY <1>1, <1>2 DEF Sendings
  <2>2. sending'.at = sending.at /\ sending'.uid = sending.uid
    BY <1>1, <1>2 DEF Sendings
  <2>3. QED
    BY <1>1, <2>1, <2>2 DEF InHand
<1>4. NotifyTypeOK'
  <2>1. queue' \in Seq(Messages)
    BY <1>1, <1>2
  <2>2. outages' \in Nat
    BY <1>1, <1>2
  <2>3. QED
    BY <1>1, <1>3, <2>1, <2>2 DEF AlarmInv, NotifyTypeOK, server, informer
<1>5. Loses
  BY <1>1, <1>3 DEF Loses
<1>6. QED
  BY <1>1, <1>4, <1>5, InformerStays, Fewer DEF AlarmInv, informer

LEMMA ConsumeAlarm ==
  ASSUME AlarmInv, Consume
  PROVE  AlarmInv'
<1> DEFINE m == Head(queue)
<1>1. /\ queue # << >> /\ queue' = Tail(queue)
      /\ received' = Append(received, m)
      /\ UNCHANGED << server, informer, handler, starts, broker, faults >>
      /\ queue \in Seq(Messages) /\ received \in Seq(Messages)
  BY DEF Consume, AlarmInv, NotifyTypeOK
<1>2. /\ IsInjective(queue) /\ IsInjective(received)
      /\ IsInjective(Ahead(pending, starts))
      /\ Elements(received) \cap Elements(queue) = {}
  BY DEF AlarmInv, InOnePlace
<1>3. /\ Tail(queue) \in Seq(Messages) /\ m \in Messages
      /\ Elements(queue) = Elements(queue') \cup {m}
      /\ IsInjective(queue') /\ m \notin Elements(queue')
  BY <1>1, <1>2, Taken
<1>4. /\ received' \in Seq(Messages) /\ IsInjective(received')
      /\ Elements(received') = Elements(received) \cup {m}
  <2>1. m \notin Elements(received)
    BY <1>2, <1>3
  <2>2. QED
    BY <1>1, <1>2, <1>3, <2>1, Appended
<1> HIDE DEF m
<1>5. VersionsInOrder' /\ \A p : Past(p) => Past(p)'
  BY <1>1, InformerStays DEF informer
<1>6. pending' = pending /\ starts' = starts /\ InHand' = InHand
  BY <1>1 DEF handler, InHand
<1>7. Elements(received') \cup Elements(queue')
        = Elements(received) \cup Elements(queue)
      /\ Elements(received') \cap Elements(queue') = {}
  BY <1>2, <1>3, <1>4
<1>8. NotifyTypeOK'
  BY <1>1, <1>3, <1>4
     DEF AlarmInv, NotifyTypeOK, server, informer, handler, faults
<1>9. AllPast'
  BY <1>5, <1>6, <1>7 DEF AlarmInv, AllPast
<1>10. InOnePlace'
  BY <1>2, <1>3, <1>4, <1>6, <1>7 DEF AlarmInv, InOnePlace
<1>11. QED
  BY <1>5, <1>8, <1>9, <1>10 DEF AlarmInv

-----------------------------------------------------------------------------
(* The inductive invariant of what is announced: the informer has only     *)
(* what is not announced, and whatever it has not, its process will not    *)
(* have again.                                                             *)
THEOREM AlarmInvCorrect == Spec => []AlarmInv
<1>1. Init => AlarmInv
  <2> SUFFICES ASSUME Init PROVE AlarmInv
    OBVIOUS
  <2>1. NotifyInit /\ MaxPods \in Nat
    BY NotifyAssumption DEF Init
  <2>2. InHand = {}
    BY <2>1 DEF NotifyInit, InHand, Idle
  <2>3. /\ versions = << NoPods >> /\ NoPods \in [Names -> 0..MaxPods]
        /\ DOMAIN versions = {1} /\ versions[1] = NoPods /\ Len(versions) = 1
        /\ versions \in Seq([Names -> 0..MaxPods]) /\ versions # << >>
    <3>1. NoPods \in [Names -> 0..MaxPods]
      BY <2>1 DEF NoPods
    <3> HIDE DEF NoPods
    <3>2. versions = << NoPods >>
      BY <2>1 DEF NotifyInit
    <3>3. << NoPods >> \in Seq([Names -> 0..MaxPods])
      BY <3>1
    <3>4. DOMAIN << NoPods >> = {1} /\ << NoPods >>[1] = NoPods
          /\ Len(<< NoPods >>) = 1 /\ << NoPods >> # << >>
      OBVIOUS
    <3>5. QED
      BY <3>1, <3>2, <3>3, <3>4
  <2>4. NotifyTypeOK
    <3>1. nameOf \in UNION { [1..n -> Names] : n \in 0..MaxPods }
      <4>1. << >> \in Seq(Names) /\ Len(<< >>) = 0
        OBVIOUS
      <4>2. nameOf = << >>
        BY <2>1 DEF NotifyInit
      <4>3. QED
        BY <2>1, <4>1, <4>2, NameOfType
    <3>2. known \in 0..Len(versions) /\ (watch = "open" => known > 0)
      BY <2>1, <2>3 DEF NotifyInit
    <3>3. << >> \in Seq(Deletions) /\ << >> \in Seq(Messages)
      OBVIOUS
    <3>4. QED
      BY <2>1, <2>3, <3>1, <3>2, <3>3, SendingType DEF NotifyInit, NotifyTypeOK
  <2>5. VersionsInOrder
    BY <2>3 DEF VersionsInOrder, Holds, Has, NoPods
  <2>6. AllPast /\ InOnePlace
    BY <2>1, <2>2, NothingLeft DEF NotifyInit, AllPast, InOnePlace
  <2>7. QED
    BY <2>4, <2>5, <2>6 DEF AlarmInv
<1>2. AlarmInv /\ [Next]_podVars => AlarmInv'
  <2> SUFFICES ASSUME AlarmInv, [Next]_podVars PROVE AlarmInv'
    OBVIOUS
  <2>1. CASE UNCHANGED vars
    <3>1. UNCHANGED << server, informer, handler, starts, broker, messages,
                       faults >>
      BY <2>1 DEF vars
    <3>2. NotifyTypeOK'
      BY <3>1 DEF AlarmInv, NotifyTypeOK, server, informer, handler, messages,
                  faults
    <3>3. Loses
      BY <3>1 DEF Loses, InHand, handler, messages
    <3>4. QED
      BY <3>1, <3>2, <3>3, InformerStays, Fewer DEF AlarmInv, informer
  <2>2. CASE NotifyNext
    BY <2>2, DeleteAlarm, DeliverAlarm, ListAlarm, WatchExpiresAlarm, TakeAlarm,
       DialAlarm, PublishAlarm, BrokerAlarm, ConsumeAlarm
       DEF NotifyNext, ControllerStep, Send
  <2>3. ASSUME NEW n \in Names,
               \/ \E manifest \in Manifests : Submit(n, manifest)
               \/ HandleMutate(n) \/ CallFails(n) \/ StorePod(n)
        PROVE  UNCHANGED vars \/ CreatePod(n)
    BY <2>3 DEF Submit, HandleMutate, CallFails, StorePod
  <2>4. QED
    BY <2>1, <2>2, <2>3, CreateAlarm DEF Next, podVars
<1>3. QED
  BY <1>1, <1>2, PTL DEF Spec

(* Whatever restarts of the controller, gaps of its watch, old first lists *)
(* and stops of the broker come between: a consumer never hears of a pod   *)
(* that is still there, nor twice of one from the same process.            *)
THEOREM NoFalseAlarmCorrect == Spec => []NoFalseAlarm
<1>1. AlarmInv => NoFalseAlarm
  <2> SUFFICES ASSUME AlarmInv PROVE NoFalseAlarm
    OBVIOUS
  <2> DEFINE heard == received \o queue
  <2>1. received \in Seq(Messages) /\ queue \in Seq(Messages)
    BY DEF AlarmInv, NotifyTypeOK
  <2>2. /\ Elements(heard) = Elements(received) \cup Elements(queue)
        /\ IsInjective(heard)
    BY <2>1, Joined DEF AlarmInv, InOnePlace
  <2>3. \A m \in Elements(heard) : Deleted(m.uid)
    BY <2>2 DEF AlarmInv, AllPast, Past
  <2> HIDE DEF heard
  <2>4. \A i \in DOMAIN heard : Deleted(heard[i].uid)
    BY <2>3 DEF Elements
  <2>5. QED
    BY <2>2, <2>4 DEF NoFalseAlarm, heard
<1>2. QED
  BY <1>1, AlarmInvCorrect, PTL

(* The variables keep their types, and each uid that the API server gives  *)
(* is that of one admitted pod.                                            *)
THEOREM PodTypeCorrect == Spec => []TypeOK
<1> DEFINE Lengths == Len(admitted) = Len(nameOf)
<1>1. Init => Lengths
  BY DEF Init, NotifyInit
<1>2. Lengths /\ AdmissionIInv /\ [Next]_podVars => Lengths'
  <2> SUFFICES ASSUME Lengths, AdmissionIInv, [Next]_podVars PROVE Lengths'
    OBVIOUS
  <2>1. admitted \in Seq(Pods) /\ nameOf \in Seq(Names)
        /\ requests \in [Names -> Requests]
    BY DEF AdmissionIInv, AdmissionTypes
  <2>2. CASE UNCHANGED << nameOf, admitted >>
    BY <2>2
  <2>3. ASSUME NEW n \in Names, StorePod(n), CreatePod(n),
               admitted' = Append(admitted,
                 [optedIn |-> requests[n].optedIn, asked |-> requests[n].asked,
                  containers |-> requests[n].containers])
        PROVE  Lengths'
    <3>1. [optedIn |-> requests[n].optedIn, asked |-> requests[n].asked,
           containers |-> requests[n].containers] \in Pods
      BY <2>1 DEF Requests, Pods
    <3>2. nameOf' = Append(nameOf, n)
      BY <2>3 DEF CreatePod
    <3>3. Len(nameOf') = Len(nameOf) + 1 /\ Len(admitted') = Len(admitted) + 1
      BY <2>1, <2>3, <3>1, <3>2, AppendProperties
    <3>4. QED
      BY <3>3
  <2>4. NotifyNext => UNCHANGED nameOf
    BY NotifyAdmits
  <2>5. ASSUME NEW n \in Names,
               \/ \E manifest \in Manifests : Submit(n, manifest)
               \/ HandleMutate(n) \/ CallFails(n)
        PROVE  UNCHANGED << nameOf, admitted >>
    BY <2>5 DEF Submit, HandleMutate, CallFails, vars, server
  <2>6. ASSUME NEW n \in Names, StorePod(n)
        PROVE  Lengths'
    <3>1. CASE UNCHANGED << vars, admitted >>
      BY <2>2, <3>1 DEF vars, server
    <3>2. QED
      BY <2>3, <2>6, <3>1 DEF StorePod
  <2>7. UNCHANGED podVars => UNCHANGED << nameOf, admitted >>
    BY DEF podVars, vars, server
  <2>8. QED
    BY <2>2, <2>4, <2>5, <2>6, <2>7 DEF Next
<1>3. AdmissionIInv /\ AlarmInv /\ Lengths => TypeOK
  BY DEF AdmissionIInv, AdmissionTypes, AlarmInv, TypeOK
<1>4. QED
  BY <1>1, <1>2, <1>3, AdmissionInvCorrect, AlarmInvCorrect, PTL DEF Spec
=============================================================================
