------------------------ MODULE SessionLedgerProofs ------------------------
(***************************************************************************)
(* What the operators of SessionLedger return, for every value of the      *)
(* constants: lemmas that the proofs about the modules built on them cite. *)
(* The path walk is a recursive function; what it returns on a path of any *)
(* length is proved with SetInduction, by the least place at which it      *)
(* would fail.                                                             *)
(***************************************************************************)
EXTENDS SessionLedger, SequenceTheorems, FiniteSetTheorems, WellFoundedInduction,
        TLAPS

\* A nonempty set of naturals has a minimum, and Min is it.
LEMMA MinOfNats ==
    ASSUME NEW S \in SUBSET Nat, S # {}
    PROVE  Min(S) \in S /\ \A y \in S : Min(S) <= y
<1>. DEFINE Less == {ss \in Nat \X Nat : ss[1] < ss[2]}
<1>0. IsWellFoundedOn(Less, Nat)
    BY NatLessThanWellFounded DEF OpToRel
<1>1. PICK x \in S : \A y \in S : ~(<<y, x>> \in Less)
    <2>. HIDE DEF Less
    <2>. QED  BY <1>0, WFMin
<1>2. ASSUME NEW y \in S
      PROVE  x <= y
    <2>1. <<y, x>> \in Nat \X Nat /\ <<y, x>> \notin Less
        BY <1>1
    <2>2. ~(<<y, x>>[1] < <<y, x>>[2])
        BY <2>1
    <2>. QED
        BY <2>2
<1>. QED
    BY <1>2 DEF Min

\* Induction, said of a set: what has 0, and m whenever it has m - 1, has every
\* natural up to n.
LEMMA SetInduction ==
    ASSUME NEW n \in Nat, NEW S, 0 \in S, \A m \in 1..n : m - 1 \in S => m \in S
    PROVE  0..n \subseteq S
<1>. DEFINE Out == (0..n) \ S
<1>1. SUFFICES ASSUME Out # {} PROVE FALSE
    OBVIOUS
<1>2. PICK m \in Out : \A k \in Out : m <= k
    <2>1. Out \in SUBSET Nat
        OBVIOUS
    <2>. HIDE DEF Out
    <2>. QED
        BY <1>1, <2>1, MinOfNats
<1>3. m \in 1..n /\ m - 1 \in 0..n /\ m - 1 \notin Out
    BY <1>2
<1>. QED
    BY <1>2, <1>3

\* FirstDroppable is the first message that the cap may drop, or 0.
LEMMA FirstDroppableProperties ==
    ASSUME NEW msgs \in Seq(Message), NEW first, first = FirstDroppable(msgs)
    PROVE  /\ first \in 0..Len(msgs)
           /\ first # 0 => Droppable(msgs[first])
           /\ first = 0 => \A i \in DOMAIN msgs : ~Droppable(msgs[i])
           /\ \A i \in DOMAIN msgs : i < first => ~Droppable(msgs[i])
<1>. DEFINE I == {i \in 1..Len(msgs) : Droppable(msgs[i])}
<1>0. Len(msgs) \in Nat /\ DOMAIN msgs = 1..Len(msgs)
    BY LenProperties
<1>1. first = IF I # {} THEN Min(I) ELSE 0
    BY DEF FirstDroppable, SelectInSeq
<1>2. CASE I = {}
    <2>1. first = 0
        BY <1>1, <1>2
    <2>2. \A i \in DOMAIN msgs : ~Droppable(msgs[i])
        BY <1>0, <1>2
    <2>. QED
        BY <1>0, <2>1, <2>2
<1>3. CASE I # {}
    <2>. HIDE DEF I
    <2>1. I \in SUBSET Nat
        BY <1>0 DEF I
    <2>2. first \in I /\ \A y \in I : first <= y
        BY <1>1, <1>3, <2>1, MinOfNats
    <2>3. first \in 1..Len(msgs) /\ Droppable(msgs[first])
        BY <2>2 DEF I
    <2>4. \A i \in DOMAIN msgs : i < first => i \notin I
        BY <1>0, <2>2, <2>3
    <2>. QED
        BY <1>0, <2>3, <2>4 DEF I
<1>. QED
    BY <1>2, <1>3

\* Removing an element: the result is a sequence one shorter.
LEMMA RemoveAtProperties ==
    ASSUME NEW S, NEW s \in Seq(S), NEW k \in 1..Len(s)
    PROVE  /\ RemoveAt(s, k) \in Seq(S)
           /\ Len(RemoveAt(s, k)) = Len(s) - 1
           /\ \A i \in 1..(Len(s) - 1) :
                RemoveAt(s, k)[i] = IF i < k THEN s[i] ELSE s[i + 1]
<1>. DEFINE front == SubSeq(s, 1, k - 1)
            back == SubSeq(s, k + 1, Len(s))
<1>0. Len(s) \in Nat /\ DOMAIN s = 1..Len(s) /\ \A i \in 1..Len(s) : s[i] \in S
    BY LenProperties, ElementOfSeq
<1>1. /\ front \in Seq(S)
      /\ Len(front) = k - 1
      /\ \A i \in 1..(k - 1) : front[i] = s[i]
    <2>1. \A i \in 1..(k - 1) : s[i] \in S
        BY <1>0
    <2>2. /\ front \in Seq(S)
          /\ Len(front) = IF 1 <= k - 1 THEN (k - 1) - 1 + 1 ELSE 0
          /\ \A i \in 1..((k - 1) - 1 + 1) : front[i] = s[1 + i - 1]
        BY <1>0, <2>1, SubSeqProperties, k - 1 \in Int
    <2>. QED
        BY <1>0, <2>2
<1>2. /\ back \in Seq(S)
      /\ Len(back) = Len(s) - k
      /\ \A i \in 1..(Len(s) - k) : back[i] = s[i + k]
    <2>1. \A i \in (k + 1)..Len(s) : s[i] \in S
        BY <1>0
    <2>2. /\ back \in Seq(S)
          /\ Len(back) = IF k + 1 <= Len(s) THEN Len(s) - (k + 1) + 1 ELSE 0
          /\ \A i \in 1..(Len(s) - (k + 1) + 1) : back[i] = s[(k + 1) + i - 1]
        BY <1>0, <2>1, SubSeqProperties, k + 1 \in Int
    <2>. HIDE DEF back
    <2>3. ASSUME NEW i \in 1..(Len(s) - k)
          PROVE  back[i] = s[i + k]
        <3>1. (k + 1) + i - 1 = i + k /\ i \in 1..(Len(s) - (k + 1) + 1)
            BY <1>0
        <3>. QED
            BY <2>2, <3>1
    <2>4. Len(back) = Len(s) - k
        <3>1. ASSUME NEW n \in Nat, NEW j \in 1..n
              PROVE  (IF j + 1 <= n THEN n - (j + 1) + 1 ELSE 0) = n - j
            OBVIOUS
        <3>. QED
            BY <1>0, <2>2, <3>1
    <2>. QED
        BY <2>2, <2>3, <2>4
<1>. HIDE DEF front, back
<1>3. /\ front \o back \in Seq(S)
      /\ Len(front \o back) = Len(front) + Len(back)
      /\ \A i \in 1..(Len(front) + Len(back)) :
            (front \o back)[i] = IF i <= Len(front) THEN front[i]
                                 ELSE back[i - Len(front)]
    BY <1>1, <1>2, ConcatProperties
<1>4. RemoveAt(s, k) = front \o back
    BY DEF RemoveAt, front, back
<1>5. ASSUME NEW i \in 1..(Len(s) - 1)
      PROVE  (front \o back)[i] = IF i < k THEN s[i] ELSE s[i + 1]
    <2>1. CASE i < k
        <3>1. i \in 1..(k - 1) /\ i \in 1..(Len(front) + Len(back))
            BY <1>0, <1>1, <1>2, <2>1
        <3>2. (front \o back)[i] = front[i]
            BY <1>1, <1>3, <3>1
        <3>. QED
            BY <1>1, <2>1, <3>1, <3>2
    <2>2. CASE ~(i < k)
        <3>1. i - (k - 1) \in 1..(Len(s) - k)
            BY <1>0, <2>2
        <3>2. (front \o back)[i] = back[i - (k - 1)]
            <4>1. i \in 1..(Len(front) + Len(back)) /\ ~(i <= Len(front))
                BY <1>0, <1>1, <1>2, <2>2
            <4>. QED
                BY <1>1, <1>3, <4>1
        <3>3. back[i - (k - 1)] = s[(i - (k - 1)) + k]
            BY <1>2, <3>1
        <3>4. (i - (k - 1)) + k = i + 1
            BY <1>0
        <3>. QED
            BY <2>2, <3>2, <3>3, <3>4
    <2>. QED
        BY <2>1, <2>2
<1>6. Len(front) + Len(back) = Len(s) - 1
    BY <1>0, <1>1, <1>2
<1>. QED
    BY <1>3, <1>4, <1>5, <1>6

----------------------------------------------------------------------------
\* What a step may not change in a message it keeps.
Same(m, n) ==
    /\ m.id = n.id /\ m.role = n.role /\ m.parent = n.parent
    /\ n.truncated => m.truncated

\* Marking the cut changes no id, parent or role.
LEMMA MarkTruncatedProperties ==
    ASSUME NEW msgs \in Seq(Message)
    PROVE  /\ MarkTruncated(msgs) \in Seq(Message)
           /\ Len(MarkTruncated(msgs)) = Len(msgs)
           /\ \A i \in 1..Len(msgs) : Same(MarkTruncated(msgs)[i], msgs[i])
<1>. DEFINE first == FirstDroppable(msgs)
            marked == [msgs[first] EXCEPT !.truncated = TRUE]
<1>1. CASE first = 0
    BY <1>1 DEF MarkTruncated, Same
<1>2. CASE first # 0
    <2>1. first \in 1..Len(msgs)
        BY <1>2, FirstDroppableProperties
    <2>2. msgs[first] \in Message
        BY <2>1, ElementOfSeq
    <2>3. marked \in Message /\ Same(marked, msgs[first])
        BY <2>2 DEF Message, Same
    <2>4. MarkTruncated(msgs) = [msgs EXCEPT ![first] = marked]
        BY <1>2 DEF MarkTruncated
    <2>. HIDE DEF first, marked
    <2>5. /\ [msgs EXCEPT ![first] = marked] \in Seq(Message)
          /\ Len([msgs EXCEPT ![first] = marked]) = Len(msgs)
          /\ \A j \in 1..Len(msgs) : [msgs EXCEPT ![first] = marked][j]
                                        = IF j = first THEN marked ELSE msgs[j]
        BY <2>1, <2>3, ExceptSeq
    <2>. QED
        BY <2>3, <2>4, <2>5 DEF Same
<1>. QED
    BY <1>1, <1>2

\* Capped keeps the messages but one, at k; k is out of range when it keeps
\* them all.
LEMMA CappedProperties ==
    ASSUME NEW msgs \in Seq(Message)
    PROVE  /\ Capped(msgs) \in Seq(Message)
           /\ \E k \in 1..(Len(msgs) + 1) :
                /\ Len(Capped(msgs)) = IF k = Len(msgs) + 1 THEN Len(msgs)
                                       ELSE Len(msgs) - 1
                /\ \A i \in 1..Len(Capped(msgs)) :
                      Same(Capped(msgs)[i], msgs[IF i < k THEN i ELSE i + 1])
                /\ k = Len(msgs) + 1 =>
                      Len(msgs) <= MaxMessages \/ FirstDroppable(msgs) = 0
                /\ k # Len(msgs) + 1 =>
                      Len(msgs) > MaxMessages /\ k = FirstDroppable(msgs)
<1>. DEFINE first == FirstDroppable(msgs)
            rest == RemoveAt(msgs, first)
<1>0. Len(msgs) \in Nat /\ MaxMessages \in Nat
    BY LenProperties, MaxMessagesAssumption
<1>1. first \in 0..Len(msgs)
    BY FirstDroppableProperties
<1>. HIDE DEF first
<1>2. CASE ~(Len(msgs) > MaxMessages /\ first # 0)
    <2>1. Capped(msgs) = msgs
        BY <1>2 DEF Capped, OverCap, first
    <2>2. \A i \in 1..Len(msgs) :
            Same(msgs[i], msgs[IF i < Len(msgs) + 1 THEN i ELSE i + 1])
        BY <1>0 DEF Same
    <2>. QED
        BY <1>0, <1>2, <2>1, <2>2 DEF first
<1>3. CASE Len(msgs) > MaxMessages /\ first # 0
    <2>1. Capped(msgs) = MarkTruncated(rest)
        BY <1>3 DEF Capped, OverCap, first
    <2>2. first \in 1..Len(msgs)
        BY <1>1, <1>3
    <2>3. /\ rest \in Seq(Message)
          /\ Len(rest) = Len(msgs) - 1
          /\ \A i \in 1..(Len(msgs) - 1) :
                rest[i] = IF i < first THEN msgs[i] ELSE msgs[i + 1]
        BY <2>2, RemoveAtProperties
    <2>. HIDE DEF rest
    <2>4. /\ Capped(msgs) \in Seq(Message)
          /\ Len(Capped(msgs)) = Len(msgs) - 1
          /\ \A i \in 1..(Len(msgs) - 1) : Same(Capped(msgs)[i], rest[i])
        BY <2>1, <2>3, MarkTruncatedProperties
    <2>5. \A i \in 1..Len(Capped(msgs)) :
            Same(Capped(msgs)[i], msgs[IF i < first THEN i ELSE i + 1])
        BY <2>3, <2>4
    <2>6. first # Len(msgs) + 1 /\ first \in 1..(Len(msgs) + 1)
        BY <1>0, <2>2
    <2>. QED
        BY <1>3, <2>4, <2>5, <2>6 DEF first
<1>. QED
    BY <1>2, <1>3

----------------------------------------------------------------------------
\* The ledger append_message caps: the old one and the new message.
Longer(s, id, role, parentArg) ==
    Append(s.msgs, NewMessage(id, role, ParentFor(s, parentArg)))

\* The ledger with the new message on it, before the cap is applied.
LEMMA LongerProperties ==
    ASSUME NEW s \in Session, NEW id \in Nat \ {0}, NEW role \in Roles,
           NEW parentArg \in Nat
    PROVE  /\ Longer(s, id, role, parentArg) \in Seq(Message)
           /\ Len(Longer(s, id, role, parentArg)) = Len(s.msgs) + 1
           /\ \A i \in 1..Len(s.msgs) :
                Longer(s, id, role, parentArg)[i] = s.msgs[i]
           /\ Longer(s, id, role, parentArg)[Len(s.msgs) + 1]
                = NewMessage(id, role, ParentFor(s, parentArg))
<1>1. s.msgs \in Seq(Message) /\ ParentFor(s, parentArg) \in Nat
    BY DEF Session, ParentFor
<1>2. NewMessage(id, role, ParentFor(s, parentArg)) \in Message
    BY <1>1 DEF NewMessage, Message
<1>. QED
    BY <1>1, <1>2, AppendProperties DEF Longer

\* append_message returns a session, in which the new message is the tip and
\* the totals are what they were.
LEMMA AppendMessageType ==
    ASSUME NEW s \in Session, NEW id \in Nat \ {0}, NEW role \in Roles,
           NEW parentArg \in Nat
    PROVE  /\ AppendMessage(s, id, role, parentArg) \in Session
           /\ AppendMessage(s, id, role, parentArg).msgs
                = Capped(Longer(s, id, role, parentArg))
           /\ AppendMessage(s, id, role, parentArg).tip = id
           /\ AppendMessage(s, id, role, parentArg).totals = s.totals
<1>1. Capped(Longer(s, id, role, parentArg)) \in Seq(Message)
    BY LongerProperties, CappedProperties
<1>2. (IF s.title = "default" /\ role = "user" THEN "auto" ELSE s.title) \in Titles
    BY DEF Session, Titles
<1>. QED
    BY <1>1, <1>2 DEF AppendMessage, Longer, Session

\* It keeps the ledger in order if the new id is larger than the ids that are
\* there, and the new parent is older.
LEMMA AppendMessageOrdered ==
    ASSUME NEW s \in Session, NEW id \in Nat \ {0}, NEW role \in Roles,
           NEW parentArg \in Nat,
           Ordered(s), s.tip < id, parentArg < id,
           \A i \in DOMAIN s.msgs : s.msgs[i].id < id
    PROVE  LET new == AppendMessage(s, id, role, parentArg)
           IN  /\ Ordered(new)
               /\ \A i \in DOMAIN new.msgs : new.msgs[i].id <= id
<1>. DEFINE long == Longer(s, id, role, parentArg)
            new == Capped(long)
            n == Len(s.msgs)
            At(k, i) == IF i < k THEN i ELSE i + 1
<1>1. /\ s.msgs \in Seq(Message)
      /\ n \in Nat
      /\ DOMAIN s.msgs = 1..n
    BY LenProperties DEF Session
<1>2. /\ long \in Seq(Message)
      /\ Len(long) = n + 1
      /\ \A i \in 1..n : long[i] = s.msgs[i]
      /\ long[n + 1] = NewMessage(id, role, ParentFor(s, parentArg))
    BY LongerProperties
<1>3. ParentFor(s, parentArg) < id
    BY DEF ParentFor
<1>4. long[n + 1].id = id /\ long[n + 1].parent < id
    BY <1>2, <1>3 DEF NewMessage
<1>. HIDE DEF long, n
<1>5. \A i \in 1..(n + 1) :
        /\ long[i] \in Message
        /\ long[i].parent < long[i].id
        /\ long[i].id <= id
    <2>1. \A i \in 1..(n + 1) : long[i] \in Message
        BY <1>2, ElementOfSeq
    <2>2. \A i \in 1..n : long[i].parent < long[i].id /\ long[i].id < id
        BY <1>1, <1>2 DEF Ordered
    <2>3. ASSUME NEW i \in 1..(n + 1)
          PROVE  long[i].parent < long[i].id /\ long[i].id <= id
        <3>1. CASE i \in 1..n
            <4>1. long[i].id \in Nat
                BY <2>1 DEF Message
            <4>. QED
                BY <2>2, <3>1, <4>1
        <3>2. CASE i = n + 1
            BY <1>4, <3>2
        <3>. QED
            BY <1>1, <3>1, <3>2
    <2>. QED
        BY <2>1, <2>3
<1>6. \A i, j \in 1..(n + 1) : i < j => long[i].id < long[j].id
    <2>1. \A i, j \in 1..n : i < j => long[i].id < long[j].id
        BY <1>1, <1>2 DEF Ordered
    <2>2. ASSUME NEW i \in 1..n
          PROVE  long[i].id < id
        <3>1. s.msgs[i].id < id
            BY <1>1
        <3>. QED
            BY <1>2, <3>1
    <2>3. ASSUME NEW i \in 1..(n + 1), NEW j \in 1..(n + 1), i < j
          PROVE  long[i].id < long[j].id
        <3>1. i \in 1..n /\ (j \in 1..n \/ j = n + 1)
            BY <1>1, <2>3
        <3>2. CASE j \in 1..n
            BY <2>1, <2>3, <3>1, <3>2
        <3>3. CASE j = n + 1
            BY <1>4, <2>2, <3>1, <3>3
        <3>. QED
            BY <3>1, <3>2, <3>3
    <2>. QED
        BY <2>3
<1>7. PICK k \in 1..(n + 2) :
        /\ Len(new) = IF k = n + 2 THEN n + 1 ELSE n
        /\ \A i \in 1..Len(new) : Same(new[i], long[At(k, i)])
    <2>1. PICK k \in 1..(Len(long) + 1) :
            /\ Len(new) = IF k = Len(long) + 1 THEN Len(long) ELSE Len(long) - 1
            /\ \A i \in 1..Len(new) : Same(new[i], long[IF i < k THEN i ELSE i + 1])
        BY <1>2, CappedProperties
    <2>2. Len(long) + 1 = n + 2 /\ Len(long) - 1 = n
        BY <1>1, <1>2
    <2>. QED
        BY <1>2, <2>1, <2>2
<1>8. DOMAIN new = 1..Len(new)
    BY <1>2, CappedProperties, LenProperties
<1>. HIDE DEF new
<1>9. \A i \in 1..Len(new) : At(k, i) \in 1..(n + 1)
    BY <1>1, <1>7
<1>10. \A i, j \in 1..Len(new) : i < j => At(k, i) < At(k, j)
    BY <1>1, <1>7
<1>11. \A i \in 1..Len(new) :
        new[i].id = long[At(k, i)].id /\ new[i].parent = long[At(k, i)].parent
    BY <1>7 DEF Same
<1>. HIDE DEF At
<1>12. /\ \A i, j \in DOMAIN new : i < j => new[i].id < new[j].id
       /\ \A i \in DOMAIN new : new[i].parent < new[i].id
       /\ \A i \in DOMAIN new : new[i].id <= id
    <2>1. ASSUME NEW i \in DOMAIN new, NEW j \in DOMAIN new, i < j
          PROVE  new[i].id < new[j].id
        <3>1. /\ At(k, i) \in 1..(n + 1) /\ At(k, j) \in 1..(n + 1)
              /\ At(k, i) < At(k, j)
            BY <1>8, <1>9, <1>10, <2>1
        <3>2. long[At(k, i)].id < long[At(k, j)].id
            BY <1>6, <3>1
        <3>. QED
            BY <1>8, <1>11, <3>2
    <2>2. ASSUME NEW i \in DOMAIN new
          PROVE  new[i].parent < new[i].id /\ new[i].id <= id
        BY <1>5, <1>8, <1>9, <1>11
    <2>. QED
        BY <2>1, <2>2
<1>13. AppendMessage(s, id, role, parentArg).msgs = new
    BY AppendMessageType DEF new, long
<1>. QED
    BY <1>12, <1>13 DEF Ordered

\* It keeps the ledger within its cap: dropping one message is enough.
LEMMA AppendMessageWithinCap ==
    ASSUME NEW s \in Session, NEW id \in Nat \ {0}, NEW role \in Roles,
           NEW parentArg \in Nat,
           WithinCap(s)
    PROVE  WithinCap(AppendMessage(s, id, role, parentArg))
<1>. DEFINE long == Longer(s, id, role, parentArg)
            new == Capped(long)
            n == Len(s.msgs)
<1>1. /\ s.msgs \in Seq(Message)
      /\ n \in Nat /\ MaxMessages \in Nat
      /\ DOMAIN s.msgs = 1..n
    BY LenProperties, MaxMessagesAssumption DEF Session
<1>2. /\ long \in Seq(Message)
      /\ Len(long) = n + 1
      /\ \A i \in 1..n : long[i] = s.msgs[i]
    BY LongerProperties
<1>3. AppendMessage(s, id, role, parentArg).msgs = new
    BY AppendMessageType
<1>. HIDE DEF long, n
<1>4. PICK k \in 1..(n + 2) :
        /\ Len(new) = IF k = n + 2 THEN n + 1 ELSE n
        /\ \A i \in 1..Len(new) : Same(new[i], long[IF i < k THEN i ELSE i + 1])
        /\ k = n + 2 => n + 1 <= MaxMessages \/ FirstDroppable(long) = 0
        /\ k # n + 2 => k = FirstDroppable(long)
    <2>1. PICK k \in 1..(Len(long) + 1) :
            /\ Len(new) = IF k = Len(long) + 1 THEN Len(long) ELSE Len(long) - 1
            /\ \A i \in 1..Len(new) : Same(new[i], long[IF i < k THEN i ELSE i + 1])
            /\ k = Len(long) + 1 =>
                  Len(long) <= MaxMessages \/ FirstDroppable(long) = 0
            /\ k # Len(long) + 1 => k = FirstDroppable(long)
        BY <1>2, CappedProperties
    <2>2. Len(long) + 1 = n + 2 /\ Len(long) - 1 = n
        BY <1>1, <1>2
    <2>. QED
        BY <1>2, <2>1, <2>2
<1>5. DOMAIN new = 1..Len(new)
    BY <1>2, CappedProperties, LenProperties
<1>. HIDE DEF new
<1>6. /\ FirstDroppable(long) # 0 => Droppable(long[FirstDroppable(long)])
      /\ FirstDroppable(long) = 0 => \A i \in 1..(n + 1) : ~Droppable(long[i])
    BY <1>2, FirstDroppableProperties
<1>7. CASE Len(new) <= MaxMessages
    BY <1>3, <1>7 DEF WithinCap
<1>8. CASE ~(Len(new) <= MaxMessages)
    <2>1. CASE k = n + 2
        <3>1. \A i \in 1..(n + 1) : ~Droppable(long[i])
            BY <1>1, <1>4, <1>6, <1>8, <2>1
        <3>2. \A i \in 1..Len(new) : Same(new[i], long[i]) /\ i \in 1..(n + 1)
            BY <1>1, <1>4, <2>1
        <3>. QED
            BY <1>3, <1>5, <3>1, <3>2 DEF WithinCap, Same, Droppable
    <2>2. CASE k # n + 2
        <3>1. Len(new) = n /\ k = FirstDroppable(long) /\ k # 0
            BY <1>4, <2>2
        <3>2. \A i \in 1..n : ~Droppable(s.msgs[i])
            BY <1>1, <1>8, <3>1 DEF WithinCap, n
        <3>3. k = n + 1
            BY <1>1, <1>2, <1>6, <2>2, <3>1, <3>2
        <3>4. \A i \in 1..n : Same(new[i], s.msgs[i])
            BY <1>1, <1>2, <1>4, <3>1, <3>3
        <3>. QED
            BY <1>3, <1>5, <3>1, <3>2, <3>4 DEF WithinCap, Same, Droppable
    <2>. QED
        BY <2>1, <2>2
<1>. QED
    BY <1>7, <1>8

\* The new message is the tip, and is there, unless it is the one that the cap
\* drops; then only system messages are.
LEMMA AppendMessageTip ==
    ASSUME NEW s \in Session, NEW id \in Nat \ {0}, NEW role \in Roles,
           NEW parentArg \in Nat
    PROVE  TipHolds(AppendMessage(s, id, role, parentArg))
<1>. DEFINE long == Longer(s, id, role, parentArg)
            new == AppendMessage(s, id, role, parentArg)
            n == Len(s.msgs)
<1>1. n \in Nat /\ MaxMessages \in Nat
    BY LenProperties, MaxMessagesAssumption DEF Session
<1>2. /\ long \in Seq(Message)
      /\ Len(long) = n + 1
      /\ long[n + 1].id = id
    <2>1. long[n + 1] = NewMessage(id, role, ParentFor(s, parentArg))
        BY LongerProperties
    <2>. QED
        BY <2>1, LongerProperties DEF NewMessage
<1>3. new.msgs = Capped(long) /\ new.msgs \in Seq(Message) /\ new.tip = id
    <2>1. Capped(long) \in Seq(Message)
        BY <1>2, CappedProperties
    <2>2. new.msgs = Capped(long) /\ new.tip = id
        BY AppendMessageType
    <2>. QED
        BY <2>1, <2>2
<1>4. DOMAIN new.msgs = 1..Len(new.msgs)
    BY <1>3, LenProperties
<1>. HIDE DEF long, n, new
<1>5. PICK k \in 1..(n + 2) :
        /\ Len(new.msgs) = IF k = n + 2 THEN n + 1 ELSE n
        /\ \A i \in 1..Len(new.msgs) :
                Same(new.msgs[i], long[IF i < k THEN i ELSE i + 1])
        /\ k # n + 2 => n + 1 > MaxMessages /\ k = FirstDroppable(long)
    <2>1. Len(long) + 1 = n + 2 /\ Len(long) - 1 = n
        BY <1>1, <1>2
    <2>. QED
        BY <1>2, <1>3, <2>1, CappedProperties
<1>6. CASE k # n + 1
    <2>1. PICK i \in 1..Len(new.msgs) : (IF i < k THEN i ELSE i + 1) = n + 1
        <3>1. CASE k = n + 2
            BY <1>1, <1>5, <3>1
        <3>2. CASE k \in 1..n
            BY <1>1, <1>5, <3>2
        <3>. QED
            BY <1>1, <1>6, <3>1, <3>2
    <2>2. new.msgs[i].id = id
        BY <1>2, <1>5, <2>1 DEF Same
    <2>. QED
        BY <1>3, <1>4, <2>2 DEF TipHolds, Ids, new
<1>7. CASE k = n + 1
    <2>1. Len(new.msgs) = n /\ n >= MaxMessages /\ k = FirstDroppable(long)
        BY <1>1, <1>5, <1>7
    <2>2. \A i \in 1..n : ~Droppable(long[i])
        BY <1>1, <1>2, <1>7, <2>1, FirstDroppableProperties, LenProperties
    <2>3. \A i \in 1..n : Same(new.msgs[i], long[i])
        BY <1>1, <1>5, <1>7, <2>1
    <2>4. \A i \in DOMAIN new.msgs : new.msgs[i].role = "system"
        BY <1>4, <2>1, <2>2, <2>3 DEF Same, Droppable
    <2>. QED
        BY <2>1, <2>4 DEF TipHolds, new
<1>. QED
    BY <1>6, <1>7

\* The first droppable message depends on the roles only.
LEMMA FirstByRoles ==
    ASSUME NEW a \in Seq(Message), NEW b \in Seq(Message), Len(a) = Len(b),
           \A i \in 1..Len(a) : a[i].role = b[i].role
    PROVE  FirstDroppable(a) = FirstDroppable(b)
<1>. DEFINE f == FirstDroppable(a)
            g == FirstDroppable(b)
<1>1. /\ f \in 0..Len(a) /\ g \in 0..Len(a) /\ Len(a) \in Nat
      /\ DOMAIN a = 1..Len(a) /\ DOMAIN b = 1..Len(a)
    BY FirstDroppableProperties, LenProperties
<1>2. /\ f # 0 => Droppable(a[f])
      /\ f = 0 => \A i \in 1..Len(a) : ~Droppable(a[i])
      /\ \A i \in 1..Len(a) : i < f => ~Droppable(a[i])
    BY <1>1, FirstDroppableProperties
<1>3. /\ g # 0 => Droppable(b[g])
      /\ g = 0 => \A i \in 1..Len(a) : ~Droppable(b[i])
      /\ \A i \in 1..Len(a) : i < g => ~Droppable(b[i])
    BY <1>1, FirstDroppableProperties
<1>4. \A i \in 1..Len(a) : Droppable(a[i]) <=> Droppable(b[i])
    BY DEF Droppable
<1>. HIDE DEF f, g
<1>5. f = g
    BY <1>1, <1>2, <1>3, <1>4
<1>. QED
    BY <1>5 DEF f, g

\* MarkTruncated marks the first droppable message, and no other.
LEMMA MarkTruncatedMarks ==
    ASSUME NEW msgs \in Seq(Message), \A i \in 1..Len(msgs) : ~msgs[i].truncated
    PROVE  MarksTheCut(MarkTruncated(msgs))
<1>. DEFINE first == FirstDroppable(msgs)
            new == MarkTruncated(msgs)
<1>1. /\ new \in Seq(Message) /\ Len(new) = Len(msgs) /\ Len(msgs) \in Nat
      /\ \A i \in 1..Len(msgs) : Same(new[i], msgs[i])
      /\ DOMAIN new = 1..Len(msgs) /\ DOMAIN msgs = 1..Len(msgs)
    BY MarkTruncatedProperties, LenProperties
<1>2. FirstDroppable(new) = first
    BY <1>1, FirstByRoles DEF Same
<1>3. \A i \in 1..Len(msgs) : i # first => new[i] = msgs[i]
    BY <1>1 DEF MarkTruncated
<1>. HIDE DEF new, first
<1>4. MarksTheCut(new)
    BY <1>1, <1>2, <1>3 DEF MarksTheCut
<1>. QED
    BY <1>4 DEF new

\* The cap keeps the mark at the cut.
LEMMA CappedMarks ==
    ASSUME NEW msgs \in Seq(Message), MarksTheCut(msgs)
    PROVE  MarksTheCut(Capped(msgs))
<1>. DEFINE first == FirstDroppable(msgs)
            rest == RemoveAt(msgs, first)
<1>1. first \in 0..Len(msgs) /\ Len(msgs) \in Nat /\ DOMAIN msgs = 1..Len(msgs)
    BY FirstDroppableProperties, LenProperties
<1>. HIDE DEF first
<1>2. CASE ~(OverCap(msgs) /\ first # 0)
    BY <1>2 DEF Capped, first
<1>3. CASE OverCap(msgs) /\ first # 0
    <2>1. Capped(msgs) = MarkTruncated(rest)
        BY <1>3 DEF Capped, first
    <2>2. /\ rest \in Seq(Message)
          /\ Len(rest) = Len(msgs) - 1
          /\ \A i \in 1..(Len(msgs) - 1) :
                rest[i] = IF i < first THEN msgs[i] ELSE msgs[i + 1]
        <3>1. first \in 1..Len(msgs)
            BY <1>1, <1>3
        <3>. QED
            BY <3>1, RemoveAtProperties
    <2>. HIDE DEF rest
    <2>3. \A i \in 1..Len(rest) : ~rest[i].truncated
        BY <1>1, <2>2 DEF MarksTheCut, first
    <2>. QED
        BY <2>1, <2>2, <2>3, MarkTruncatedMarks
<1>. QED
    BY <1>2, <1>3

\* And so does append_message, whose new message is not marked.
LEMMA AppendMessageMarks ==
    ASSUME NEW s \in Session, NEW id \in Nat \ {0}, NEW role \in Roles,
           NEW parentArg \in Nat, MarksTheCut(s.msgs)
    PROVE  MarksTheCut(AppendMessage(s, id, role, parentArg).msgs)
<1>. DEFINE long == Longer(s, id, role, parentArg)
            n == Len(s.msgs)
            f == FirstDroppable(s.msgs)
            g == FirstDroppable(long)
<1>1. s.msgs \in Seq(Message) /\ n \in Nat /\ DOMAIN s.msgs = 1..n
    BY LenProperties DEF Session
<1>2. /\ long \in Seq(Message)
      /\ Len(long) = n + 1
      /\ \A i \in 1..n : long[i] = s.msgs[i]
      /\ ~long[n + 1].truncated
    <2>1. long[n + 1] = NewMessage(id, role, ParentFor(s, parentArg))
        BY LongerProperties
    <2>. QED
        BY <2>1, LongerProperties DEF NewMessage
<1>3. DOMAIN long = 1..(n + 1)
    BY <1>2, LenProperties
<1>4. AppendMessage(s, id, role, parentArg).msgs = Capped(long)
    BY AppendMessageType
<1>5. /\ f \in 0..n
      /\ f # 0 => Droppable(s.msgs[f])
      /\ \A i \in 1..n : i < f => ~Droppable(s.msgs[i])
    BY <1>1, FirstDroppableProperties
<1>6. /\ g \in 0..(n + 1)
      /\ g = 0 => \A i \in 1..(n + 1) : ~Droppable(long[i])
      /\ g # 0 => Droppable(long[g])
      /\ \A i \in 1..(n + 1) : i < g => ~Droppable(long[i])
    BY <1>2, <1>3, FirstDroppableProperties
<1>. HIDE DEF long, f, g, n
<1>7. f # 0 => g = f
    BY <1>1, <1>2, <1>5, <1>6
<1>8. \A i \in 1..n : s.msgs[i].truncated => i = f
    BY <1>1 DEF MarksTheCut, f
<1>9. \A i \in 1..(n + 1) : long[i].truncated => i = g
    <2>1. ASSUME NEW i \in 1..(n + 1), long[i].truncated PROVE i = g
        <3>1. i \in 1..n
            BY <1>1, <1>2, <2>1
        <3>. QED
            BY <1>1, <1>2, <1>7, <1>8, <2>1, <3>1
    <2>. QED
        BY <2>1
<1>10. MarksTheCut(long)
    BY <1>3, <1>9 DEF MarksTheCut, g
<1>. QED
    BY <1>2, <1>4, <1>10, CappedMarks

----------------------------------------------------------------------------
\* Some message with this id has this parent.
Linked(s, id, parent) ==
    \E i \in DOMAIN s.msgs : s.msgs[i].id = id /\ s.msgs[i].parent = parent

\* append_message makes one link, from the new message, and no other.
LEMMA AppendMessageLinks ==
    ASSUME NEW s \in Session, NEW id \in Nat \ {0}, NEW role \in Roles,
           NEW parentArg \in Nat, NEW a, NEW b,
           Linked(AppendMessage(s, id, role, parentArg), a, b)
    PROVE  Linked(s, a, b) \/ (a = id /\ b = ParentFor(s, parentArg))
<1>. DEFINE long == Longer(s, id, role, parentArg)
            new == Capped(long)
            n == Len(s.msgs)
<1>1. n \in Nat /\ DOMAIN s.msgs = 1..n
    BY LenProperties DEF Session
<1>2. /\ long \in Seq(Message)
      /\ Len(long) = n + 1
      /\ \A i \in 1..n : long[i] = s.msgs[i]
      /\ long[n + 1].id = id /\ long[n + 1].parent = ParentFor(s, parentArg)
    <2>1. long[n + 1] = NewMessage(id, role, ParentFor(s, parentArg))
        BY LongerProperties
    <2>. QED
        BY <2>1, LongerProperties DEF NewMessage
<1>3. AppendMessage(s, id, role, parentArg).msgs = new
    BY AppendMessageType
<1>. HIDE DEF long, n
<1>4. DOMAIN new = 1..Len(new)
    BY <1>2, CappedProperties, LenProperties
<1>5. PICK k \in 1..(n + 2) :
        /\ Len(new) = IF k = n + 2 THEN n + 1 ELSE n
        /\ \A i \in 1..Len(new) : Same(new[i], long[IF i < k THEN i ELSE i + 1])
    <2>1. Len(long) + 1 = n + 2 /\ Len(long) - 1 = n
        BY <1>1, <1>2
    <2>. QED
        BY <1>2, <2>1, CappedProperties
<1>. HIDE DEF new
<1>6. PICK i \in 1..Len(new) : new[i].id = a /\ new[i].parent = b
    BY <1>3, <1>4 DEF Linked
<1>7. PICK j \in 1..(n + 1) : long[j].id = a /\ long[j].parent = b
    <2>1. (IF i < k THEN i ELSE i + 1) \in 1..(n + 1)
        BY <1>1, <1>5
    <2>. QED
        BY <1>5, <1>6, <2>1 DEF Same
<1>8. CASE j \in 1..n
    BY <1>1, <1>2, <1>7, <1>8 DEF Linked
<1>9. CASE j = n + 1
    BY <1>2, <1>7, <1>9
<1>. QED
    BY <1>1, <1>8, <1>9

----------------------------------------------------------------------------
\* reconstruct_path.  One hop of the walk adds the parents of what it has met.
Parent(s, id) == ById(s, id).parent

Hop(s, met) ==
    met \cup ({Parent(s, id) : id \in met \cap Ids(s)} \ {None})

IsWalk(walk, s, leaf, n) ==
    walk = [m \in 0..n |-> IF m = 0 THEN {leaf} ELSE Hop(s, walk[m - 1])]

\* A set of ids that has the parents of its members.
Closed(s, met) == \A id \in met \cap Ids(s) : Parent(s, id) \in met \cup {None}

\* The walk exists, however long.
LEMMA WalkExists ==
    ASSUME NEW s, NEW leaf, NEW n \in Nat
    PROVE  \E walk : IsWalk(walk, s, leaf, n)
<1>. DEFINE S == {m \in Nat : \E walk : IsWalk(walk, s, leaf, m)}
<1>1. 0 \in S
    <2>1. IsWalk([k \in 0..0 |-> {leaf}], s, leaf, 0)
        BY DEF IsWalk
    <2>. QED
        BY <2>1
<1>2. ASSUME NEW m \in 1..n, m - 1 \in S
      PROVE  m \in S
    <2>1. PICK walk : IsWalk(walk, s, leaf, m - 1)
        BY <1>2
    <2>. DEFINE longer == [k \in 0..m |-> IF k = m THEN Hop(s, walk[m - 1])
                                          ELSE walk[k]]
    <2>2. ASSUME NEW k \in 0..m
          PROVE  longer[k] = IF k = 0 THEN {leaf} ELSE Hop(s, longer[k - 1])
        <3>1. CASE k = m
            <4>1. k - 1 \in 0..m /\ k - 1 # m /\ k # 0
                BY <3>1
            <4>. QED
                BY <3>1, <4>1
        <3>2. CASE k # m /\ k # 0
            <4>1. k \in 0..(m - 1) /\ k - 1 \in 0..m /\ k - 1 # m
                BY <3>2
            <4>2. walk[k] = Hop(s, walk[k - 1])
                BY <2>1, <3>2, <4>1 DEF IsWalk
            <4>. QED
                BY <3>2, <4>1, <4>2
        <3>3. CASE k = 0
            <4>1. 0 \in 0..(m - 1) /\ m # 0
                OBVIOUS
            <4>2. walk[0] = {leaf}
                BY <2>1, <4>1 DEF IsWalk
            <4>. QED
                BY <3>3, <4>1, <4>2
        <3>. QED
            BY <3>1, <3>2, <3>3
    <2>3. IsWalk(longer, s, leaf, m)
        <3>1. longer = [k \in 0..m |-> longer[k]]
            OBVIOUS
        <3>. HIDE DEF longer
        <3>. QED
            BY <2>2, <3>1 DEF IsWalk
    <2>. QED
        BY <2>3
<1>. HIDE DEF S
<1>3. n \in S
    BY <1>1, <1>2, SetInduction
<1>. QED
    BY <1>3 DEF S

\* Its sets, one by one.
LEMMA WalkHops ==
    ASSUME NEW s, NEW leaf, NEW n \in Nat, NEW walk, IsWalk(walk, s, leaf, n)
    PROVE  /\ walk[0] = {leaf}
           /\ \A m \in 1..n : walk[m] = Hop(s, walk[m - 1])
<1>1. ASSUME NEW m \in 0..n
      PROVE  walk[m] = IF m = 0 THEN {leaf} ELSE Hop(s, walk[m - 1])
    BY DEF IsWalk
<1>2. 0 \in 0..n /\ \A m \in 1..n : m \in 0..n /\ m # 0
    OBVIOUS
<1>. QED
    BY <1>1, <1>2

\* The ids that reconstruct_path meets are the last set of such a walk.
LEMMA AncestryIsWalk ==
    ASSUME NEW s \in Session, NEW leaf
    PROVE  \E walk : /\ IsWalk(walk, s, leaf, Len(s.msgs))
                     /\ Ancestry(s, leaf) = walk[Len(s.msgs)]
<1>1. Len(s.msgs) \in Nat
    BY LenProperties DEF Session
<1>. DEFINE walk == CHOOSE f : IsWalk(f, s, leaf, Len(s.msgs))
<1>2. IsWalk(walk, s, leaf, Len(s.msgs))
    BY <1>1, WalkExists
<1>3. Ancestry(s, leaf) = walk[Len(s.msgs)]
    BY DEF Ancestry, IsWalk, Hop, Parent
<1>. QED
    BY <1>2, <1>3

\* They contain the leaf, and they are in every closed set that does.
LEMMA AncestryLeast ==
    ASSUME NEW s \in Session, NEW leaf
    PROVE  /\ leaf \in Ancestry(s, leaf)
           /\ \A met : leaf \in met /\ Closed(s, met) => Ancestry(s, leaf) \subseteq met
<1>1. PICK n \in Nat : n = Len(s.msgs)
    BY LenProperties DEF Session
<1>2. PICK walk : IsWalk(walk, s, leaf, n) /\ Ancestry(s, leaf) = walk[n]
    BY <1>1, AncestryIsWalk
<1>3. /\ walk[0] = {leaf}
      /\ \A m \in 1..n : walk[m] = Hop(s, walk[m - 1])
    <2>1. n \in Nat /\ IsWalk(walk, s, leaf, n)
        BY <1>2
    <2>. QED
        BY ONLY <2>1, WalkHops
<1>4. ASSUME NEW met, leaf \in met, Closed(s, met)
      PROVE  leaf \in walk[n] /\ walk[n] \subseteq met
    <2>. DEFINE S == {m \in 0..n : leaf \in walk[m] /\ walk[m] \subseteq met}
    <2>1. 0 \in S
        BY <1>3, <1>4
    <2>2. ASSUME NEW m \in 1..n, m - 1 \in S
          PROVE  m \in S
        <3>1. walk[m] = Hop(s, walk[m - 1]) /\ m \in 0..n
            BY <1>3
        <3>2. leaf \in walk[m] /\ walk[m] \subseteq met
            BY <1>4, <2>2, <3>1 DEF Hop, Closed
        <3>. QED
            BY <3>1, <3>2
    <2>. HIDE DEF S
    <2>3. n \in S
        BY <2>1, <2>2, SetInduction
    <2>. QED
        BY <2>3 DEF S
<1>5. Closed(s, {leaf} \cup {Parent(s, id) : id \in Ids(s)})
    BY DEF Closed
<1>. QED
    BY <1>1, <1>2, <1>4, <1>5

\* In an ordered ledger a message is where its id says, and the parent is
\* before its child.
LEMMA OrderedPlaces ==
    ASSUME NEW s \in Session, Ordered(s)
    PROVE  /\ \A i \in DOMAIN s.msgs : Parent(s, s.msgs[i].id) = s.msgs[i].parent
           /\ \A i, j \in DOMAIN s.msgs : s.msgs[i].parent = s.msgs[j].id => j < i
<1>1. /\ DOMAIN s.msgs \subseteq Nat
      /\ \A i \in DOMAIN s.msgs : s.msgs[i].id \in Nat /\ s.msgs[i].parent \in Nat
    <2>1. s.msgs \in Seq(Message)
        BY DEF Session
    <2>2. /\ DOMAIN s.msgs = 1..Len(s.msgs) /\ Len(s.msgs) \in Nat
          /\ \A i \in DOMAIN s.msgs : s.msgs[i] \in Message
        BY <2>1, LenProperties, ElementOfSeq
    <2>. QED
        BY <2>2 DEF Message
<1>2. ASSUME NEW i \in DOMAIN s.msgs, NEW j \in DOMAIN s.msgs,
             s.msgs[j].id <= s.msgs[i].id
      PROVE  j <= i
    <2>1. i < j => s.msgs[i].id < s.msgs[j].id
        BY DEF Ordered
    <2>. QED
        BY <1>1, <1>2, <2>1
<1>3. ASSUME NEW i \in DOMAIN s.msgs, NEW j \in DOMAIN s.msgs,
             s.msgs[j].id = s.msgs[i].id
      PROVE  j = i
    <2>1. j <= i /\ i <= j
        BY <1>1, <1>2, <1>3
    <2>. QED
        BY <1>1, <2>1
<1>4. ASSUME NEW i \in DOMAIN s.msgs
      PROVE  Parent(s, s.msgs[i].id) = s.msgs[i].parent
    <2>1. (CHOOSE j \in DOMAIN s.msgs : s.msgs[j].id = s.msgs[i].id) = i
        BY <1>3
    <2>. QED
        BY <2>1 DEF Parent, ById
<1>5. ASSUME NEW i \in DOMAIN s.msgs, NEW j \in DOMAIN s.msgs,
             s.msgs[i].parent = s.msgs[j].id
      PROVE  j < i
    <2>1. s.msgs[j].id < s.msgs[i].id
        BY <1>5 DEF Ordered
    <2>2. j <= i /\ j # i
        BY <1>1, <1>2, <2>1
    <2>. QED
        BY <1>1, <2>2
<1>. QED
    BY <1>4, <1>5

\* In an ordered ledger they are closed: an id that is not yet followed after m
\* hops stands m places or more from the end, since each hop goes to an older
\* message, so that none is left after as many hops as there are messages.
LEMMA AncestryClosed ==
    ASSUME NEW s \in Session, Ordered(s), NEW leaf
    PROVE  Closed(s, Ancestry(s, leaf))
<1>1. PICK n \in Nat : n = Len(s.msgs) /\ DOMAIN s.msgs = 1..n
    BY LenProperties DEF Session
<1>2. PICK walk : IsWalk(walk, s, leaf, n) /\ Ancestry(s, leaf) = walk[n]
    BY <1>1, AncestryIsWalk
<1>3. /\ walk[0] = {leaf}
      /\ \A m \in 1..n : walk[m] = Hop(s, walk[m - 1])
    <2>1. n \in Nat /\ IsWalk(walk, s, leaf, n)
        BY <1>2
    <2>. QED
        BY ONLY <2>1, WalkHops
<1>. DEFINE Followed(m, id) == Parent(s, id) \in walk[m] \cup {None}
            Early(m, id) == \E i \in 1..(n - m) : s.msgs[i].id = id
            S == {m \in 0..n : \A id \in walk[m] \cap Ids(s) :
                                    Followed(m, id) \/ Early(m, id)}
<1>4. 0 \in S
    <2>1. \A id \in Ids(s) : Early(0, id)
        BY <1>1 DEF Ids
    <2>. QED
        BY <2>1
<1>5. ASSUME NEW m \in 1..n, m - 1 \in S
      PROVE  m \in S
    <2>1. walk[m] = Hop(s, walk[m - 1]) /\ m \in 0..n
        BY <1>3
    <2>2. ASSUME NEW id \in walk[m] \cap Ids(s)
          PROVE  Followed(m, id) \/ Early(m, id)
        <3>1. CASE id \in walk[m - 1]
            BY <2>1, <2>2, <3>1 DEF Hop
        <3>2. CASE id \notin walk[m - 1]
            <4>1. PICK child \in walk[m - 1] \cap Ids(s) :
                    id = Parent(s, child) /\ id # None
                BY <2>1, <2>2, <3>2 DEF Hop
            <4>2. ~Followed(m - 1, child)
                BY <3>2, <4>1
            <4>3. Early(m - 1, child)
                BY <1>5, <4>2
            <4>4. PICK i \in 1..(n - (m - 1)) : s.msgs[i].id = child
                BY <4>3
            <4>5. PICK j \in DOMAIN s.msgs : s.msgs[j].id = id
                BY <2>2 DEF Ids
            <4>6. i \in DOMAIN s.msgs
                BY <1>1, <4>4
            <4>7. s.msgs[i].parent = id
                BY <4>1, <4>4, <4>6, OrderedPlaces
            <4>8. j < i
                BY <4>5, <4>6, <4>7, OrderedPlaces
            <4>9. j \in 1..(n - m)
                BY <1>1, <4>4, <4>5, <4>8
            <4>. QED
                BY <4>5, <4>9
        <3>. QED
            BY <3>1, <3>2
    <2>. HIDE DEF Followed, Early
    <2>. QED
        BY <2>1, <2>2
<1>6. n \in S
    <2>. HIDE DEF S
    <2>. QED
        BY <1>4, <1>5, SetInduction
<1>7. \A id \in walk[n] \cap Ids(s) : ~Early(n, id)
    BY <1>1
<1>. QED
    BY <1>2, <1>6, <1>7 DEF Closed

\* The messages whose whole ancestry is there, up to a root.
Whole(s) == {id \in Ids(s) : Ancestry(s, id) \subseteq Ids(s)}

\* The ancestry of a message holds that of each of its members, and its child
\* adds nothing but itself.
LEMMA AncestryOfAncestor ==
    ASSUME NEW s \in Session, Ordered(s), NEW leaf
    PROVE  /\ \A elder \in Ancestry(s, leaf) : Ancestry(s, elder) \subseteq Ancestry(s, leaf)
           /\ Ancestry(s, leaf) \subseteq {leaf} \cup Ancestry(s, Parent(s, leaf))
<1>1. \A id : id \in Ancestry(s, id) /\ Closed(s, Ancestry(s, id))
    BY AncestryLeast, AncestryClosed
<1>2. ASSUME NEW elder \in Ancestry(s, leaf)
      PROVE  Ancestry(s, elder) \subseteq Ancestry(s, leaf)
    BY <1>1, AncestryLeast
<1>. DEFINE above == {leaf} \cup Ancestry(s, Parent(s, leaf))
<1>3. Closed(s, above)
    BY <1>1 DEF Closed
<1>4. Ancestry(s, leaf) \subseteq above
    <2>. HIDE DEF above
    <2>1. leaf \in above
        BY DEF above
    <2>. QED
        BY <1>3, <2>1, AncestryLeast
<1>. QED
    BY <1>2, <1>4

\* reconstruct_path answers the whole ancestry of a leaf, or nothing if some of
\* it is not there, unless it raises.
LEMMA PathIsAncestry ==
    ASSUME NEW s \in Session, NEW leaf \in Ids(s),
           ReconstructPath(s, leaf).result # "raised"
    PROVE  ReconstructPath(s, leaf).ids
                = IF leaf \in Whole(s) THEN Ancestry(s, leaf) ELSE {}
BY DEF ReconstructPath, Whole

\* The branches of a ledger show every message whose ancestry is there, and no
\* other, and each such branch its tip, unless the depth guard trips: of the
\* messages that have a given one in their path, the last has no child.
LEMMA BranchesCover ==
    ASSUME NEW s \in Session, Ordered(s),
           \A tip \in Tips(s) : ReconstructPath(s, tip).result # "raised"
    PROVE  LET paths == BranchPaths(s)
           IN  /\ \A tip \in DOMAIN paths \cap Whole(s) : tip \in paths[tip].ids
               /\ Whole(s) = UNION {paths[tip].ids : tip \in DOMAIN paths}
<1>. DEFINE paths == BranchPaths(s)
<1>1. PICK n \in Nat : n = Len(s.msgs) /\ DOMAIN s.msgs = 1..n
    BY LenProperties DEF Session
<1>2. /\ DOMAIN paths = Tips(s) /\ Tips(s) \subseteq Ids(s)
      /\ \A tip \in Tips(s) :
            paths[tip].ids = IF tip \in Whole(s) THEN Ancestry(s, tip) ELSE {}
    BY PathIsAncestry DEF BranchPaths, Tips
<1>. HIDE DEF paths
<1>3. ASSUME NEW id \in Whole(s)
      PROVE  \E tip \in Tips(s) \cap Whole(s) : id \in Ancestry(s, tip)
    <2>. DEFINE Below == {i \in 1..n : /\ s.msgs[i].id \in Whole(s)
                                       /\ id \in Ancestry(s, s.msgs[i].id)}
                Ends == {n - i : i \in Below}
    <2>1. Below # {}
        BY <1>1, AncestryLeast DEF Ids, Whole
    <2>2. PICK last \in Below : \A i \in Below : i <= last
        <3>1. Ends \in SUBSET Nat /\ Ends # {}
            BY <2>1
        <3>2. PICK m \in Ends : \A k \in Ends : m <= k
            <4>. HIDE DEF Ends
            <4>. QED
                BY <3>1, MinOfNats
        <3>3. PICK i \in Below : m = n - i
            BY <3>2
        <3>4. \A j \in Below : n - i <= n - j
            BY <3>2, <3>3
        <3>. QED
            BY <3>4
    <2>. DEFINE tip == s.msgs[last].id
    <2>3. last \in DOMAIN s.msgs /\ tip \in Whole(s) /\ id \in Ancestry(s, tip)
        BY <1>1, <2>2
    <2>4. ASSUME NEW i \in DOMAIN s.msgs, s.msgs[i].parent = tip
          PROVE  FALSE
        <3>. DEFINE child == s.msgs[i].id
        <3>1. last < i
            BY <2>3, <2>4, OrderedPlaces
        <3>2. Parent(s, child) = tip /\ child \in Ids(s) /\ tip \in Ids(s)
            BY <2>3, <2>4, OrderedPlaces DEF Ids
        <3>3. child \in Ancestry(s, child) /\ Closed(s, Ancestry(s, child))
            BY AncestryLeast, AncestryClosed
        <3>4. tip # None
            <4>1. s.msgs[last] \in Message
                BY <2>3, LenProperties, ElementOfSeq DEF Session
            <4>. QED
                BY <4>1 DEF Message, None
        <3>5. tip \in Ancestry(s, child)
            BY <3>2, <3>3, <3>4 DEF Closed
        <3>6. /\ Ancestry(s, tip) \subseteq Ancestry(s, child)
              /\ Ancestry(s, child) \subseteq {child} \cup Ancestry(s, tip)
            BY <3>2, <3>5, AncestryOfAncestor
        <3>7. child \in Whole(s)
            BY <2>3, <3>2, <3>6 DEF Whole
        <3>8. i \in Below
            BY <1>1, <2>3, <3>6, <3>7
        <3>. QED
            BY <1>1, <2>2, <3>1, <3>8
    <2>5. tip \in Tips(s)
        BY <2>3, <2>4 DEF Tips, Ids
    <2>. QED
        BY <2>3, <2>5
<1>4. ASSUME NEW tip \in Whole(s)
      PROVE  tip \in Ancestry(s, tip) /\ Ancestry(s, tip) \subseteq Whole(s)
    <2>1. \A elder \in Ancestry(s, tip) :
            elder \in Ids(s) /\ Ancestry(s, elder) \subseteq Ids(s)
        BY AncestryOfAncestor DEF Whole
    <2>. QED
        BY <2>1, AncestryLeast DEF Whole
<1>. QED
    BY <1>2, <1>3, <1>4 DEF paths

----------------------------------------------------------------------------
\* A message is still in a ledger, with the mark of the cut or without.
Remains(m, msgs) == \E j \in DOMAIN msgs :
    msgs[j] = m \/ msgs[j] = [m EXCEPT !.truncated = TRUE]

\* What Same calls the same message is it, or it with the mark.
LEMMA SameIsMarked ==
    ASSUME NEW m \in Message, NEW n \in Message, Same(n, m)
    PROVE  n = m \/ n = [m EXCEPT !.truncated = TRUE]
<1>1. n = [m EXCEPT !.truncated = n.truncated]
    BY DEF Same, Message
<1>2. n.truncated \in BOOLEAN /\ (m.truncated => n.truncated)
    BY DEF Same, Message
<1>3. CASE n.truncated = TRUE
    BY <1>1, <1>3
<1>4. CASE n.truncated = FALSE
    <2>1. m.truncated = FALSE
        BY <1>2, <1>4 DEF Message
    <2>2. m = [m EXCEPT !.truncated = m.truncated]
        BY DEF Message
    <2>. QED
        BY <1>1, <1>4, <2>1, <2>2
<1>. QED
    BY <1>2, <1>3, <1>4

\* append_message keeps every message but one, which it may drop from a full
\* ledger only, and which is the first that may go.
LEMMA AppendMessageKeeps ==
    ASSUME NEW s \in Session, NEW id \in Nat \ {0}, NEW role \in Roles,
           NEW parentArg \in Nat, Ordered(s),
           \A i \in DOMAIN s.msgs : s.msgs[i].id < id
    PROVE  LET new == AppendMessage(s, id, role, parentArg)
           IN  /\ Len(s.msgs) <= Len(new.msgs)
               /\ Ids(new) \subseteq Ids(s) \cup {id}
               /\ \A i \in DOMAIN s.msgs :
                    \/ Remains(s.msgs[i], new.msgs)
                    \/ /\ Droppable(s.msgs[i])
                       /\ s.msgs[i].id \notin Ids(new)
                       /\ Len(new.msgs) >= MaxMessages
                       /\ \A j \in 1..(i - 1) : ~Droppable(s.msgs[j])
<1>. DEFINE new == AppendMessage(s, id, role, parentArg)
            long == Longer(s, id, role, parentArg)
            At(k, i) == IF i < k THEN i ELSE i + 1
<1>1. PICK n \in Nat : n = Len(s.msgs) /\ DOMAIN s.msgs = 1..n
    BY LenProperties DEF Session
<1>2. /\ long \in Seq(Message)
      /\ Len(long) = n + 1 /\ DOMAIN long = 1..(n + 1)
      /\ \A i \in 1..n : long[i] = s.msgs[i]
      /\ long[n + 1].id = id
    <2>1. /\ long \in Seq(Message)
          /\ Len(long) = Len(s.msgs) + 1
          /\ \A i \in 1..Len(s.msgs) : long[i] = s.msgs[i]
          /\ long[Len(s.msgs) + 1] = NewMessage(id, role, ParentFor(s, parentArg))
        BY LongerProperties
    <2>. HIDE DEF long
    <2>2. Len(long) = n + 1 /\ DOMAIN long = 1..(n + 1)
        BY <1>1, <2>1, LenProperties
    <2>3. long[n + 1].id = id
        BY <1>1, <2>1 DEF NewMessage
    <2>. QED
        BY <1>1, <2>1, <2>2, <2>3
<1>3. /\ \A i \in 1..(n + 1) : long[i] \in Message
      /\ \A i \in 1..n : s.msgs[i] \in Message
    <2>1. s.msgs \in Seq(Message)
        BY DEF Session
    <2>. HIDE DEF long, new
    <2>. QED
        BY <1>1, <1>2, <2>1, ElementOfSeq
<1>4. new.msgs = Capped(long) /\ new.msgs \in Seq(Message)
    <2>1. Capped(long) \in Seq(Message)
        BY <1>2, CappedProperties
    <2>2. new.msgs = Capped(long)
        BY AppendMessageType
    <2>. QED
        BY <2>1, <2>2
<1>. HIDE DEF long, new
<1>5. PICK k \in 1..(n + 2) :
        /\ Len(new.msgs) = IF k = n + 2 THEN n + 1 ELSE n
        /\ \A i \in 1..Len(new.msgs) : Same(new.msgs[i], long[At(k, i)])
        /\ k # n + 2 => n + 1 > MaxMessages /\ k = FirstDroppable(long)
    <2>1. Len(long) + 1 = n + 2 /\ Len(long) - 1 = n
        BY <1>1, <1>2
    <2>2. PICK k \in 1..(n + 2) :
            /\ Len(new.msgs) = IF k = n + 2 THEN n + 1 ELSE n
            /\ \A i \in 1..Len(new.msgs) :
                    Same(new.msgs[i], long[IF i < k THEN i ELSE i + 1])
            /\ k # n + 2 => n + 1 > MaxMessages /\ k = FirstDroppable(long)
        BY <1>2, <1>4, <2>1, CappedProperties
    <2>. QED
        BY <2>2
<1>6. /\ DOMAIN new.msgs = 1..Len(new.msgs) /\ Len(new.msgs) \in Nat
      /\ \A i \in DOMAIN new.msgs : new.msgs[i] \in Message
    BY <1>4, LenProperties, ElementOfSeq
<1>7. \A j \in DOMAIN new.msgs : At(k, j) \in 1..(n + 1) /\ At(k, j) # k
    <2>1. k \in Nat /\ Len(new.msgs) \in {n, n + 1}
          /\ (Len(new.msgs) = n + 1 => k = n + 2)
        BY <1>5
    <2>. QED
        BY <1>6, <2>1
<1>8. Ids(new) \subseteq Ids(s) \cup {id}
    <2>1. ASSUME NEW j \in DOMAIN new.msgs
          PROVE  new.msgs[j].id \in Ids(s) \cup {id}
        <3>1. new.msgs[j].id = long[At(k, j)].id
            BY <1>5, <1>6 DEF Same
        <3>2. At(k, j) \in 1..n \/ At(k, j) = n + 1
            BY <1>7
        <3>. HIDE DEF At
        <3>. QED
            BY <1>1, <1>2, <3>1, <3>2 DEF Ids
    <2>. QED
        BY <2>1 DEF Ids
<1>9. ASSUME NEW i \in 1..n, i # k
      PROVE  Remains(s.msgs[i], new.msgs)
    <2>1. PICK j \in DOMAIN new.msgs : At(k, j) = i
        <3>1. CASE i < k
            <4>1. i \in DOMAIN new.msgs /\ At(k, i) = i
                BY <1>5, <1>6, <3>1
            <4>. QED
                BY <4>1
        <3>2. CASE ~(i < k)
            <4>1. i - 1 \in DOMAIN new.msgs /\ At(k, i - 1) = i
                BY <1>5, <1>6, <1>9, <3>2
            <4>. QED
                BY <4>1
        <3>. QED
            BY <3>1, <3>2
    <2>2. Same(new.msgs[j], s.msgs[i])
        BY <1>2, <1>5, <1>6, <2>1
    <2>3. new.msgs[j] \in Message /\ s.msgs[i] \in Message
        BY <1>3, <1>6
    <2>. QED
        BY <2>2, <2>3, SameIsMarked DEF Remains
<1>10. ASSUME k \in 1..n
       PROVE  /\ Droppable(s.msgs[k])
              /\ s.msgs[k].id \notin Ids(new)
              /\ Len(new.msgs) >= MaxMessages
              /\ \A j \in 1..(k - 1) : ~Droppable(s.msgs[j])
    <2>1. k = FirstDroppable(long) /\ k # 0 /\ n + 1 > MaxMessages
        BY <1>5, <1>10
    <2>2. Droppable(s.msgs[k]) /\ \A j \in 1..(k - 1) : ~Droppable(s.msgs[j])
        <3>1. Droppable(long[k]) /\ \A j \in DOMAIN long : j < k => ~Droppable(long[j])
            BY <1>2, <2>1, FirstDroppableProperties
        <3>2. \A j \in 1..(k - 1) : j \in DOMAIN long /\ j < k /\ j \in 1..n
            BY <1>2, <1>10
        <3>. QED
            BY <1>2, <1>10, <3>1, <3>2
    <2>3. Len(new.msgs) >= MaxMessages
        BY <1>5, <1>10, <2>1, MaxMessagesAssumption
    <2>4. ASSUME NEW j \in DOMAIN new.msgs
          PROVE  new.msgs[j].id # s.msgs[k].id
        <3>1. new.msgs[j].id = long[At(k, j)].id
            BY <1>5, <1>6 DEF Same
        <3>2. PICK a \in 1..(n + 1) : a = At(k, j) /\ a # k
            BY <1>7
        <3>3. s.msgs[k].id \in Nat /\ s.msgs[k].id < id
            BY <1>1, <1>3, <1>10 DEF Message
        <3>4. CASE a = n + 1
            BY <1>2, <3>1, <3>2, <3>3, <3>4
        <3>5. CASE a \in 1..n
            <4>1. s.msgs[a].id < s.msgs[k].id \/ s.msgs[k].id < s.msgs[a].id
                BY <1>1, <1>10, <3>2, <3>5 DEF Ordered
            <4>2. s.msgs[a].id \in Nat
                BY <1>3, <3>5 DEF Message
            <4>3. s.msgs[a].id # s.msgs[k].id
                BY <3>3, <4>1, <4>2
            <4>. QED
                BY <1>2, <3>1, <3>2, <3>5, <4>3
        <3>. QED
            BY <3>2, <3>4, <3>5
    <2>. QED
        BY <2>2, <2>3, <2>4 DEF Ids
<1>11. Len(s.msgs) <= Len(new.msgs)
    BY <1>1, <1>5
<1>. QED
    BY <1>1, <1>8, <1>9, <1>10, <1>11 DEF new

\* A ledger that is below the cap after append_message was, and has lost
\* nothing.
LEMMA AppendMessageBelowCap ==
    ASSUME NEW s \in Session, NEW id \in Nat \ {0}, NEW role \in Roles,
           NEW parentArg \in Nat, Ordered(s),
           \A i \in DOMAIN s.msgs : s.msgs[i].id < id,
           Len(AppendMessage(s, id, role, parentArg).msgs) < MaxMessages
    PROVE  /\ Len(s.msgs) < MaxMessages
           /\ Ids(s) \subseteq Ids(AppendMessage(s, id, role, parentArg))
<1>. DEFINE new == AppendMessage(s, id, role, parentArg)
<1>1. /\ Len(s.msgs) \in Nat /\ Len(new.msgs) \in Nat /\ MaxMessages \in Nat
      /\ \A i \in DOMAIN s.msgs : s.msgs[i] \in Message
    <2>1. new \in Session /\ s.msgs \in Seq(Message)
        BY AppendMessageType DEF Session
    <2>. HIDE DEF new
    <2>2. new.msgs \in Seq(Message)
        BY <2>1 DEF Session
    <2>. QED
        BY <2>1, <2>2, LenProperties, ElementOfSeq, MaxMessagesAssumption
<1>2. /\ Len(s.msgs) <= Len(new.msgs)
      /\ \A i \in DOMAIN s.msgs :
            Remains(s.msgs[i], new.msgs) \/ Len(new.msgs) >= MaxMessages
    BY AppendMessageKeeps
<1>3. Len(new.msgs) < MaxMessages
    OBVIOUS
<1>. HIDE DEF new
<1>4. ASSUME NEW i \in DOMAIN s.msgs
      PROVE  s.msgs[i].id \in Ids(new)
    <2>1. Remains(s.msgs[i], new.msgs)
        BY <1>1, <1>2, <1>3
    <2>2. [s.msgs[i] EXCEPT !.truncated = TRUE].id = s.msgs[i].id
        BY <1>1 DEF Message
    <2>. QED
        BY <2>1, <2>2 DEF Remains, Ids
<1>. QED
    BY <1>1, <1>2, <1>3, <1>4 DEF Ids, new

=============================================================================
