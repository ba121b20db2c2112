---------------------------- MODULE Board_proofs ----------------------------
(***************************************************************************)
(* Proofs about the rest of the board, for every value of the constants:   *)
(* of the systems of MCBoard, the disk, the memory card and its lines, the *)
(* CAM, the I2C bus and the clock, the dish and the remote control.        *)
(***************************************************************************)
EXTENDS MCBoard, Integers, Sequences, FiniteSets, FiniteSetTheorems, TLAPS

-----------------------------------------------------------------------------
(* The disk.  Words are numbered from 1 in each call: s holds the words      *)
(* after the d-th, in order.                                                 *)

Follow(s, d) == \A i \in 1 .. Len(s) : s[i] = d + i

LEMMA FollowAppend ==
  ASSUME NEW s \in Seq(Int), NEW d \in Int, Follow(s, d)
  PROVE  /\ Append(s, d + Len(s) + 1) \in Seq(Int)
         /\ Len(Append(s, d + Len(s) + 1)) = Len(s) + 1
         /\ Follow(Append(s, d + Len(s) + 1), d)
BY DEF Follow

LEMMA FollowTail ==
  ASSUME NEW s \in Seq(Int), NEW d \in Int, Follow(s, d), s # <<>>
  PROVE  /\ Tail(s) \in Seq(Int) /\ Len(Tail(s)) = Len(s) - 1 /\ Len(s) >= 1
         /\ Follow(Tail(s), d + 1) /\ Head(s) = d + 1
<1>1. Len(s) >= 1 /\ Len(Tail(s)) = Len(s) - 1 /\ Tail(s) \in Seq(Int)
  OBVIOUS
<1>2. \A i \in 1 .. Len(s) - 1 : Tail(s)[i] = s[i + 1]
  OBVIOUS
<1> QED
  BY <1>1, <1>2 DEF Follow

LEMMA FollowConcat ==
  ASSUME NEW s \in Seq(Int), NEW t \in Seq(Int), Follow(s, 0), Follow(t, Len(s))
  PROVE  s \o t \in Seq(Int) /\ Len(s \o t) = Len(s) + Len(t) /\ Follow(s \o t, 0)
<1>1. s \o t \in Seq(Int) /\ Len(s \o t) = Len(s) + Len(t)
  OBVIOUS
<1>2. ASSUME NEW i \in 1 .. Len(s \o t) PROVE (s \o t)[i] = i
  <2>1. CASE i <= Len(s)
    BY <1>1, <1>2, <2>1 DEF Follow
  <2>2. CASE i > Len(s)
    <3>1. i - Len(s) \in 1 .. Len(t) /\ (s \o t)[i] = t[i - Len(s)]
      BY <1>1, <1>2, <2>2
    <3> QED BY <3>1 DEF Follow
  <2> QED BY <1>1, <2>1, <2>2
<1> QED
  BY <1>1, <1>2 DEF Follow

LEMMA FollowUpto ==
  ASSUME NEW s \in Seq(Int), Follow(s, 0)
  PROVE  s = Ide!Upto(Len(s))
<1>1. s = [i \in 1 .. Len(s) |-> s[i]]
  OBVIOUS
<1>2. \A i \in 1 .. Len(s) : s[i] = i
  BY DEF Follow
<1> QED
  BY <1>1, <1>2 DEF Ide!Upto

LEMMA FollowPair ==
  ASSUME NEW d \in Int, fifo \in Seq(Int), Follow(fifo, d)
  PROVE  /\ Ide!pair \in Seq(Int) /\ Ide!rest \in Seq(Int)
         /\ Len(Ide!pair) = (IF Len(fifo) < 2 THEN Len(fifo) ELSE 2)
         /\ Len(Ide!rest) = (IF Len(fifo) < 2 THEN 0 ELSE Len(fifo) - 2)
         /\ Follow(Ide!pair, d) /\ Follow(Ide!rest, d + Len(Ide!pair))
<1>1. CASE Len(fifo) < 2
  BY <1>1 DEF Ide!pair, Ide!rest, Follow
<1>2. CASE ~(Len(fifo) < 2)
  <2>0. Ide!pair = SubSeq(fifo, 1, 2) /\ Ide!rest = SubSeq(fifo, 3, Len(fifo))
    BY <1>2 DEF Ide!pair, Ide!rest
  <2>1. /\ SubSeq(fifo, 1, 2) \in Seq(Int) /\ Len(SubSeq(fifo, 1, 2)) = 2
        /\ \A i \in 1 .. 2 : SubSeq(fifo, 1, 2)[i] = fifo[i]
    BY <1>2
  <2>2. PICK n \in Nat : n = Len(fifo) - 2
    BY <1>2
  <2>3. \A i \in 3 .. n + 2 : fifo[i] \in Int
    BY <2>2
  <2>4. SubSeq(fifo, 3, n + 2) = [i \in 1 .. n |-> fifo[i + 2]]
    BY <2>2
  <2>5. SubSeq(fifo, 3, n + 2) \in Seq(Int) /\ Len(SubSeq(fifo, 3, n + 2)) = n
    BY <2>2, <2>3, <2>4
  <2>6. \A i \in 1 .. n : SubSeq(fifo, 3, n + 2)[i] = fifo[i + 2]
    BY <2>4
  <2>7. n + 2 = Len(fifo)
    BY <2>2
  <2>8. /\ Ide!pair \in Seq(Int) /\ Len(Ide!pair) = 2
        /\ \A i \in 1 .. 2 : Ide!pair[i] = fifo[i]
    BY <2>0, <2>1
  <2>9. /\ Ide!rest \in Seq(Int) /\ Len(Ide!rest) = n
        /\ \A i \in 1 .. n : Ide!rest[i] = fifo[i + 2]
    BY <2>0, <2>5, <2>6, <2>7
  <2>10. \A i \in 1 .. n + 2 : fifo[i] = d + i
    BY <2>7 DEF Follow
  <2>11. Follow(Ide!pair, d)
    <3>1. ASSUME NEW i \in 1 .. 2 PROVE Ide!pair[i] = d + i
      <4>1. i \in 1 .. n + 2 BY <2>2
      <4> QED BY <2>8, <2>10, <4>1
    <3> QED BY <2>8, <3>1 DEF Follow
  <2>12. ASSUME NEW i \in 1 .. n PROVE Ide!rest[i] = (d + 2) + i
    <3>1. i + 2 \in 1 .. n + 2 /\ i \in Int BY <2>2
    <3>2. fifo[i + 2] = d + (i + 2) BY <2>10, <3>1
    <3> QED BY <2>9, <3>1, <3>2
  <2>13. Follow(Ide!rest, d + 2)
    BY <2>9, <2>12 DEF Follow
  <2> QED BY <1>2, <2>2, <2>8, <2>9, <2>11, <2>13
<1> QED
  BY <1>1, <1>2

IdeTyped ==
  /\ fifo \in Seq(Int) /\ taken \in Seq(Int) /\ ideBuffer \in Seq(Int)
  /\ fetched \in Nat /\ sent \in Nat /\ slow \in 0 .. MaxSlow /\ problem \in BOOLEAN
  /\ ctrl \in [enable : BOOLEAN, writing : BOOLEAN, repeat : BOOLEAN]
  /\ idePc \in {"off", "idle", "word", "full", "first", "second", "empty", "drain"}
  /\ op \in [name : {"none", "insw", "inb", "outsw", "outb"}, count : 0 .. MaxWords,
             left : 0 .. Wrap - 1]
  /\ idePc = "off" => op.name = "none"
  /\ idePc = "word" => op.left >= 1
  /\ problem => slow >= 1
  /\ Len(fifo) <= 4 + slow /\ (idePc = "idle" => Len(fifo) <= 3 + slow)

(* Nobody reads or writes, or a word, or four.                               *)
Resting ==
  /\ idePc = "off" => ~ctrl.enable
  /\ idePc = "idle" => fifo = <<>> /\ ~ctrl.enable
ReadingWords ==
  idePc = "word" =>
    /\ op.name \in {"insw", "inb"} /\ op.count < 4 /\ op.left \in 1 .. op.count
    /\ ~ctrl.repeat /\ ~ctrl.writing
    /\ Len(ideBuffer) = op.count - op.left /\ Follow(ideBuffer, 0)
    /\ fetched = Len(ideBuffer) + Len(fifo) /\ Follow(fifo, Len(ideBuffer))
    /\ Len(fifo) = IF ctrl.enable THEN 0 ELSE 1
FoursTaken ==
  /\ op.name = "insw" /\ op.count >= 4 /\ op.left \in 1 .. op.count
  /\ Len(ideBuffer) = op.count - op.left + (IF idePc = "second" THEN 2 ELSE 0)
  /\ \E k \in Nat : op.count - op.left = 4 * k
  /\ Follow(ideBuffer, 0)
ReadingFours ==
  idePc \in {"full", "first", "second"} =>
    /\ FoursTaken
    /\ fetched = Len(ideBuffer) + Len(fifo) /\ Follow(fifo, Len(ideBuffer))
    /\ ~ctrl.writing /\ (ctrl.enable <=> (idePc = "full" \/ Ide!more))
    /\ ctrl.enable => ctrl.repeat
    /\ idePc = "first" => Len(fifo) = 4
    /\ idePc = "second" => Len(fifo) >= 2 /\ (~Ide!more => Len(fifo) = 2)
WritingWords ==
  idePc \in {"empty", "drain"} =>
    /\ op.name \in {"outsw", "outb"} /\ ctrl.writing
    /\ Ide!proper =>
         /\ sent <= op.count /\ (idePc = "drain" => sent = op.count)
         /\ idePc = "empty" => op.left = op.count - sent /\ \E k \in Nat : op.left = 4 * k
         /\ Len(taken) + Len(fifo) = sent
         /\ Follow(taken, 0) /\ Follow(fifo, Len(taken))
Carrying ==
  ~problem => Len(fifo) <= 4 /\ Resting /\ ReadingWords /\ ReadingFours /\ WritingWords

IdeInv == IdeTyped /\ Carrying /\ Ide!ExactlyCount

LEMMA IdeConstants ==
  /\ MaxWords \in Nat /\ MaxWords >= 1 /\ WordCounts \subseteq 1 .. MaxWords
  /\ Wrap \in Nat /\ MaxWords < Wrap /\ MaxSlow \in Nat
BY PartsAssumption DEF Ide!IdeChannelAssumption

LEMMA IdeInvInit == Ide!Init => IdeInv
<1> SUFFICES ASSUME Ide!Init PROVE IdeInv
  OBVIOUS
<1>1. /\ op \in [name : {"none", "insw", "inb", "outsw", "outb"}, count : 0 .. MaxWords,
                 left : 0 .. Wrap - 1]
      /\ ctrl \in [enable : BOOLEAN, writing : BOOLEAN, repeat : BOOLEAN] /\ ~ctrl.enable
  BY IdeConstants DEF Ide!Init, Ide!Off
<1>2. fifo \in Seq(Int) /\ Len(fifo) <= 4
  <2>1. fifo = <<>> \/ fifo = <<0>> \/ fifo = <<0, 0, 0, 0>>
    BY DEF Ide!Init
  <2>2. CASE fifo = <<>> BY <2>2
  <2>3. CASE fifo = <<0>> BY <2>3
  <2>4. CASE fifo = <<0, 0, 0, 0>> BY <2>4
  <2> QED BY <2>1, <2>2, <2>3, <2>4
<1>3. IdeTyped
  <2>1. /\ Len(fifo) <= 4 + slow /\ slow \in 0 .. MaxSlow /\ fetched \in Nat /\ sent \in Nat
    BY <1>2, IdeConstants DEF Ide!Init
  <2>2. taken \in Seq(Int) /\ ideBuffer \in Seq(Int)
    BY DEF Ide!Init
  <2> QED BY <1>1, <1>2, <2>1, <2>2 DEF Ide!Init, IdeTyped
<1>4. Carrying
  BY <1>1, <1>2 DEF Ide!Init, Carrying, Resting, ReadingWords, ReadingFours, WritingWords
<1>5. Ide!ExactlyCount
  BY DEF Ide!Init, Ide!ExactlyCount
<1> QED
  BY <1>3, <1>4, <1>5 DEF IdeInv

LEMMA NotFour == ASSUME NEW n \in Nat, n < 4 PROVE n # 4
OBVIOUS

LEMMA IdeFetch ==
  ASSUME IdeInv, Ide!Fetch PROVE IdeInv'
<1>0. Len(fifo) < 4 /\ Len(fifo) \in Nat
  BY DEF Ide!Fetch, IdeInv, IdeTyped
<1>1. /\ fifo \in Seq(Int) /\ Len(fifo) < 4 /\ Len(fifo) \in Nat /\ fetched \in Nat /\ slow \in Nat
      /\ ctrl \in [enable : BOOLEAN, writing : BOOLEAN, repeat : BOOLEAN]
      /\ ctrl.enable /\ ~ctrl.writing
      /\ op.left \in Nat /\ op.count \in Nat /\ ideBuffer \in Seq(Int)
  BY IdeConstants DEF IdeInv, IdeTyped, Ide!Fetch
<1>2. /\ fifo' = Append(fifo, fetched + 1) /\ fetched' = fetched + 1
      /\ ctrl' = [ctrl EXCEPT !.enable = ctrl.repeat]
      /\ UNCHANGED <<taken, idePc, op, ideBuffer, sent, problem, slow>>
  BY DEF Ide!Fetch
<1>3. /\ fifo' \in Seq(Int) /\ Len(fifo') = Len(fifo) + 1 /\ fifo' # <<>>
  BY <1>1, <1>2
<1>9. /\ ctrl' \in [enable : BOOLEAN, writing : BOOLEAN, repeat : BOOLEAN]
      /\ ctrl'.enable = ctrl.repeat /\ ctrl'.repeat = ctrl.repeat /\ ctrl'.writing = ctrl.writing
  BY <1>1, <1>2
<1>4. idePc = "idle" => problem
  BY <1>1 DEF IdeInv, Carrying, Resting
<1>5. IdeTyped'
  <2>1. idePc = "idle" => slow >= 1
    BY <1>4 DEF IdeInv, IdeTyped
  <2>2. Len(fifo') <= 4 + slow' /\ (idePc' = "idle" => Len(fifo') <= 3 + slow')
    BY <1>1, <1>2, <1>3, <2>1
  <2>3. fetched' \in Nat
    BY <1>1, <1>2
  <2>4. IdeTyped
    BY DEF IdeInv
  <2> QED BY <1>2, <1>3, <1>9, <2>2, <2>3, <2>4, Zenon DEF IdeTyped
<1>6. ASSUME NEW d \in Nat, Follow(fifo, d), fetched = d + Len(fifo) PROVE Follow(fifo', d)
  BY <1>1, <1>2, <1>6, FollowAppend
<1>7. ASSUME ~problem PROVE Resting' /\ ReadingWords' /\ ReadingFours' /\ WritingWords'
  <2>0. Resting /\ ReadingWords /\ ReadingFours /\ WritingWords
    BY <1>7 DEF IdeInv, Carrying
  <2>1. Resting'
    BY <2>0, <1>1, <1>2 DEF Resting
  <2>2. ReadingWords'
    BY <2>0, <1>1, <1>2, <1>3, <1>6, <1>9 DEF ReadingWords
  <2>3. ReadingFours'
    <3>1. SUFFICES ASSUME idePc \in {"full", "first", "second"} PROVE ReadingFours'
      BY <1>2 DEF ReadingFours
    <3>2. /\ ctrl.repeat /\ (idePc = "full" \/ Ide!more) /\ idePc # "first"
          /\ Len(ideBuffer) \in Nat
      <4>1. /\ ctrl.enable <=> (idePc = "full" \/ Ide!more)
            /\ ctrl.enable => ctrl.repeat
            /\ idePc = "first" => Len(fifo) = 4
        BY <3>1, <2>0 DEF ReadingFours
      <4>2. Len(fifo) # 4
        BY <1>0, NotFour, Zenon
      <4>3. Len(ideBuffer) \in Nat
        BY <1>1
      <4>4. ctrl.enable
        BY <1>1
      <4> QED BY <4>1, <4>2, <4>3, <4>4
    <3>3. FoursTaken' /\ (Ide!more' <=> Ide!more)
      BY <1>2, <2>0, <3>1 DEF FoursTaken, ReadingFours, Ide!more
    <3>5. Follow(fifo', Len(ideBuffer)) /\ fetched' = Len(ideBuffer) + Len(fifo')
      BY <1>1, <1>2, <1>3, <1>6, <2>0, <3>1, <3>2 DEF ReadingFours
    <3> QED
      BY <1>1, <1>2, <1>3, <1>9, <2>0, <3>1, <3>2, <3>3, <3>5 DEF ReadingFours
  <2>4. WritingWords'
    BY <2>0, <1>1, <1>2, <1>3 DEF WritingWords
  <2> QED BY <2>1, <2>2, <2>3, <2>4
<1>8. Ide!ExactlyCount'
  BY <1>2, <1>4 DEF Ide!ExactlyCount
<1> QED
  BY <1>1, <1>2, <1>3, <1>5, <1>7, <1>8 DEF IdeInv, Carrying

LEMMA IdePut ==
  ASSUME IdeInv, Ide!Put PROVE IdeInv'
<1>1. /\ fifo \in Seq(Int) /\ fifo # <<>> /\ taken \in Seq(Int) /\ slow \in Nat /\ sent \in Nat
      /\ op.count \in 0 .. MaxWords /\ MaxWords \in Nat
      /\ ctrl \in [enable : BOOLEAN, writing : BOOLEAN, repeat : BOOLEAN]
      /\ ctrl.enable /\ ctrl.writing
  BY IdeConstants DEF IdeInv, IdeTyped, Ide!Put
<1>2. /\ taken' = (IF Len(taken) <= MaxWords THEN Append(taken, Head(fifo)) ELSE taken)
      /\ fifo' = Tail(fifo) /\ ctrl' = [ctrl EXCEPT !.enable = ctrl.repeat]
      /\ UNCHANGED <<fetched, idePc, op, ideBuffer, sent, problem, slow>>
  BY DEF Ide!Put
<1>3. /\ ctrl' \in [enable : BOOLEAN, writing : BOOLEAN, repeat : BOOLEAN]
      /\ ctrl'.enable = ctrl.repeat /\ ctrl'.repeat = ctrl.repeat /\ ctrl'.writing = ctrl.writing
  BY <1>1, <1>2
<1>4. /\ Tail(fifo) \in Seq(Int) /\ Len(Tail(fifo)) = Len(fifo) - 1 /\ Len(fifo) \in Nat
      /\ Head(fifo) \in Int
  BY <1>1
<1>5. taken' \in Seq(Int)
  BY <1>1, <1>2, <1>4
<1>6. Len(fifo) <= 4 + slow => Len(fifo') <= 4 + slow
  BY <1>1, <1>2, <1>4
<1>7. Len(fifo) <= 3 + slow => Len(fifo') <= 3 + slow
  BY <1>1, <1>2, <1>4
<1>8. IdeTyped'
  BY <1>2, <1>3, <1>4, <1>5, <1>6, <1>7 DEF IdeInv, IdeTyped
<1>9. ASSUME ~problem
      PROVE  /\ idePc \in {"empty", "drain"} /\ Len(fifo') <= 4
             /\ Resting' /\ ReadingWords' /\ ReadingFours' /\ WritingWords'
  <2>0. Len(fifo) <= 4 /\ Resting /\ ReadingWords /\ ReadingFours /\ WritingWords
    BY <1>9 DEF IdeInv, Carrying
  <2>1. idePc \in {"empty", "drain"}
    BY <2>0, <1>1 DEF Resting, ReadingWords, ReadingFours, IdeInv, IdeTyped
  <2>2. Resting' /\ ReadingWords' /\ ReadingFours'
    BY <2>1, <1>2 DEF Resting, ReadingWords, ReadingFours
  <2>3. Len(fifo') <= 4
    BY <2>0, <1>2, <1>4
  <2>4. op.name \in {"outsw", "outb"} /\ ctrl'.writing /\ (Ide!proper' <=> Ide!proper)
    BY <2>0, <2>1, <1>1, <1>2, <1>3 DEF WritingWords, Ide!proper
  <2>5. ASSUME Ide!proper
        PROVE  /\ sent <= op.count /\ (idePc = "drain" => sent = op.count)
               /\ idePc = "empty" => op.left = op.count - sent /\ \E k \in Nat : op.left = 4 * k
               /\ Len(taken) + Len(fifo) = sent
               /\ Follow(taken, 0) /\ Follow(fifo, Len(taken))
    BY <2>0, <2>1, <2>5 DEF WritingWords
  <2>6. ASSUME Ide!proper
        PROVE  /\ Len(taken') + Len(fifo') = sent
               /\ Follow(taken', 0) /\ Follow(fifo', Len(taken'))
    <3>1. Len(taken) \in Nat
      BY <1>1
    <3>2. Len(taken) <= MaxWords
      BY <3>1, <2>5, <2>6, <1>1, <1>4
    <3>3. /\ Len(fifo) >= 1 /\ Follow(Tail(fifo), Len(taken) + 1) /\ Head(fifo) = Len(taken) + 1
      BY <3>1, <2>5, <2>6, <1>1, FollowTail
    <3>4. taken' = Append(taken, 0 + Len(taken) + 1)
      BY <1>2, <3>1, <3>2, <3>3
    <3>5. Len(taken') = Len(taken) + 1 /\ Follow(taken', 0)
      BY <3>4, <2>5, <2>6, <1>1, FollowAppend
    <3> QED BY <3>1, <3>3, <3>5, <2>5, <2>6, <1>1, <1>2, <1>4
  <2>7. WritingWords'
    BY <2>4, <2>5, <2>6, <1>2 DEF WritingWords
  <2> QED BY <2>1, <2>2, <2>3, <2>7
<1>10. Ide!ExactlyCount'
  BY <1>2, <1>9 DEF Ide!ExactlyCount
<1> QED
  BY <1>2, <1>8, <1>9, <1>10 DEF IdeInv, Carrying

LEMMA IdeDetected ==
  ASSUME IdeInv, Ide!detect_cpld PROVE IdeInv'
<1>1. /\ idePc = "off" /\ idePc' = "idle" /\ fifo' = <<>> /\ op.name = "none"
      /\ UNCHANGED <<ctrl, fetched, taken, op, ideBuffer, sent, problem, slow>>
  BY DEF Ide!detect_cpld, IdeInv, IdeTyped
<1>2. fifo' \in Seq(Int) /\ Len(fifo') = 0
  BY <1>1
<1>3. slow \in Nat
  BY IdeConstants DEF IdeInv, IdeTyped
<1>4. IdeTyped'
  BY <1>1, <1>2, <1>3 DEF IdeInv, IdeTyped
<1>5. Carrying'
  BY <1>1, <1>2 DEF IdeInv, Carrying, Resting, ReadingWords, ReadingFours, WritingWords
<1>6. Ide!ExactlyCount'
  BY <1>1 DEF Ide!ExactlyCount
<1> QED
  BY <1>4, <1>5, <1>6 DEF IdeInv

(* What each call begins with.                                               *)
LEMMA IdeBegins ==
  ASSUME IdeInv, NEW name \in {"insw", "inb", "outsw", "outb"}, NEW n \in 1 .. MaxWords,
         NEW to \in {"word", "full", "empty", "drain"},
         NEW w \in BOOLEAN, NEW repeat \in BOOLEAN,
         Ide!Begin(name, n, to, [enable |-> TRUE, writing |-> w, repeat |-> repeat])
  PROVE  /\ idePc = "idle" /\ idePc' = to
         /\ ctrl' \in [enable : BOOLEAN, writing : BOOLEAN, repeat : BOOLEAN]
         /\ ctrl'.enable /\ ctrl'.writing = w /\ ctrl'.repeat = repeat
         /\ op' \in [name : {"none", "insw", "inb", "outsw", "outb"}, count : 0 .. MaxWords,
                     left : 0 .. Wrap - 1]
         /\ op'.name = name /\ op'.count = n /\ op'.left = n
         /\ ideBuffer' = <<>> /\ fetched' = 0 /\ taken' = <<>> /\ slow' = slow
         /\ problem' \in BOOLEAN /\ (problem' => slow >= 1) /\ (~problem' => ~problem /\ fifo = <<>>)
         /\ fifo \in Seq(Int) /\ Len(fifo) <= 3 + slow /\ slow \in 0 .. MaxSlow /\ slow \in Nat
         /\ Len(fifo) \in Nat
<1>1. /\ idePc = "idle" /\ idePc' = to
      /\ ctrl' = [enable |-> TRUE, writing |-> w, repeat |-> repeat]
      /\ op' = [name |-> name, count |-> n, left |-> n]
      /\ ideBuffer' = <<>> /\ fetched' = 0 /\ taken' = <<>> /\ slow' = slow
      /\ problem' = (problem \/ (~repeat /\ fifo # <<>>))
  BY DEF Ide!Begin
<1>2. op' \in [name : {"none", "insw", "inb", "outsw", "outb"}, count : 0 .. MaxWords,
               left : 0 .. Wrap - 1]
  <2>1. n \in 0 .. MaxWords /\ n \in 0 .. Wrap - 1
    BY IdeConstants
  <2> QED BY <2>1, <1>1
<1>3. /\ fifo \in Seq(Int) /\ Len(fifo) <= 3 + slow /\ slow \in 0 .. MaxSlow
      /\ problem \in BOOLEAN /\ (problem => slow >= 1)
  BY <1>1 DEF IdeInv, IdeTyped
<1>4. ~problem => fifo = <<>>
  BY <1>1 DEF IdeInv, Carrying, Resting
<1>5. slow \in Nat /\ Len(fifo) \in Nat
  BY <1>3, IdeConstants
<1>6. problem' \in BOOLEAN /\ (problem' => slow >= 1) /\ (~problem' => ~problem /\ fifo = <<>>)
  BY <1>1, <1>3, <1>4
<1> QED
  BY <1>1, <1>2, <1>3, <1>5, <1>6

LEMMA IdeEmptyFollows ==
  ASSUME NEW d PROVE Follow(<<>>, d) /\ Len(<<>>) = 0 /\ <<>> \in Seq(Int)
BY DEF Follow

LEMMA IdeReadsWords ==
  ASSUME IdeInv, NEW name \in {"insw", "inb"}, NEW n \in 1 .. MaxWords, n < 4,
         Ide!Begin(name, n, "word", Ide!Reading(FALSE)), sent' = 0, UNCHANGED fifo
  PROVE  IdeInv'
<1>0. Ide!Begin(name, n, "word", [enable |-> TRUE, writing |-> FALSE, repeat |-> FALSE])
  BY DEF Ide!Reading
<1>1. /\ idePc' = "word"
      /\ ctrl' \in [enable : BOOLEAN, writing : BOOLEAN, repeat : BOOLEAN]
      /\ ctrl'.enable /\ ~ctrl'.writing /\ ~ctrl'.repeat
      /\ op' \in [name : {"none", "insw", "inb", "outsw", "outb"}, count : 0 .. MaxWords,
                  left : 0 .. Wrap - 1]
      /\ op'.name = name /\ op'.count = n /\ op'.left = n
      /\ ideBuffer' = <<>> /\ fetched' = 0 /\ taken' = <<>> /\ slow' = slow
      /\ problem' \in BOOLEAN /\ (problem' => slow >= 1) /\ (~problem' => fifo = <<>>)
      /\ fifo \in Seq(Int) /\ Len(fifo) <= 3 + slow /\ slow \in 0 .. MaxSlow /\ slow \in Nat
      /\ Len(fifo) \in Nat
  <2>1. name \in {"insw", "inb", "outsw", "outb"} /\ "word" \in {"word", "full", "empty", "drain"}
        /\ TRUE \in BOOLEAN /\ FALSE \in BOOLEAN
    OBVIOUS
  <2>2. ctrl'.writing = FALSE /\ ctrl'.repeat = FALSE
    BY <1>0, <2>1, IdeBegins
  <2> QED BY <1>0, <2>1, <2>2, IdeBegins
<1>2. n \in Nat /\ n >= 1 /\ n \in 1 .. n
  BY IdeConstants
<1>3. IdeTyped'
  BY <1>1, <1>2, IdeEmptyFollows DEF IdeTyped
<1>4. ASSUME ~problem' PROVE ReadingWords' /\ Len(fifo') <= 4
  <2>1. fifo' = <<>>
    BY <1>1, <1>4
  <2>2. Len(ideBuffer') = op'.count - op'.left /\ fetched' = Len(ideBuffer') + Len(fifo')
    BY <1>1, <1>2, <2>1, IdeEmptyFollows
  <2> QED BY <2>1, <2>2, <1>1, <1>2, IdeEmptyFollows DEF ReadingWords
<1>5. Resting' /\ ReadingFours' /\ WritingWords'
  BY <1>1 DEF Resting, ReadingFours, WritingWords
<1>6. Ide!ExactlyCount'
  BY <1>1 DEF Ide!ExactlyCount
<1> QED
  BY <1>3, <1>4, <1>5, <1>6 DEF IdeInv, Carrying

LEMMA IdeReadsFours ==
  ASSUME IdeInv, NEW n \in 1 .. MaxWords, ~(n < 4),
         Ide!Begin("insw", n, "full", Ide!Reading(TRUE)), sent' = 0, UNCHANGED fifo
  PROVE  IdeInv'
<1>0. Ide!Begin("insw", n, "full", [enable |-> TRUE, writing |-> FALSE, repeat |-> TRUE])
  BY DEF Ide!Reading
<1>1. /\ idePc' = "full"
      /\ ctrl' \in [enable : BOOLEAN, writing : BOOLEAN, repeat : BOOLEAN]
      /\ ctrl'.enable /\ ~ctrl'.writing /\ ctrl'.repeat
      /\ op' \in [name : {"none", "insw", "inb", "outsw", "outb"}, count : 0 .. MaxWords,
                  left : 0 .. Wrap - 1]
      /\ op'.name = "insw" /\ op'.count = n /\ op'.left = n
      /\ ideBuffer' = <<>> /\ fetched' = 0 /\ taken' = <<>> /\ slow' = slow
      /\ problem' \in BOOLEAN /\ (problem' => slow >= 1) /\ (~problem' => fifo = <<>>)
      /\ fifo \in Seq(Int) /\ Len(fifo) <= 3 + slow /\ slow \in 0 .. MaxSlow /\ slow \in Nat
      /\ Len(fifo) \in Nat
  BY <1>0, IdeBegins
<1>2. n \in Nat /\ n >= 4 /\ n \in 1 .. n
  BY IdeConstants
<1>3. IdeTyped'
  BY <1>1, <1>2, IdeEmptyFollows DEF IdeTyped
<1>4. ASSUME ~problem' PROVE ReadingFours' /\ Len(fifo') <= 4
  <2>1. fifo' = <<>>
    BY <1>1, <1>4
  <2>2. Len(ideBuffer') = op'.count - op'.left /\ fetched' = Len(ideBuffer') + Len(fifo')
    BY <1>1, <1>2, <2>1, IdeEmptyFollows
  <2>3. op'.count - op'.left = 4 * 0 /\ 0 \in Nat
    BY <1>1, <1>2
  <2>4. FoursTaken'
    BY <2>2, <2>3, <1>1, <1>2, IdeEmptyFollows DEF FoursTaken
  <2> QED BY <2>1, <2>2, <2>4, <1>1, IdeEmptyFollows DEF ReadingFours
<1>5. Resting' /\ ReadingWords' /\ WritingWords'
  BY <1>1 DEF Resting, ReadingWords, WritingWords
<1>6. Ide!ExactlyCount'
  BY <1>1 DEF Ide!ExactlyCount
<1> QED
  BY <1>3, <1>4, <1>5, <1>6 DEF IdeInv, Carrying

LEMMA IdePutsOne ==
  ASSUME IdeInv, Ide!dboxide_outb PROVE IdeInv'
<1>0. /\ Ide!Begin("outb", 1, "drain", [enable |-> TRUE, writing |-> TRUE, repeat |-> FALSE])
      /\ fifo' = Append(fifo, 1) /\ sent' = 1
  BY DEF Ide!dboxide_outb, Ide!Writing
<1>1. /\ idePc' = "drain"
      /\ ctrl' \in [enable : BOOLEAN, writing : BOOLEAN, repeat : BOOLEAN]
      /\ ctrl'.enable /\ ctrl'.writing
      /\ op' \in [name : {"none", "insw", "inb", "outsw", "outb"}, count : 0 .. MaxWords,
                  left : 0 .. Wrap - 1]
      /\ op'.name = "outb" /\ op'.count = 1 /\ op'.left = 1
      /\ ideBuffer' = <<>> /\ fetched' = 0 /\ taken' = <<>> /\ slow' = slow
      /\ problem' \in BOOLEAN /\ (problem' => slow >= 1) /\ (~problem' => fifo = <<>>)
      /\ fifo \in Seq(Int) /\ Len(fifo) <= 3 + slow /\ slow \in 0 .. MaxSlow /\ slow \in Nat
      /\ Len(fifo) \in Nat
  <2>1. "outb" \in {"insw", "inb", "outsw", "outb"} /\ "drain" \in {"word", "full", "empty", "drain"}
        /\ TRUE \in BOOLEAN /\ FALSE \in BOOLEAN /\ 1 \in 1 .. MaxWords
    BY IdeConstants
  <2>2. ctrl'.writing = TRUE
    BY <1>0, <2>1, IdeBegins
  <2> QED BY <1>0, <2>1, <2>2, IdeBegins
<1>2. fifo' \in Seq(Int) /\ Len(fifo') = Len(fifo) + 1 /\ Len(fifo') <= 4 + slow
  BY <1>0, <1>1
<1>3. IdeTyped'
  BY <1>0, <1>1, <1>2, IdeEmptyFollows DEF IdeTyped
<1>4. ASSUME ~problem' PROVE WritingWords' /\ Len(fifo') <= 4
  <2>1. fifo' = <<1>>
    BY <1>0, <1>1, <1>4
  <2>2. Len(fifo') = 1 /\ Follow(fifo', 0)
    BY <2>1 DEF Follow
  <2>3. Len(taken') = 0 /\ Follow(taken', 0)
    BY <1>1, IdeEmptyFollows
  <2>4. sent' <= op'.count /\ sent' = op'.count /\ Len(taken') + Len(fifo') = sent'
    BY <1>0, <1>1, <2>2, <2>3
  <2> QED BY <2>2, <2>3, <2>4, <1>1 DEF WritingWords
<1>5. Resting' /\ ReadingWords' /\ ReadingFours'
  BY <1>1 DEF Resting, ReadingWords, ReadingFours
<1>6. Ide!ExactlyCount'
  BY <1>1 DEF Ide!ExactlyCount
<1> QED
  BY <1>3, <1>4, <1>5, <1>6 DEF IdeInv, Carrying

LEMMA FourTimes ==
  ASSUME NEW n \in Nat, n % 4 = 0 PROVE \E k \in Nat : n = 4 * k
<1>1. n = 4 * (n \div 4) + (n % 4) /\ n \div 4 \in Nat
  OBVIOUS
<1> QED
  BY <1>1

LEMMA IdePutsMany ==
  ASSUME IdeInv, Ide!dboxide_outsw PROVE IdeInv'
<1>0. PICK n \in WordCounts :
        /\ Ide!Begin("outsw", n, "empty", [enable |-> TRUE, writing |-> TRUE, repeat |-> TRUE])
        /\ sent' = 0 /\ fifo' = fifo
  BY DEF Ide!dboxide_outsw, Ide!Writing
<1>1. /\ idePc' = "empty"
      /\ ctrl' \in [enable : BOOLEAN, writing : BOOLEAN, repeat : BOOLEAN]
      /\ ctrl'.enable /\ ctrl'.writing
      /\ op' \in [name : {"none", "insw", "inb", "outsw", "outb"}, count : 0 .. MaxWords,
                  left : 0 .. Wrap - 1]
      /\ op'.name = "outsw" /\ op'.count = n /\ op'.left = n
      /\ ideBuffer' = <<>> /\ fetched' = 0 /\ taken' = <<>> /\ slow' = slow
      /\ problem' \in BOOLEAN /\ (problem' => slow >= 1) /\ (~problem' => fifo = <<>>)
      /\ fifo \in Seq(Int) /\ Len(fifo) <= 3 + slow /\ slow \in 0 .. MaxSlow /\ slow \in Nat
      /\ Len(fifo) \in Nat
  <2>1. "outsw" \in {"insw", "inb", "outsw", "outb"} /\ "empty" \in {"word", "full", "empty", "drain"}
        /\ TRUE \in BOOLEAN /\ n \in 1 .. MaxWords
    BY IdeConstants
  <2>2. ctrl'.writing = TRUE
    BY <1>0, <2>1, IdeBegins
  <2> QED BY <1>0, <2>1, <2>2, IdeBegins
<1>2. n \in Nat
  BY IdeConstants
<1>3. IdeTyped'
  BY <1>0, <1>1, IdeEmptyFollows DEF IdeTyped
<1>4. ASSUME ~problem' PROVE WritingWords' /\ Len(fifo') <= 4
  <2>1. fifo' = <<>> /\ Len(fifo') = 0
    BY <1>0, <1>1, <1>4, IdeEmptyFollows
  <2>2. Ide!proper' => \E k \in Nat : n = 4 * k
    BY <1>1, <1>2, FourTimes DEF Ide!proper
  <2>3. sent' <= op'.count /\ op'.left = op'.count - sent' /\ Len(taken') + Len(fifo') = sent'
    BY <1>0, <1>1, <1>2, <2>1, IdeEmptyFollows
  <2>4. Follow(taken', 0) /\ Follow(fifo', Len(taken'))
    BY <1>1, <2>1, IdeEmptyFollows
  <2> QED BY <2>1, <2>2, <2>3, <2>4, <1>1 DEF WritingWords
<1>5. Resting' /\ ReadingWords' /\ ReadingFours'
  BY <1>1 DEF Resting, ReadingWords, ReadingFours
<1>6. Ide!ExactlyCount'
  BY <1>1 DEF Ide!ExactlyCount
<1> QED
  BY <1>3, <1>4, <1>5, <1>6 DEF IdeInv, Carrying

LEMMA IdeWord ==
  ASSUME IdeInv, Ide!Word PROVE IdeInv'
<1>1. /\ idePc = "word" /\ fifo # <<>> /\ fifo \in Seq(Int) /\ ideBuffer \in Seq(Int)
      /\ op \in [name : {"none", "insw", "inb", "outsw", "outb"}, count : 0 .. MaxWords,
                 left : 0 .. Wrap - 1]
      /\ op.left >= 1 /\ slow \in Nat
      /\ ctrl \in [enable : BOOLEAN, writing : BOOLEAN, repeat : BOOLEAN]
  BY IdeConstants DEF IdeInv, IdeTyped, Ide!Word
<1>2. /\ ideBuffer' = Append(ideBuffer, Head(fifo)) /\ fifo' = <<>>
      /\ op' = [op EXCEPT !.left = op.left - 1]
      /\ IF op.left = 1 THEN idePc' = "idle" /\ UNCHANGED ctrl
                        ELSE ctrl' = Ide!Reading(FALSE) /\ UNCHANGED idePc
      /\ UNCHANGED <<fetched, taken, sent, problem, slow>>
  BY DEF Ide!Word
<1>3. op.left \in Nat /\ op.left - 1 \in 0 .. Wrap - 1
  BY <1>1, IdeConstants
<1>4. /\ op' \in [name : {"none", "insw", "inb", "outsw", "outb"}, count : 0 .. MaxWords,
                  left : 0 .. Wrap - 1]
      /\ op'.name = op.name /\ op'.count = op.count /\ op'.left = op.left - 1
  BY <1>1, <1>2, <1>3
<1>5. Head(fifo) \in Int /\ ideBuffer' \in Seq(Int) /\ fifo' \in Seq(Int) /\ Len(fifo') = 0
  BY <1>1, <1>2
<1>6. /\ ctrl' \in [enable : BOOLEAN, writing : BOOLEAN, repeat : BOOLEAN]
      /\ idePc' \in {"idle", "word"} /\ (idePc' = "word" <=> op.left # 1)
      /\ idePc' = "word" => ctrl'.enable = TRUE /\ ctrl'.writing = FALSE /\ ctrl'.repeat = FALSE
      /\ idePc' = "idle" => ctrl' = ctrl
  <2>1. CASE op.left = 1
    BY <1>1, <1>2, <2>1
  <2>2. CASE op.left # 1
    <3>1. ctrl' = [enable |-> TRUE, writing |-> FALSE, repeat |-> FALSE] /\ idePc' = "word"
      BY <1>1, <1>2, <2>2 DEF Ide!Reading
    <3> QED BY <2>2, <3>1
  <2> QED BY <2>1, <2>2
<1>7. IdeTyped'
  <2>1. idePc' = "word" => op'.left >= 1
    BY <1>1, <1>3, <1>4, <1>6
  <2>2. Len(fifo') <= 4 + slow /\ Len(fifo') <= 3 + slow
    BY <1>1, <1>5
  <2> QED BY <2>1, <2>2, <1>2, <1>4, <1>5, <1>6 DEF IdeInv, IdeTyped
<1>8. ASSUME ~problem
      PROVE  /\ op.name \in {"insw", "inb"} /\ op.count < 4 /\ op.left \in 1 .. op.count /\ ~ctrl.enable
             /\ Len(ideBuffer') = op.count - op'.left /\ Follow(ideBuffer', 0)
             /\ fetched = Len(ideBuffer') /\ Len(ideBuffer') \in Nat
  <2>1. /\ op.name \in {"insw", "inb"} /\ op.count < 4 /\ op.left \in 1 .. op.count
        /\ Len(ideBuffer) = op.count - op.left /\ Follow(ideBuffer, 0)
        /\ fetched = Len(ideBuffer) + Len(fifo) /\ Follow(fifo, Len(ideBuffer))
        /\ Len(fifo) = IF ctrl.enable THEN 0 ELSE 1
    BY <1>1, <1>8 DEF IdeInv, Carrying, ReadingWords
  <2>2. Len(ideBuffer) \in Nat /\ op.count \in Nat
    BY <1>1, IdeConstants
  <2>3. Len(fifo) >= 1 /\ Head(fifo) = Len(ideBuffer) + 1
    BY <1>1, <2>1, <2>2, FollowTail
  <2>4. ~ctrl.enable /\ Len(fifo) = 1
    BY <1>1, <2>1, <2>3
  <2>5. ideBuffer' = Append(ideBuffer, 0 + Len(ideBuffer) + 1)
    BY <1>2, <2>2, <2>3
  <2>6. /\ Len(Append(ideBuffer, 0 + Len(ideBuffer) + 1)) = Len(ideBuffer) + 1
        /\ Follow(Append(ideBuffer, 0 + Len(ideBuffer) + 1), 0)
    <3>1. ideBuffer \in Seq(Int) /\ Follow(ideBuffer, 0) /\ 0 \in Int
      BY <1>1, <2>1
    <3> QED BY <3>1, FollowAppend
  <2>7. Len(ideBuffer') = Len(ideBuffer) + 1 /\ Follow(ideBuffer', 0)
    BY <2>5, <2>6, Zenon
  <2>8. PICK read \in Nat, asked \in Nat, left \in Int :
          read = Len(ideBuffer) /\ asked = op.count /\ left = op.left /\ read = asked - left
    BY <1>3, <2>1, <2>2
  <2>9. read + 1 = asked - (left - 1) /\ read + 1 \in Nat
    BY <2>8
  <2>10. Len(ideBuffer') = op.count - op'.left /\ Len(ideBuffer') \in Nat
    BY <1>4, <2>7, <2>8, <2>9, Zenon
  <2>11. fetched = Len(ideBuffer')
    BY <2>1, <2>4, <2>7
  <2> QED BY <2>1, <2>4, <2>7, <2>10, <2>11, Zenon
<1>9. ASSUME ~problem PROVE Resting' /\ ReadingWords'
  <2>1. Resting'
    BY <1>2, <1>6, <1>8, <1>9 DEF Resting
  <2>5. CASE idePc' # "word"
    BY <2>1, <2>5 DEF ReadingWords
  <2>2. CASE idePc' = "word"
    <3>1. op'.left \in 1 .. op'.count
      BY <2>2, <1>3, <1>4, <1>6, <1>8, <1>9, IdeConstants, <1>1
    <3>2. fetched' = Len(ideBuffer') + Len(fifo') /\ Follow(fifo', Len(ideBuffer'))
      BY <1>2, <1>5, <1>8, <1>9, IdeEmptyFollows
    <3>3. ReadingWords'
      BY <2>2, <3>1, <3>2, <1>4, <1>5, <1>6, <1>8, <1>9 DEF ReadingWords
    <3> QED BY <2>1, <3>3
  <2> QED BY <2>2, <2>5
<1>10. ReadingFours' /\ WritingWords'
  BY <1>6 DEF ReadingFours, WritingWords
<1>11. Ide!ExactlyCount'
  <2>1. SUFFICES ASSUME idePc' = "idle", ~problem PROVE Ide!ExactlyCount'
    BY <1>2 DEF Ide!ExactlyCount
  <2>2. op'.left = 0 /\ Len(ideBuffer') = op'.count
    BY <2>1, <1>1, <1>3, <1>4, <1>6, <1>8, IdeConstants
  <2>3. ideBuffer' = Ide!Upto(op'.count) /\ fetched' = op'.count
    BY <2>1, <2>2, <1>2, <1>5, <1>8, FollowUpto
  <2> QED BY <2>1, <2>3, <1>2, <1>4, <1>8 DEF Ide!ExactlyCount, Ide!Upto
<1> QED
  BY <1>2, <1>5, <1>7, <1>9, <1>10, <1>11 DEF IdeInv, Carrying

LEMMA IdeFull ==
  ASSUME IdeInv, Ide!Full PROVE IdeInv'
<1>1. /\ idePc = "full" /\ Len(fifo) = 4 /\ idePc' = "first" /\ ctrl' = Ide!stopped
      /\ UNCHANGED <<fifo, fetched, taken, op, ideBuffer, sent, problem, slow>>
      /\ ctrl \in [enable : BOOLEAN, writing : BOOLEAN, repeat : BOOLEAN]
  BY DEF Ide!Full, IdeInv, IdeTyped
<1>2. Ide!more' <=> Ide!more
  BY <1>1 DEF Ide!more
<1>3. /\ ctrl' \in [enable : BOOLEAN, writing : BOOLEAN, repeat : BOOLEAN]
      /\ Ide!more => ctrl' = ctrl
      /\ ~Ide!more => ctrl'.enable = FALSE /\ ctrl'.writing = FALSE
  <2>1. CASE Ide!more
    BY <1>1, <2>1 DEF Ide!stopped
  <2>2. CASE ~Ide!more
    <3>1. ctrl' = [enable |-> FALSE, writing |-> FALSE, repeat |-> FALSE]
      BY <1>1, <2>2 DEF Ide!stopped, Ide!Off
    <3> QED BY <2>2, <3>1
  <2> QED BY <2>1, <2>2
<1>4. IdeTyped'
  BY <1>1, <1>3 DEF IdeInv, IdeTyped
<1>5. ASSUME ~problem PROVE ReadingFours' /\ Len(fifo') <= 4
  <2>1. /\ FoursTaken /\ fetched = Len(ideBuffer) + Len(fifo) /\ Follow(fifo, Len(ideBuffer))
        /\ ~ctrl.writing /\ ctrl.enable /\ ctrl.repeat /\ Len(fifo) <= 4
    BY <1>1, <1>5 DEF IdeInv, Carrying, ReadingFours
  <2>2. FoursTaken'
    BY <2>1, <1>1 DEF FoursTaken
  <2>3. ~ctrl'.writing /\ (ctrl'.enable <=> Ide!more) /\ (ctrl'.enable => ctrl'.repeat)
    BY <2>1, <1>3
  <2> QED BY <2>1, <2>2, <2>3, <1>1, <1>2 DEF ReadingFours
<1>6. Resting' /\ ReadingWords' /\ WritingWords' /\ Ide!ExactlyCount'
  BY <1>1 DEF Resting, ReadingWords, WritingWords, Ide!ExactlyCount
<1> QED
  BY <1>1, <1>4, <1>5, <1>6 DEF IdeInv, Carrying

LEMMA PairSizes ==
  ASSUME NEW n \in Nat, NEW b \in Nat, n <= 4, n = 4 \/ n >= 2
  PROVE  /\ n \in 2 .. 4 /\ ~(n < 2) /\ n - 2 \in 0 .. 2 /\ n - 2 <= 4
         /\ b + n = (b + 2) + (n - 2) /\ (n = 2 => n - 2 = 0) /\ (n = 4 => n - 2 = 2)
OBVIOUS

(* What is taken in twos, and when the second two are the last.              *)
LEMMA IdeTakesPair ==
  ASSUME IdeInv, idePc \in {"first", "second"}, ~problem,
         ideBuffer' = ideBuffer \o Ide!pair, fifo' = Ide!rest
  PROVE  /\ FoursTaken /\ (idePc = "first" => Len(fifo') = 2)
         /\ idePc = "second" /\ ~Ide!more => Len(fifo') = 0
         /\ fetched = Len(ideBuffer') + Len(fifo') /\ Len(ideBuffer) \in Nat
         /\ Len(fifo') \in 0 .. 2 /\ Len(fifo') <= 4 /\ Len(ideBuffer') = Len(ideBuffer) + 2
         /\ Follow(ideBuffer', 0) /\ Follow(fifo', Len(ideBuffer'))
         /\ ~ctrl.writing /\ (ctrl.enable <=> Ide!more) /\ (ctrl.enable => ctrl.repeat)
<1>1. /\ FoursTaken /\ fetched = Len(ideBuffer) + Len(fifo) /\ Follow(fifo, Len(ideBuffer))
      /\ ~ctrl.writing /\ (ctrl.enable <=> Ide!more) /\ (ctrl.enable => ctrl.repeat)
      /\ (idePc = "first" => Len(fifo) = 4) /\ Len(fifo) <= 4
      /\ idePc = "second" => Len(fifo) >= 2 /\ (~Ide!more => Len(fifo) = 2)
  BY DEF IdeInv, Carrying, ReadingFours
<1>2. fifo \in Seq(Int) /\ ideBuffer \in Seq(Int)
  BY DEF IdeInv, IdeTyped
<1>3. Len(fifo) \in Nat /\ Len(ideBuffer) \in Nat
  BY <1>2
<1>4. /\ ~(Len(fifo) < 2) /\ Len(fifo) - 2 \in 0 .. 2 /\ Len(fifo) - 2 <= 4
      /\ fetched = (Len(ideBuffer) + 2) + (Len(fifo) - 2)
      /\ (Len(fifo) = 2 => Len(fifo) - 2 = 0) /\ (Len(fifo) = 4 => Len(fifo) - 2 = 2)
  <2>1. Len(fifo) <= 4 /\ (Len(fifo) = 4 \/ Len(fifo) >= 2)
    BY <1>1
  <2> QED BY <2>1, <1>1, <1>3, PairSizes, Zenon
<1>5. /\ Ide!pair \in Seq(Int) /\ Ide!rest \in Seq(Int)
      /\ Len(Ide!pair) = 2 /\ Len(Ide!rest) = Len(fifo) - 2
      /\ Follow(Ide!pair, Len(ideBuffer)) /\ Follow(Ide!rest, Len(ideBuffer) + 2)
  <2>1. /\ Ide!pair \in Seq(Int) /\ Ide!rest \in Seq(Int)
        /\ Len(Ide!pair) = (IF Len(fifo) < 2 THEN Len(fifo) ELSE 2)
        /\ Len(Ide!rest) = (IF Len(fifo) < 2 THEN 0 ELSE Len(fifo) - 2)
        /\ Follow(Ide!pair, Len(ideBuffer)) /\ Follow(Ide!rest, Len(ideBuffer) + Len(Ide!pair))
    <3>1. Len(ideBuffer) \in Int /\ Follow(fifo, Len(ideBuffer))
      BY <1>1, <1>3
    <3> QED BY <1>2, <3>1, FollowPair
  <2>2. ~(Len(fifo) < 2)
    BY <1>4
  <2> QED BY <2>1, <2>2
<1>6. Follow(ideBuffer, 0)
  BY <1>1 DEF FoursTaken
<1>7. Len(ideBuffer') = Len(ideBuffer) + 2 /\ Follow(ideBuffer', 0)
  BY <1>2, <1>5, <1>6, FollowConcat
<1> QED
  BY <1>1, <1>3, <1>4, <1>5, <1>7

LEMMA IdePairTyped ==
  ASSUME IdeInv
  PROVE  /\ Ide!pair \in Seq(Int) /\ Ide!rest \in Seq(Int) /\ ideBuffer \o Ide!pair \in Seq(Int)
         /\ Len(Ide!rest) <= 3 + slow /\ Len(Ide!rest) <= 4 + slow
<1>1. fifo \in Seq(Int) /\ ideBuffer \in Seq(Int) /\ Len(fifo) <= 4 + slow /\ slow \in Nat
  BY IdeConstants DEF IdeInv, IdeTyped
<1>2. CASE Len(fifo) < 2
  <2>1. Ide!pair = fifo /\ Ide!rest = <<>>
    BY <1>2 DEF Ide!pair, Ide!rest
  <2> QED BY <1>1, <2>1, IdeEmptyFollows
<1>3. CASE ~(Len(fifo) < 2)
  <2>1. Ide!pair = SubSeq(fifo, 1, 2) /\ Ide!rest = SubSeq(fifo, 3, Len(fifo))
    BY <1>3 DEF Ide!pair, Ide!rest
  <2>2. PICK n \in Nat : n = Len(fifo) - 2
    BY <1>1, <1>3
  <2>3. SubSeq(fifo, 3, n + 2) = [i \in 1 .. n |-> fifo[i + 2]]
    BY <1>1, <2>2
  <2>4. \A i \in 3 .. n + 2 : fifo[i] \in Int
    BY <1>1, <2>2
  <2>5. SubSeq(fifo, 3, n + 2) \in Seq(Int) /\ Len(SubSeq(fifo, 3, n + 2)) = n
    BY <2>2, <2>3, <2>4
  <2>6. n + 2 = Len(fifo)
    BY <1>1, <2>2
  <2>7. Ide!rest \in Seq(Int) /\ Len(Ide!rest) = n
    BY <2>1, <2>5, <2>6
  <2>8. Ide!pair \in Seq(Int)
    BY <1>1, <1>3, <2>1
  <2>9. n <= 3 + slow /\ n <= 4 + slow
    BY <1>1, <2>2
  <2> QED BY <1>1, <2>7, <2>8, <2>9
<1> QED
  BY <1>2, <1>3

LEMMA IdeFirst ==
  ASSUME IdeInv, Ide!First PROVE IdeInv'
<1>1. /\ idePc = "first" /\ idePc' = "second"
      /\ ideBuffer' = ideBuffer \o Ide!pair /\ fifo' = Ide!rest
      /\ UNCHANGED <<ctrl, fetched, taken, op, sent, problem, slow>>
  BY DEF Ide!First
<1>2. IdeTyped'
  BY <1>1, IdePairTyped DEF IdeInv, IdeTyped
<1>3. Ide!more' <=> Ide!more
  BY <1>1 DEF Ide!more
<1>4. ASSUME ~problem PROVE ReadingFours' /\ Len(fifo') <= 4
  <2>1. /\ FoursTaken /\ Len(fifo') = 2
        /\ fetched = Len(ideBuffer') + Len(fifo') /\ Len(ideBuffer) \in Nat
        /\ Len(fifo') <= 4 /\ Len(ideBuffer') = Len(ideBuffer) + 2
        /\ Follow(ideBuffer', 0) /\ Follow(fifo', Len(ideBuffer'))
        /\ ~ctrl.writing /\ (ctrl.enable <=> Ide!more) /\ (ctrl.enable => ctrl.repeat)
    BY <1>1, <1>4, IdeTakesPair
  <2>2. FoursTaken'
    <3>1. /\ op.name = "insw" /\ op.count >= 4 /\ op.left \in 1 .. op.count
          /\ Len(ideBuffer) = op.count - op.left + 0
          /\ \E k \in Nat : op.count - op.left = 4 * k
      BY <2>1, <1>1 DEF FoursTaken
    <3>2. Len(ideBuffer') = op.count - op.left + 2
      <4>1. op.count \in Int /\ op.left \in Int
        BY IdeConstants DEF IdeInv, IdeTyped
      <4> QED BY <4>1, <3>1, <2>1
    <3> QED BY <3>1, <3>2, <2>1, <1>1 DEF FoursTaken
  <2>3. fetched' = Len(ideBuffer') + Len(fifo') /\ Len(fifo') = 2
    BY <2>1, <1>1
  <2> QED BY <2>1, <2>2, <2>3, <1>1, <1>3 DEF ReadingFours
<1>5. Resting' /\ ReadingWords' /\ WritingWords' /\ Ide!ExactlyCount'
  BY <1>1 DEF Resting, ReadingWords, WritingWords, Ide!ExactlyCount
<1> QED
  BY <1>1, <1>2, <1>4, <1>5 DEF IdeInv, Carrying

LEMMA FoursEnd ==
  ASSUME NEW count \in Nat, NEW left \in Nat, NEW k \in Nat, count - left = 4 * k,
         left >= 1, left <= 4, count % 4 = 0
  PROVE  left = 4
<1>1. PICK m \in Nat : count = 4 * m
  BY FourTimes
<1>2. left = 4 * (m - k)
  BY <1>1
<1> QED
  BY <1>2

LEMMA LessFour ==
  ASSUME NEW b \in Int, NEW count \in Int, NEW left \in Int, b = count - left + 2
  PROVE  b + 2 = count - (left - 4) + 0
OBVIOUS

LEMMA IdeSecond ==
  ASSUME IdeInv, Ide!Second PROVE IdeInv'
<1>1. /\ idePc = "second"
      /\ ideBuffer' = ideBuffer \o Ide!pair /\ fifo' = Ide!rest
      /\ IF Ide!more THEN idePc' = "full" /\ op' = [op EXCEPT !.left = op.left - 4] /\ UNCHANGED ctrl
                     ELSE idePc' = "idle" /\ ctrl' = Ide!Off /\ UNCHANGED op
      /\ UNCHANGED <<fetched, taken, sent, problem, slow>>
  BY DEF Ide!Second
<1>2. /\ op \in [name : {"none", "insw", "inb", "outsw", "outb"}, count : 0 .. MaxWords,
                 left : 0 .. Wrap - 1]
      /\ ctrl \in [enable : BOOLEAN, writing : BOOLEAN, repeat : BOOLEAN]
      /\ op.left \in Nat /\ op.count \in Nat /\ slow \in Nat
  BY IdeConstants DEF IdeInv, IdeTyped
<1>3. ASSUME ~problem
      PROVE  /\ FoursTaken /\ (~Ide!more => Len(fifo') = 0)
             /\ fetched = Len(ideBuffer') + Len(fifo') /\ Len(ideBuffer) \in Nat
             /\ Len(fifo') \in 0 .. 2 /\ Len(fifo') <= 4 /\ Len(ideBuffer') = Len(ideBuffer) + 2
             /\ Follow(ideBuffer', 0) /\ Follow(fifo', Len(ideBuffer'))
             /\ ~ctrl.writing /\ (ctrl.enable <=> Ide!more) /\ (ctrl.enable => ctrl.repeat)
             /\ Len(ideBuffer) = op.count - op.left + 2
             /\ op.name = "insw" /\ op.count >= 4 /\ op.left \in 1 .. op.count
             /\ \E k \in Nat : op.count - op.left = 4 * k
  <2>1. /\ FoursTaken /\ (~Ide!more => Len(fifo') = 0)
        /\ fetched = Len(ideBuffer') + Len(fifo') /\ Len(ideBuffer) \in Nat
        /\ Len(fifo') \in 0 .. 2 /\ Len(fifo') <= 4 /\ Len(ideBuffer') = Len(ideBuffer) + 2
        /\ Follow(ideBuffer', 0) /\ Follow(fifo', Len(ideBuffer'))
        /\ ~ctrl.writing /\ (ctrl.enable <=> Ide!more) /\ (ctrl.enable => ctrl.repeat)
    BY <1>1, <1>3, IdeTakesPair
  <2>2. /\ Len(ideBuffer) = op.count - op.left + 2
        /\ op.name = "insw" /\ op.count >= 4 /\ op.left \in 1 .. op.count
        /\ \E k \in Nat : op.count - op.left = 4 * k
    BY <2>1, <1>1 DEF FoursTaken
  <2> QED BY <2>1, <2>2
<1>4. fifo' \in Seq(Int) /\ ideBuffer' \in Seq(Int) /\ Len(fifo') <= 3 + slow /\ Len(fifo') <= 4 + slow
  BY <1>1, IdePairTyped
<1>5. CASE Ide!more
  <2>1. /\ idePc' = "full" /\ op' = [op EXCEPT !.left = op.left - 4] /\ UNCHANGED ctrl
        /\ op.left > 4
    BY <1>1, <1>5 DEF Ide!more
  <2>2. op.left - 4 \in 0 .. Wrap - 1 /\ op.left - 4 >= 1
    BY <2>1, <1>2, IdeConstants
  <2>3. /\ op' \in [name : {"none", "insw", "inb", "outsw", "outb"}, count : 0 .. MaxWords,
                    left : 0 .. Wrap - 1]
        /\ op'.name = op.name /\ op'.count = op.count /\ op'.left = op.left - 4
    BY <1>2, <2>1, <2>2
  <2>4. IdeTyped'
    BY <1>1, <1>4, <2>1, <2>3 DEF IdeInv, IdeTyped
  <2>5. ASSUME ~problem PROVE ReadingFours' /\ Len(fifo') <= 4
    <3>1. PICK k \in Nat : op.count - op.left = 4 * k
      BY <1>3, <2>5
    <3>2. op'.count - op'.left = 4 * (k + 1) /\ k + 1 \in Nat
      BY <3>1, <2>3, <1>2
    <3>3. Len(ideBuffer') = op'.count - op'.left + 0
      <4>1. Len(ideBuffer') = Len(ideBuffer) + 2 /\ Len(ideBuffer) = op.count - op.left + 2
        BY <1>3, <2>5, Zenon
      <4>2. Len(ideBuffer) \in Int /\ op.count \in Int /\ op.left \in Int
        <5>1. Len(ideBuffer) \in Nat /\ op.count \in Nat /\ op.left \in Nat
          BY <1>2, <1>3, <2>5, Zenon
        <5> QED BY <5>1
      <4>3. Len(ideBuffer) + 2 = op.count - (op.left - 4) + 0
        BY <4>1, <4>2, LessFour, Zenon
      <4> QED BY <2>3, <4>1, <4>3, Zenon
    <3>4. op'.left \in 1 .. op'.count /\ op'.name = "insw" /\ op'.count >= 4
      BY <1>2, <1>3, <2>2, <2>3, <2>5
    <3>5. FoursTaken'
      BY <1>3, <2>1, <2>5, <3>2, <3>3, <3>4 DEF FoursTaken
    <3>6. fetched' = Len(ideBuffer') + Len(fifo') /\ Len(fifo') <= 4
      BY <1>1, <1>3, <2>5
    <3>7. /\ Follow(fifo', Len(ideBuffer')) /\ ~ctrl'.writing /\ ctrl'.enable
          /\ (ctrl'.enable => ctrl'.repeat)
      BY <1>3, <1>5, <2>1, <2>5
    <3> QED BY <2>1, <3>5, <3>6, <3>7 DEF ReadingFours
  <2>6. Resting' /\ ReadingWords' /\ WritingWords' /\ Ide!ExactlyCount'
    BY <2>1 DEF Resting, ReadingWords, WritingWords, Ide!ExactlyCount
  <2> QED BY <1>1, <2>4, <2>5, <2>6 DEF IdeInv, Carrying
<1>6. CASE ~Ide!more
  <2>1. /\ idePc' = "idle" /\ op' = op /\ ~(op.left > 4)
        /\ ctrl' = [enable |-> FALSE, writing |-> FALSE, repeat |-> FALSE]
    BY <1>1, <1>6 DEF Ide!more, Ide!Off
  <2>2. ctrl' \in [enable : BOOLEAN, writing : BOOLEAN, repeat : BOOLEAN] /\ ctrl'.enable = FALSE
    BY <2>1
  <2>3. IdeTyped'
    BY <1>1, <1>4, <2>1, <2>2 DEF IdeInv, IdeTyped
  <2>4. ASSUME ~problem PROVE fifo' = <<>> /\ Len(fifo') <= 4
    <3>1. Len(fifo') = 0
      BY <1>3, <1>6, <2>4
    <3> QED BY <3>1, <1>4
  <2>5. ReadingWords' /\ ReadingFours' /\ WritingWords'
    BY <2>1 DEF ReadingWords, ReadingFours, WritingWords
  <2>6. ASSUME ~problem PROVE Resting'
    BY <2>1, <2>2, <2>4, <2>6 DEF Resting
  <2>7. ASSUME Ide!proper', ~problem
        PROVE  op.name = "insw" /\ ideBuffer' = Ide!Upto(op.count) /\ fetched' = op.count
    <3>1. PICK k \in Nat : op.count - op.left = 4 * k
      BY <1>3, <2>7
    <3>2. op.left \in 1 .. op.count /\ op.count >= 4 /\ op.name = "insw"
      BY <1>3, <2>7
    <3>3. op.count % 4 = 0
      BY <1>2, <2>1, <2>7, <3>2 DEF Ide!proper
    <3>4. op.left = 4
      BY <1>2, <2>1, <3>1, <3>2, <3>3, FoursEnd
    <3>5. Len(ideBuffer') = op.count
      BY <1>2, <1>3, <2>7, <3>4
    <3>6. fetched' = op.count
      BY <1>1, <1>3, <1>6, <2>7, <3>5
    <3>7. ideBuffer' = Ide!Upto(Len(ideBuffer'))
      BY <1>3, <1>4, <2>7, FollowUpto
    <3> QED BY <3>2, <3>5, <3>6, <3>7
  <2>8. Ide!ExactlyCount'
    BY <1>1, <2>1, <2>4, <2>7 DEF Ide!ExactlyCount, Ide!Upto
  <2> QED BY <1>1, <2>3, <2>4, <2>5, <2>6, <2>8 DEF IdeInv, Carrying
<1> QED
  BY <1>5, <1>6

LEMMA FourLess ==
  ASSUME NEW n \in Nat, NEW k \in Nat, n > 0, n = 4 * k
  PROVE  n >= 4 /\ k - 1 \in Nat /\ n - 4 = 4 * (k - 1)
OBVIOUS

LEMMA FourBack ==
  ASSUME NEW n \in Nat, NEW w \in Nat, n < w
  PROVE  (n - 4) % w \in 0 .. w - 1 /\ (n >= 4 => (n - 4) % w = n - 4)
OBVIOUS

LEMMA FourWords ==
  ASSUME NEW n \in Nat
  PROVE  /\ <<n + 1, n + 2, n + 3, n + 4>> \in Seq(Int)
         /\ Len(<<n + 1, n + 2, n + 3, n + 4>>) = 4
         /\ \A i \in 1 .. 4 : <<n + 1, n + 2, n + 3, n + 4>>[i] = n + i
OBVIOUS

LEMMA FourOn == ASSUME NEW n \in Nat PROVE n + 4 \in Nat
OBVIOUS

LEMMA IdeEmpty ==
  ASSUME IdeInv, Ide!Empty PROVE IdeInv'
<1>1. /\ idePc = "empty" /\ op.left > 0 /\ fifo = <<>>
      /\ fifo' = <<sent + 1, sent + 2, sent + 3, sent + 4>>
      /\ sent' = (IF sent > MaxWords THEN sent ELSE sent + 4)
      /\ op' = [op EXCEPT !.left = (op.left - 4) % Wrap]
      /\ UNCHANGED <<ctrl, fetched, taken, idePc, ideBuffer, problem, slow>>
  BY DEF Ide!Empty
<1>2. /\ op \in [name : {"none", "insw", "inb", "outsw", "outb"}, count : 0 .. MaxWords,
                 left : 0 .. Wrap - 1]
      /\ sent \in Nat /\ op.left \in Nat /\ op.count \in Nat /\ slow \in Nat /\ taken \in Seq(Int)
      /\ op.left < Wrap /\ Wrap \in Nat /\ MaxWords \in Nat /\ op.count <= MaxWords /\ Wrap > 0
  BY IdeConstants DEF IdeInv, IdeTyped
<1> DEFINE left == (op.left - 4) % Wrap
<1>3. left \in 0 .. Wrap - 1 /\ (op.left >= 4 => left = op.left - 4)
  BY <1>2, FourBack, Zenon
<1>4. /\ op' \in [name : {"none", "insw", "inb", "outsw", "outb"}, count : 0 .. MaxWords,
                  left : 0 .. Wrap - 1]
      /\ op'.name = op.name /\ op'.count = op.count /\ op'.left = left
  <2>1. op' = [op EXCEPT !.left = left]
    BY <1>1
  <2> HIDE DEF left
  <2> QED BY <2>1, <1>2, <1>3
<1> HIDE DEF left
<1>5. fifo' \in Seq(Int) /\ Len(fifo') = 4 /\ (\A i \in 1 .. 4 : fifo'[i] = sent + i)
  BY <1>1, <1>2, FourWords, Zenon
<1>6. sent' \in Nat
  BY <1>1, <1>2, FourOn, Zenon
<1>7. IdeTyped'
  <2>1. Len(fifo') <= 4 + slow
    BY <1>2, <1>5
  <2> QED BY <1>1, <1>4, <1>5, <1>6, <2>1 DEF IdeInv, IdeTyped
<1>8. ASSUME ~problem PROVE WritingWords'
  <2>1. /\ op.name \in {"outsw", "outb"} /\ ctrl.writing
        /\ Ide!proper =>
             /\ sent <= op.count
             /\ op.left = op.count - sent /\ \E k \in Nat : op.left = 4 * k
             /\ Len(taken) + Len(fifo) = sent /\ Follow(taken, 0)
    BY <1>1, <1>8 DEF IdeInv, Carrying, WritingWords
  <2>2. Ide!proper' <=> Ide!proper
    BY <1>4 DEF Ide!proper
  <2>3. ASSUME Ide!proper
        PROVE  /\ sent' <= op'.count /\ op'.left = op'.count - sent'
               /\ \E k \in Nat : op'.left = 4 * k
               /\ Len(taken') + Len(fifo') = sent' /\ Follow(taken', 0) /\ Follow(fifo', Len(taken'))
    <3>1. PICK k \in Nat : op.left = 4 * k
      BY <2>1, <2>3
    <3>2. op.left >= 4 /\ k - 1 \in Nat /\ op.left - 4 = 4 * (k - 1)
      BY <1>1, <1>2, <3>1, FourLess, Zenon
    <3>7. ~(sent > MaxWords) /\ sent + 4 <= op.count /\ op.left - 4 = op.count - (sent + 4)
      <4>1. sent <= op.count /\ op.left = op.count - sent /\ op.left >= 4
        BY <2>1, <2>3, <3>2
      <4>2. op.count \in Nat /\ MaxWords \in Nat /\ op.count <= MaxWords /\ sent \in Nat /\ op.left \in Nat
        BY <1>2
      <4> QED BY <4>1, <4>2
    <3>3. sent' = sent + 4
      BY <1>1, <3>7, Zenon
    <3>8. op'.left = op.left - 4 /\ op'.count = op.count
      BY <1>3, <1>4, <3>2, Zenon
    <3>4. sent' <= op'.count /\ op'.left = op'.count - sent' /\ op'.left = 4 * (k - 1)
      BY <3>2, <3>3, <3>7, <3>8, Zenon
    <3>5. Len(taken) = sent
      BY <1>1, <1>2, <2>1, <2>3, IdeEmptyFollows
    <3>6. Follow(fifo', Len(taken'))
      BY <1>1, <1>5, <3>5 DEF Follow
    <3> QED BY <1>1, <1>2, <1>5, <2>1, <2>3, <3>2, <3>3, <3>4, <3>5, <3>6
  <2> QED BY <1>1, <1>4, <2>1, <2>2, <2>3 DEF WritingWords
<1>9. Resting' /\ ReadingWords' /\ ReadingFours' /\ Ide!ExactlyCount'
  BY <1>1 DEF Resting, ReadingWords, ReadingFours, Ide!ExactlyCount
<1> QED
  BY <1>1, <1>5, <1>7, <1>8, <1>9 DEF IdeInv, Carrying

LEMMA IdeWritten ==
  ASSUME IdeInv, Ide!Written PROVE IdeInv'
<1>1. /\ idePc = "empty" /\ op.left = 0 /\ idePc' = "drain"
      /\ UNCHANGED <<fifo, ctrl, fetched, taken, op, ideBuffer, sent, problem, slow>>
  BY DEF Ide!Written
<1>2. IdeTyped'
  BY <1>1 DEF IdeInv, IdeTyped
<1>3. op.count \in Nat /\ sent \in Nat
  BY IdeConstants DEF IdeInv, IdeTyped
<1>4. ASSUME ~problem PROVE WritingWords' /\ Len(fifo') <= 4
  <2>1. /\ op.name \in {"outsw", "outb"} /\ ctrl.writing /\ Len(fifo) <= 4
        /\ Ide!proper =>
             /\ sent <= op.count /\ op.left = op.count - sent /\ Len(taken) + Len(fifo) = sent
             /\ Follow(taken, 0) /\ Follow(fifo, Len(taken))
    BY <1>1, <1>4 DEF IdeInv, Carrying, WritingWords
  <2>2. Ide!proper => sent = op.count
    BY <1>1, <1>3, <2>1
  <2>3. Ide!proper' <=> Ide!proper
    BY <1>1 DEF Ide!proper
  <2> QED BY <1>1, <2>1, <2>2, <2>3 DEF WritingWords
<1>5. Resting' /\ ReadingWords' /\ ReadingFours' /\ Ide!ExactlyCount'
  BY <1>1 DEF Resting, ReadingWords, ReadingFours, Ide!ExactlyCount
<1> QED
  BY <1>1, <1>2, <1>4, <1>5 DEF IdeInv, Carrying

LEMMA IdeDrained ==
  ASSUME IdeInv, Ide!wait_for_fifo_empty PROVE IdeInv'
<1>1. /\ idePc = "drain" /\ idePc' = "idle"
      /\ ctrl' = [enable |-> FALSE, writing |-> FALSE, repeat |-> FALSE]
      /\ UNCHANGED <<fifo, fetched, taken, op, ideBuffer, sent>>
      /\ \/ fifo = <<>> /\ UNCHANGED <<problem, slow>>
         \/ slow < MaxSlow /\ slow' = slow + 1 /\ problem' = TRUE
  BY DEF Ide!wait_for_fifo_empty, Ide!drained, Ide!Off
<1>2. ctrl' \in [enable : BOOLEAN, writing : BOOLEAN, repeat : BOOLEAN] /\ ctrl'.enable = FALSE
  BY <1>1
<1>3. /\ slow \in 0 .. MaxSlow /\ slow \in Nat /\ fifo \in Seq(Int) /\ Len(fifo) <= 4 + slow
      /\ taken \in Seq(Int) /\ op.count \in Nat /\ Len(fifo) \in Nat
  BY IdeConstants DEF IdeInv, IdeTyped
<1>4. /\ slow' \in 0 .. MaxSlow /\ problem' \in BOOLEAN /\ (problem' => slow' >= 1)
      /\ Len(fifo') <= 3 + slow' /\ Len(fifo') <= 4 + slow'
  <2>1. CASE fifo = <<>> /\ UNCHANGED <<problem, slow>>
    <3>1. Len(fifo') = 0 BY <2>1, <1>1, IdeEmptyFollows
    <3>2. problem \in BOOLEAN /\ (problem => slow >= 1) BY DEF IdeInv, IdeTyped
    <3> QED BY <1>3, <2>1, <3>1, <3>2
  <2>2. CASE slow < MaxSlow /\ slow' = slow + 1 /\ problem' = TRUE
    BY <1>1, <1>3, <2>2, IdeConstants
  <2> QED BY <1>1, <2>1, <2>2
<1>5. IdeTyped'
  BY <1>1, <1>2, <1>4 DEF IdeInv, IdeTyped
<1>6. ASSUME ~problem' PROVE ~problem /\ fifo' = <<>> /\ Len(fifo') = 0
  BY <1>1, <1>6, IdeEmptyFollows
<1>7. ASSUME ~problem' PROVE Carrying'
  <2>1. Resting'
    BY <1>1, <1>2, <1>6, <1>7 DEF Resting
  <2>2. ReadingWords' /\ ReadingFours' /\ WritingWords'
    BY <1>1 DEF ReadingWords, ReadingFours, WritingWords
  <2>3. Len(fifo') <= 4
    BY <1>6, <1>7
  <2> QED BY <2>1, <2>2, <2>3 DEF Carrying
<1>8. ASSUME ~problem', Ide!proper' PROVE op.name \in {"outsw", "outb"} /\ taken' = Ide!Upto(op.count)
  <2>1. ~problem /\ fifo = <<>> /\ Ide!proper
    BY <1>1, <1>6, <1>8 DEF Ide!proper
  <2>2. /\ op.name \in {"outsw", "outb"} /\ Len(taken) + Len(fifo) = sent /\ sent = op.count
        /\ Follow(taken, 0)
    BY <1>1, <2>1 DEF IdeInv, Carrying, WritingWords
  <2>3. Len(taken) = op.count
    BY <1>3, <2>1, <2>2, IdeEmptyFollows
  <2>4. taken = Ide!Upto(Len(taken))
    BY <1>3, <2>2, FollowUpto
  <2> QED BY <1>1, <2>2, <2>3, <2>4
<1>9. Ide!ExactlyCount'
  BY <1>1, <1>6, <1>8 DEF Ide!ExactlyCount, Ide!Upto
<1> QED
  BY <1>5, <1>7, <1>9 DEF IdeInv, Carrying

(* The disk's steps together.                                                *)
LEMMA IdeInvNext == IdeInv /\ Ide!Next => IdeInv'
<1> SUFFICES ASSUME IdeInv, Ide!Next PROVE IdeInv'
  OBVIOUS
<1>1. CASE Ide!dboxide_insw
  <2>1. PICK n \in WordCounts :
          /\ IF n < 4 THEN Ide!Begin("insw", n, "word", Ide!Reading(FALSE))
                      ELSE Ide!Begin("insw", n, "full", Ide!Reading(TRUE))
          /\ sent' = 0 /\ UNCHANGED fifo
    BY <1>1 DEF Ide!dboxide_insw
  <2>2. n \in 1 .. MaxWords
    BY IdeConstants
  <2>3. CASE n < 4
    BY <2>1, <2>2, <2>3, IdeReadsWords
  <2>4. CASE ~(n < 4)
    BY <2>1, <2>2, <2>4, IdeReadsFours
  <2> QED BY <2>3, <2>4
<1>2. CASE Ide!dboxide_inb
  <2>1. Ide!Begin("inb", 1, "word", Ide!Reading(FALSE)) /\ sent' = 0 /\ UNCHANGED fifo
    BY <1>2 DEF Ide!dboxide_inb
  <2>2. 1 \in 1 .. MaxWords /\ 1 < 4
    BY IdeConstants
  <2> QED BY <2>1, <2>2, IdeReadsWords
<1> QED
  BY <1>1, <1>2, IdeDetected, IdePutsOne, IdePutsMany, IdeWord, IdeFull, IdeFirst, IdeSecond,
     IdeEmpty, IdeWritten, IdeDrained, IdeFetch, IdePut DEF Ide!Next, Ide!Host

LEMMA IdeInvStutter == IdeInv /\ UNCHANGED ideVars => IdeInv'
BY DEF IdeInv, IdeTyped, Carrying, Resting, ReadingWords, ReadingFours, WritingWords, FoursTaken,
       Ide!ExactlyCount, Ide!proper, Ide!more, Ide!Upto, ideVars, Follow

LEMMA IdeInvMeans == IdeInv => Ide!TypeOK /\ Ide!ExactlyCount
BY DEF IdeInv, IdeTyped, Ide!TypeOK

-----------------------------------------------------------------------------
(* The memory card: what a request has carried so far is there, as long as   *)
(* blocks are half kilobytes and the partitions are not read anew.           *)

Requests ==
  [cmd : {"read", "write"}, part : 0 .. 1, first : Nat, sector : Nat, count : 1 .. 2,
   done : -1 .. 2, addr : Nat, code : 0 .. 1, got : Seq(Nat), version : Nat]
Content(q, i) == IF q.cmd = "write" THEN q.version ELSE q.got[i + 1]
Straight == hardsect = 1 /\ ~reread
Underway(q) ==
  /\ q.first + q.count <= CardUnits /\ q.done <= q.count
  /\ Len(q.got) = (IF q.done = -1 THEN 0 ELSE q.done)
  /\ ~reread => q.first = q.sector + start[q.part]
  /\ Straight /\ q.done # -1 => q.addr = q.first
  /\ Straight /\ ~rejected => \A i \in 0 .. q.done - 1 : card[q.first + i] = Content(q, i)

DiskTyped ==
  /\ card \in [0 .. CardUnits - 1 -> Nat] /\ start \in [0 .. 1 -> Nat]
  /\ hardsect \in Nat /\ writes \in Nat
DiskInv ==
  /\ DiskTyped /\ ~lied
  /\ \/ request = <<>>
     \/ mmcState = "loaded" /\ \E q \in Requests : request = <<q>> /\ Underway(q)

LEMMA CardConstants ==
  /\ CardUnits \in Nat /\ BlockLens \subseteq 1 .. 4 /\ FirstSector \in 0 .. CardUnits - 1
  /\ MaxWrites \in Nat
BY PartsAssumption DEF Mmc!MmcCardAssumption

LEMMA DiskInvInit == Mmc!InitDisk => DiskInv
BY CardConstants DEF Mmc!InitDisk, DiskInv, DiskTyped

LEMMA RequestIs ==
  ASSUME DiskInv, request # <<>>
  PROVE  Mmc!r \in Requests /\ request = <<Mmc!r>> /\ Underway(Mmc!r) /\ mmcState = "loaded"
<1>1. PICK q \in Requests : request = <<q>> /\ Underway(q)
  BY DEF DiskInv
<1>2. Mmc!r = q
  BY <1>1 DEF Mmc!r
<1> QED
  BY <1>1, <1>2 DEF DiskInv

LEMMA DiskLoad ==
  ASSUME DiskInv, Mmc!Load PROVE DiskInv'
<1>1. mmcState = "out" /\ UNCHANGED <<card, request, lied, writes>>
  BY DEF Mmc!Load
<1>2. request = <<>>
  BY <1>1 DEF DiskInv
<1>3. hardsect' \in Nat /\ start' \in [0 .. 1 -> Nat]
  <2>1. CASE UNCHANGED <<hardsect, nr_sects, start>>
    BY <2>1 DEF DiskInv, DiskTyped
  <2>2. CASE ~ UNCHANGED <<hardsect, nr_sects, start>>
    <3>1. PICK len \in BlockLens : hardsect' = Mmc!mmc_card_config(len).hardsect
      BY <2>2 DEF Mmc!Load
    <3>2. start' = [start EXCEPT ![1] = FirstSector]
      BY <2>2 DEF Mmc!Load
    <3>3. hardsect' \in Nat
      BY <3>1, CardConstants DEF Mmc!mmc_card_config
    <3> QED BY <3>2, <3>3, CardConstants DEF DiskInv, DiskTyped
  <2> QED BY <2>1, <2>2
<1> QED
  BY <1>1, <1>2, <1>3 DEF DiskInv, DiskTyped

LEMMA DiskSubmit ==
  ASSUME DiskInv, Mmc!Submit PROVE DiskInv'
<1>1. /\ mmcState = "loaded" /\ reread' = FALSE
      /\ UNCHANGED <<mmcState, card, hardsect, start, lied>>
  BY DEF Mmc!Submit
<1>2. PICK cmd \in {"read", "write"}, part \in 0 .. 1, sector \in 0 .. CardUnits - 1, count \in 1 .. 2 :
        /\ sector + count + start[part] <= CardUnits
        /\ writes' = (IF cmd = "write" THEN writes + 1 ELSE writes)
        /\ request' = <<[cmd |-> cmd, part |-> part, first |-> sector + start[part], sector |-> sector,
                         count |-> count, done |-> -1, addr |-> 0, code |-> 1, got |-> <<>>,
                         version |-> writes + 1]>>
  BY DEF Mmc!Submit
<1> DEFINE q == [cmd |-> cmd, part |-> part, first |-> sector + start[part], sector |-> sector,
                 count |-> count, done |-> -1, addr |-> 0, code |-> 1, got |-> <<>>,
                 version |-> writes + 1]
<1>3. start[part] \in Nat /\ sector \in Nat /\ count \in Nat /\ writes \in Nat
  BY CardConstants DEF DiskInv, DiskTyped
<1>4. DiskTyped'
  BY <1>1, <1>2, <1>3 DEF DiskInv, DiskTyped
<1>5. PICK p \in Requests : p = q
  <2>1. sector + start[part] \in Nat /\ writes + 1 \in Nat /\ -1 \in -1 .. 2 /\ <<>> \in Seq(Nat)
    BY <1>3
  <2>2. q \in Requests
    BY <1>3, <2>1 DEF Requests
  <2> HIDE DEF q
  <2> QED BY <2>2
<1>6. /\ p.first = sector + start[part] /\ p.sector = sector /\ p.part = part /\ p.count = count
      /\ p.done = -1 /\ p.got = <<>>
  BY <1>5
<1>7. p.first + p.count <= CardUnits /\ p.done <= p.count /\ Len(p.got) = 0
  BY <1>2, <1>3, <1>6, CardConstants
<1>8. Underway(p)'
  <2>1. \A i \in 0 .. p.done - 1 : FALSE
    BY <1>6
  <2> QED BY <1>1, <1>6, <1>7, <2>1 DEF Underway
<1>9. request' = <<p>>
  BY <1>2, <1>5
<1> QED
  BY <1>1, <1>4, <1>5, <1>8, <1>9 DEF DiskInv

LEMMA TimesNat == ASSUME NEW a \in Nat, NEW b \in Nat PROVE a * b \in Nat /\ a * 1 = a
OBVIOUS

LEMMA DiskAddressed ==
  ASSUME DiskInv, Mmc!mmc_request PROVE DiskInv'
<1>1. /\ request # <<>> /\ Mmc!r.done = -1
      /\ UNCHANGED <<mmcState, card, hardsect, start, lied, writes, reread, rejected>>
  BY DEF Mmc!mmc_request
<1>2. Mmc!r \in Requests /\ Underway(Mmc!r) /\ mmcState = "loaded"
  BY <1>1, RequestIs
<1>3. PICK c \in 0 .. 1 : request' = <<[Mmc!r EXCEPT !.done = 0, !.addr = Mmc!mmc_address, !.code = c]>>
  <2>1. 0 \in 0 .. 1 /\ 1 \in 0 .. 1
    OBVIOUS
  <2>2. CASE Mmc!r.sector + Mmc!r.count + start[Mmc!r.part] > nr_sects
    BY <2>1, <2>2 DEF Mmc!mmc_request
  <2>3. CASE ~(Mmc!r.sector + Mmc!r.count + start[Mmc!r.part] > nr_sects)
    BY <2>1, <2>3 DEF Mmc!mmc_request
  <2> QED BY <2>2, <2>3
<1>4. /\ Mmc!r.sector \in Nat /\ start[Mmc!r.part] \in Nat /\ hardsect \in Nat
      /\ Mmc!r.first \in Nat /\ Mmc!r.count \in Nat
  BY <1>2 DEF Requests, DiskInv, DiskTyped
<1>5. Mmc!mmc_address = (Mmc!r.sector + start[Mmc!r.part]) * hardsect
  BY DEF Mmc!mmc_address
<1>6. PICK address \in Nat : address = Mmc!mmc_address /\ (hardsect = 1 => address = Mmc!r.sector + start[Mmc!r.part])
  <2>1. PICK a \in Nat : a = Mmc!r.sector + start[Mmc!r.part]
    BY <1>4
  <2> QED BY <1>4, <1>5, <2>1, TimesNat
<1>7. PICK p \in Requests : p = [Mmc!r EXCEPT !.done = 0, !.addr = address, !.code = c]
  <2> DEFINE q == [Mmc!r EXCEPT !.done = 0, !.addr = address, !.code = c]
  <2>1. 0 \in -1 .. 2 /\ address \in Nat /\ c \in 0 .. 1
    BY <1>3, <1>6
  <2>2. q \in Requests
    BY <1>2, <2>1 DEF Requests
  <2> HIDE DEF q
  <2>3. \E p \in Requests : p = q
    BY <2>2
  <2> QED BY <2>3 DEF q
<1>8. /\ p.first = Mmc!r.first /\ p.count = Mmc!r.count /\ p.sector = Mmc!r.sector
      /\ p.part = Mmc!r.part /\ p.got = Mmc!r.got /\ p.done = 0 /\ p.addr = address
  BY <1>2, <1>7 DEF Requests
<1>9. request' = <<p>>
  BY <1>3, <1>6, <1>7
<1>10. Underway(p)'
  <2>1. /\ Mmc!r.first + Mmc!r.count <= CardUnits /\ Len(Mmc!r.got) = 0
        /\ ~reread => Mmc!r.first = Mmc!r.sector + start[Mmc!r.part]
    BY <1>1, <1>2 DEF Underway
  <2>2. Straight => p.addr = p.first
    BY <2>1, <1>6, <1>8 DEF Straight
  <2>3. p.done <= p.count
    BY <1>4, <1>8
  <2>4. \A i \in 0 .. p.done - 1 : FALSE
    BY <1>8
  <2> QED BY <1>1, <1>8, <2>1, <2>2, <2>3, <2>4 DEF Underway, Straight
<1>11. DiskTyped'
  BY <1>1 DEF DiskInv, DiskTyped
<1> QED
  BY <1>1, <1>2, <1>7, <1>9, <1>10, <1>11 DEF DiskInv

LEMMA OneMore ==
  ASSUME NEW count \in 1 .. 2, NEW done \in 0 .. count - 1
  PROVE  done + 1 \in -1 .. 2 /\ done + 1 <= count /\ done + 1 # -1
OBVIOUS

(* A block of the request: carried or not.                                   *)
LEMMA DiskGoesOn ==
  ASSUME DiskInv, Mmc!transferring, NEW g \in Nat,
         request' = <<[Mmc!r EXCEPT !.code = 0]>> \/ Mmc!advanced(g),
         DiskTyped', ~lied', UNCHANGED <<mmcState, hardsect, start, reread>>,
         Straight /\ ~rejected' =>
           /\ ~rejected
           /\ \A i \in 0 .. Mmc!r.done - 1 : card'[Mmc!r.first + i] = Content(Mmc!r, i)
           /\ request' # <<[Mmc!r EXCEPT !.code = 0]>> =>
                card'[Mmc!r.first + Mmc!r.done] = (IF Mmc!r.cmd = "write" THEN Mmc!r.version ELSE g)
  PROVE  DiskInv'
<1>1. /\ Mmc!r \in Requests /\ Underway(Mmc!r) /\ mmcState = "loaded"
      /\ Mmc!r.done \in 0 .. Mmc!r.count - 1
  BY RequestIs DEF Mmc!transferring
<1>2. PICK q \in Requests : q = Mmc!r
  BY <1>1
<1>3. /\ q.done \in 0 .. q.count - 1 /\ q.count \in 1 .. 2 /\ q.done \in Nat
      /\ q.got \in Seq(Nat) /\ Len(q.got) = q.done
      /\ q.first + q.count <= CardUnits /\ q.first \in Nat
      /\ ~reread => q.first = q.sector + start[q.part]
      /\ Straight => q.addr = q.first
  BY <1>1, <1>2 DEF Underway, Requests
<1>4. CASE request' = <<[Mmc!r EXCEPT !.code = 0]>>
  <2>1. PICK p \in Requests : p = [q EXCEPT !.code = 0]
    <3> DEFINE w == [q EXCEPT !.code = 0]
    <3>1. w \in Requests
      BY DEF Requests
    <3> HIDE DEF w
    <3>2. \E p \in Requests : p = w
      BY <3>1
    <3> QED BY <3>2 DEF w
  <2>2. /\ p.cmd = q.cmd /\ p.part = q.part /\ p.first = q.first /\ p.sector = q.sector
        /\ p.count = q.count /\ p.done = q.done /\ p.addr = q.addr /\ p.got = q.got
        /\ p.version = q.version
    BY <2>1 DEF Requests
  <2>3. ASSUME Straight', ~rejected', NEW i \in 0 .. p.done - 1
        PROVE  card'[p.first + i] = Content(p, i)
    BY <1>2, <2>2, <2>3 DEF Content, Straight
  <2>4. Underway(p)'
    BY <1>3, <2>2, <2>3 DEF Underway, Straight, Content
  <2>5. request' = <<p>> /\ mmcState' = "loaded"
    BY <1>1, <1>2, <1>4, <2>1
  <2> QED BY <2>4, <2>5 DEF DiskInv
<1>5. CASE Mmc!advanced(g) /\ request' # <<[Mmc!r EXCEPT !.code = 0]>>
  <2>1. request' = <<[q EXCEPT !.done = q.done + 1, !.got = Append(q.got, g)]>>
    BY <1>2, <1>5 DEF Mmc!advanced
  <2>2. /\ Append(q.got, g) \in Seq(Nat) /\ Len(Append(q.got, g)) = q.done + 1
        /\ Append(q.got, g)[q.done + 1] = g
        /\ \A i \in 0 .. q.done - 1 : Append(q.got, g)[i + 1] = q.got[i + 1]
    <3>1. q.got \in Seq(Nat) /\ q.done \in Nat /\ Len(q.got) = q.done
      BY <1>3, Zenon
    <3>2. Append(q.got, g) \in Seq(Nat) /\ Len(Append(q.got, g)) = q.done + 1
      BY <3>1
    <3>3. Append(q.got, g)[q.done + 1] = g
      BY <3>1
    <3>4. \A i \in 0 .. q.done - 1 : Append(q.got, g)[i + 1] = q.got[i + 1]
      BY <3>1
    <3> QED BY <3>2, <3>3, <3>4
  <2>3. q.done + 1 \in -1 .. 2 /\ q.done + 1 <= q.count /\ q.done + 1 # -1
    BY <1>3, OneMore, Zenon
  <2>4. PICK p \in Requests : p = [q EXCEPT !.done = q.done + 1, !.got = Append(q.got, g)]
    <3> DEFINE w == [q EXCEPT !.done = q.done + 1, !.got = Append(q.got, g)]
    <3>1. w \in Requests
      BY <2>2, <2>3 DEF Requests
    <3> HIDE DEF w
    <3>2. \E p \in Requests : p = w
      BY <3>1
    <3> QED BY <3>2 DEF w
  <2>5. /\ p.cmd = q.cmd /\ p.part = q.part /\ p.first = q.first /\ p.sector = q.sector
        /\ p.count = q.count /\ p.done = q.done + 1 /\ p.addr = q.addr /\ p.got = Append(q.got, g)
        /\ p.version = q.version
    BY <2>4 DEF Requests
  <2>6. ASSUME Straight', ~rejected', NEW i \in 0 .. p.done - 1
        PROVE  card'[p.first + i] = Content(p, i)
    <3>1. Straight
      BY <2>6 DEF Straight
    <3>2. i \in 0 .. q.done - 1 \/ i = q.done
      BY <1>3, <2>5
    <3>3. CASE i \in 0 .. q.done - 1
      <4>1. card'[q.first + i] = Content(q, i)
        BY <1>2, <2>6, <3>1, <3>3
      <4>2. Content(p, i) = Content(q, i)
        BY <2>2, <2>5, <3>3 DEF Content
      <4> QED BY <2>5, <4>1, <4>2
    <3>4. CASE i = q.done
      <4>1. card'[q.first + q.done] = (IF q.cmd = "write" THEN q.version ELSE g)
        BY <1>2, <1>5, <2>6, <3>1
      <4>2. Content(p, i) = (IF q.cmd = "write" THEN q.version ELSE g)
        BY <2>2, <2>5, <3>4 DEF Content
      <4> QED BY <2>5, <3>4, <4>1, <4>2
    <3> QED BY <3>2, <3>3, <3>4
  <2>7. Underway(p)'
    BY <1>3, <2>2, <2>3, <2>5, <2>6 DEF Underway, Straight, Content
  <2>8. request' = <<p>> /\ mmcState' = "loaded"
    BY <1>1, <2>1, <2>4
  <2> QED BY <2>7, <2>8 DEF DiskInv
<1> QED
  BY <1>4, <1>5

(* Where a block lies.                                                       *)
LEMMA BlockPlace ==
  ASSUME DiskInv, Mmc!transferring
  PROVE  /\ Mmc!at \in Nat /\ Mmc!r.count \in 1 .. 2 /\ Mmc!r.first \in Nat
         /\ Mmc!r.done \in 0 .. Mmc!r.count - 1 /\ Mmc!r.version \in Nat
         /\ Straight => Mmc!at = Mmc!r.first + Mmc!r.done
<1>1. /\ Mmc!r \in Requests /\ Underway(Mmc!r) /\ Mmc!r.done \in 0 .. Mmc!r.count - 1
  BY RequestIs DEF Mmc!transferring
<1>2. /\ Mmc!r.count \in 1 .. 2 /\ Mmc!r.first \in Nat /\ Mmc!r.addr \in Nat /\ Mmc!r.version \in Nat
      /\ hardsect \in Nat
  BY <1>1 DEF Requests, DiskInv, DiskTyped
<1>3. PICK d \in Nat : d = Mmc!r.done
  BY <1>1, <1>2
<1>4. Mmc!at = Mmc!r.addr + d * hardsect
  BY <1>3 DEF Mmc!at
<1>5. d * hardsect \in Nat /\ (hardsect = 1 => d * hardsect = d)
  BY <1>2, TimesNat
<1>6. Straight => Mmc!r.addr = Mmc!r.first /\ hardsect = 1
  BY <1>1, <1>3 DEF Underway, Straight
<1>7. Mmc!at \in Nat
  BY <1>2, <1>4, <1>5
<1> QED
  BY <1>1, <1>2, <1>3, <1>4, <1>5, <1>6, <1>7

LEMMA DiskRead ==
  ASSUME DiskInv, Mmc!mmc_read_block PROVE DiskInv'
<1>1. /\ Mmc!transferring /\ Mmc!r.cmd = "read"
      /\ UNCHANGED <<mmcState, card, hardsect, start, lied, writes, reread, rejected>>
      /\ \/ request' = <<[Mmc!r EXCEPT !.code = 0]>>
         \/ Mmc!at < CardUnits /\ Mmc!advanced(card[Mmc!at])
  BY DEF Mmc!mmc_read_block, Mmc!failed
<1>2. DiskTyped' /\ ~lied'
  BY <1>1 DEF DiskInv, DiskTyped
<1>3. Straight /\ ~rejected => \A i \in 0 .. Mmc!r.done - 1 : card[Mmc!r.first + i] = Content(Mmc!r, i)
  BY <1>1, RequestIs DEF Underway, Mmc!transferring
<1>4. CASE request' = <<[Mmc!r EXCEPT !.code = 0]>>
  <2>2. 0 \in Nat
    OBVIOUS
  <2> QED BY <1>1, <1>2, <1>3, <1>4, <2>2, DiskGoesOn
<1>5. CASE Mmc!at < CardUnits /\ Mmc!advanced(card[Mmc!at])
  <2>1. card[Mmc!at] \in Nat
    BY <1>1, <1>5, BlockPlace, CardConstants DEF DiskInv, DiskTyped
  <2>2. Straight => card'[Mmc!r.first + Mmc!r.done] = card[Mmc!at]
    BY <1>1, BlockPlace
  <2> QED BY <1>1, <1>2, <1>3, <1>5, <2>1, <2>2, DiskGoesOn
<1> QED
  BY <1>1, <1>4, <1>5

LEMMA DiskWrite ==
  ASSUME DiskInv, Mmc!mmc_write_block PROVE DiskInv'
<1>1. /\ Mmc!transferring /\ Mmc!r.cmd = "write"
      /\ UNCHANGED <<mmcState, hardsect, start, lied, writes, reread>>
      /\ \/ request' = <<[Mmc!r EXCEPT !.code = 0]>> /\ UNCHANGED <<card, rejected>>
         \/ /\ Mmc!at < CardUnits /\ card' = [card EXCEPT ![Mmc!at] = Mmc!r.version]
            /\ (request' = <<[Mmc!r EXCEPT !.code = 0]>> \/ Mmc!advanced(0)) /\ UNCHANGED rejected
         \/ rejected' = TRUE /\ Mmc!advanced(0) /\ UNCHANGED card
  BY DEF Mmc!mmc_write_block, Mmc!failed
<1>2. /\ Mmc!at \in Nat /\ Mmc!r.count \in 1 .. 2 /\ Mmc!r.first \in Nat
      /\ Mmc!r.done \in 0 .. Mmc!r.count - 1 /\ Mmc!r.version \in Nat
      /\ Straight => Mmc!at = Mmc!r.first + Mmc!r.done
  BY <1>1, BlockPlace
<1>3. Straight /\ ~rejected => \A i \in 0 .. Mmc!r.done - 1 : card[Mmc!r.first + i] = Content(Mmc!r, i)
  BY <1>1, RequestIs DEF Underway, Mmc!transferring
<1>4. ~lied' /\ 0 \in Nat
  BY <1>1 DEF DiskInv
<1>5. CASE request' = <<[Mmc!r EXCEPT !.code = 0]>> /\ UNCHANGED <<card, rejected>>
  <2>1. DiskTyped'
    BY <1>1, <1>5 DEF DiskInv, DiskTyped
  <2> QED BY <1>1, <1>3, <1>4, <1>5, <2>1, DiskGoesOn
<1>6. CASE /\ Mmc!at < CardUnits /\ card' = [card EXCEPT ![Mmc!at] = Mmc!r.version]
           /\ (request' = <<[Mmc!r EXCEPT !.code = 0]>> \/ Mmc!advanced(0)) /\ UNCHANGED rejected
  <2>1. card \in [0 .. CardUnits - 1 -> Nat] /\ Mmc!at \in 0 .. CardUnits - 1
    BY <1>2, <1>6, CardConstants DEF DiskInv, DiskTyped
  <2>2. card' \in [0 .. CardUnits - 1 -> Nat]
    <3>1. card' = [card EXCEPT ![Mmc!at] = Mmc!r.version] /\ Mmc!r.version \in Nat
      BY <1>2, <1>6
    <3> QED BY <2>1, <3>1
  <2>3. DiskTyped'
    BY <1>1, <2>2 DEF DiskInv, DiskTyped
  <2>4. ASSUME Straight, ~rejected, NEW i \in 0 .. Mmc!r.done - 1
        PROVE  card'[Mmc!r.first + i] = Content(Mmc!r, i)
    <3>1. card[Mmc!r.first + i] = Content(Mmc!r, i)
      BY <1>3, <2>4
    <3>2. Mmc!r.first + i \in 0 .. CardUnits - 1 /\ Mmc!r.first + i # Mmc!at
      <4>1. Mmc!at = Mmc!r.first + Mmc!r.done /\ Mmc!r.first \in Nat /\ Mmc!r.done \in Nat
        BY <1>2, <2>4
      <4>2. Mmc!at < CardUnits /\ CardUnits \in Nat
        BY <1>6, CardConstants
      <4>3. i \in Nat /\ i < Mmc!r.done
        BY <4>1, <2>4
      <4> QED BY <4>1, <4>2, <4>3
    <3> QED BY <1>6, <2>1, <3>1, <3>2
  <2>5. ASSUME Straight PROVE card'[Mmc!r.first + Mmc!r.done] = Mmc!r.version
    BY <1>2, <1>6, <2>1, <2>5
  <2> QED BY <1>1, <1>4, <1>6, <2>3, <2>4, <2>5, DiskGoesOn
<1>7. CASE rejected' = TRUE /\ Mmc!advanced(0) /\ UNCHANGED card
  <2>1. DiskTyped'
    BY <1>1, <1>7 DEF DiskInv, DiskTyped
  <2> QED BY <1>1, <1>4, <1>7, <2>1, DiskGoesOn
<1> QED
  BY <1>1, <1>5, <1>6, <1>7

LEMMA DiskEnds ==
  ASSUME DiskInv, Mmc!end_request PROVE DiskInv'
<1>1. /\ request # <<>> /\ (Mmc!r.code = 0 \/ Mmc!r.done = Mmc!r.count) /\ request' = <<>>
      /\ lied' = (lied \/ (Mmc!r.code = 1 /\ hardsect = 1 /\ ~reread /\ ~rejected /\ ~Mmc!Carried(Mmc!r)))
      /\ UNCHANGED <<card, hardsect, start, writes>>
  BY DEF Mmc!end_request
<1>2. ASSUME Mmc!r.code = 1, hardsect = 1, ~reread, ~rejected PROVE Mmc!Carried(Mmc!r)
  <2>1. Mmc!r.done = Mmc!r.count
    BY <1>1, <1>2
  <2>2. \A i \in 0 .. Mmc!r.done - 1 : card[Mmc!r.first + i] = Content(Mmc!r, i)
    BY <1>1, <1>2, RequestIs DEF Underway, Straight
  <2> QED BY <2>1, <2>2 DEF Mmc!Carried, Content
<1>3. ~lied'
  BY <1>1, <1>2 DEF DiskInv
<1> QED
  BY <1>1, <1>3 DEF DiskInv, DiskTyped

LEMMA DiskReread ==
  ASSUME DiskInv, Mmc!mmc_revalidate PROVE DiskInv'
<1>1. /\ reread' = TRUE /\ mmcState = "loaded"
      /\ start' = [start EXCEPT ![1] = IF start[1] = 0 THEN FirstSector ELSE 0]
      /\ UNCHANGED <<mmcState, card, hardsect, request, lied, writes, rejected>>
  BY DEF Mmc!mmc_revalidate
<1>2. DiskTyped'
  <2>1. (IF start[1] = 0 THEN FirstSector ELSE 0) \in Nat
    BY CardConstants
  <2> QED BY <1>1, <2>1 DEF DiskInv, DiskTyped
<1>3. ASSUME NEW q \in Requests, Underway(q) PROVE Underway(q)'
  BY <1>1, <1>3 DEF Underway, Straight, Content
<1> QED
  BY <1>1, <1>2, <1>3 DEF DiskInv

LEMMA DiskInvNext == DiskInv /\ Mmc!Disk => DiskInv'
<1> SUFFICES ASSUME DiskInv, Mmc!Disk PROVE DiskInv'
  OBVIOUS
<1>1. CASE Mmc!Unload
  BY <1>1 DEF Mmc!Unload, DiskInv, DiskTyped
<1>2. CASE Mmc!Pull
  <2>1. UNCHANGED <<mmcState, card, hardsect, start, request, lied, writes, reread, rejected>>
    BY <1>2 DEF Mmc!Pull
  <2> QED BY <2>1 DEF DiskInv, DiskTyped, Underway, Straight, Content
<1> QED
  BY <1>1, <1>2, DiskLoad, DiskSubmit, DiskAddressed, DiskRead, DiskWrite, DiskEnds, DiskReread
     DEF Mmc!Disk

LEMMA DiskInvStutter == DiskInv /\ UNCHANGED Mmc!disk => DiskInv'
BY DEF DiskInv, DiskTyped, Underway, Straight, Content, Mmc!disk

(* No step but a write, and it only to the sectors of its request.           *)
LEMMA WritesItsOwn ==
  ASSUME DiskInv, Mmc!Disk, hardsect = 1, ~reread,
         NEW u \in 0 .. CardUnits - 1, card'[u] # card[u]
  PROVE  u \in Mmc!r.first .. Mmc!r.first + Mmc!r.count - 1
<1>1. Mmc!mmc_write_block
  BY DEF Mmc!Disk, Mmc!Load, Mmc!Unload, Mmc!Submit, Mmc!mmc_request, Mmc!mmc_read_block,
         Mmc!end_request, Mmc!mmc_revalidate, Mmc!Pull
<1>2. Mmc!transferring /\ card' = [card EXCEPT ![Mmc!at] = Mmc!r.version]
  BY <1>1 DEF Mmc!mmc_write_block
<1>3. u = Mmc!at
  BY <1>2 DEF DiskInv, DiskTyped
<1>4. /\ Mmc!r.count \in 1 .. 2 /\ Mmc!r.first \in Nat
      /\ Mmc!r.done \in 0 .. Mmc!r.count - 1 /\ Mmc!at = Mmc!r.first + Mmc!r.done
  BY <1>2, BlockPlace DEF Straight
<1> QED
  BY <1>3, <1>4

-----------------------------------------------------------------------------
(* The lines of the card: those taken are kept as they were before, all      *)
(* others are as they were.                                                  *)

Settings == [assigned : BOOLEAN, drain : BOOLEAN, out : BOOLEAN, high : BOOLEAN]
AsBefore(s, l) ==
  IF l = "PB18" THEN [s EXCEPT !.out = FALSE] = [before[l] EXCEPT !.out = FALSE] ELSE s = before[l]
Used(w) == Mmc!In(w) \union Mmc!Out(w)
Borrowed == IF actualhard = 0 THEN {} ELSE Used(actualhard)

LinesTyped ==
  /\ ports \in [Mmc!Lines -> Settings] /\ before \in [Mmc!Lines -> Settings]
  /\ mmcSaved \in [Mmc!Lines -> Settings]
  /\ actualhard \in {0, 1, 2, 4} /\ forcehw \in BOOLEAN /\ wirings \in Seq({1, 2, 4})
  /\ inited \in {"trying", "yes", "failed", "gone"}
LinesInv ==
  /\ LinesTyped
  /\ \A l \in Mmc!Lines \ Borrowed : AsBefore(ports[l], l)
  /\ \A l \in Borrowed : AsBefore(mmcSaved[l], l)
  /\ ~forcehw => \A l \in Mmc!Lines : before[l].assigned => l \notin Borrowed /\ ports[l] = before[l]
  /\ inited \in {"failed", "gone"} => actualhard = 0

LEMMA UsedLines == \A w \in {1, 2, 4} : Used(w) \subseteq Mmc!Lines
BY DEF Used, Mmc!Lines

LEMMA LinesInvInit == Mmc!InitLines => LinesInv
<1> SUFFICES ASSUME Mmc!InitLines PROVE LinesInv
  OBVIOUS
<1>1. Mmc!LineUses \subseteq Settings /\ Mmc!Free \in Settings
  <2>1. Mmc!Free \in Settings
    BY DEF Mmc!Free, Settings
  <2>2. ASSUME NEW x \in Settings
        PROVE  /\ [x EXCEPT !.assigned = TRUE] \in Settings /\ [x EXCEPT !.out = TRUE] \in Settings
               /\ [x EXCEPT !.high = TRUE] \in Settings /\ [x EXCEPT !.drain = TRUE] \in Settings
    BY DEF Settings
  <2>3. /\ [Mmc!Free EXCEPT !.assigned = TRUE] \in Settings
        /\ [Mmc!Free EXCEPT !.out = TRUE] \in Settings /\ [Mmc!Free EXCEPT !.drain = TRUE] \in Settings
    BY <2>1, <2>2
  <2>4. /\ [Mmc!Free EXCEPT !.out = TRUE, !.high = TRUE] \in Settings
        /\ [Mmc!Free EXCEPT !.drain = TRUE, !.out = TRUE] \in Settings
    BY <2>2, <2>3
  <2> QED BY <2>1, <2>3, <2>4 DEF Mmc!LineUses
<1>2. PICK f \in [Varied -> Mmc!LineUses] : before = [l \in Mmc!Lines |-> IF l \in Varied THEN f[l] ELSE Mmc!Free]
  BY DEF Mmc!InitLines
<1>3. before \in [Mmc!Lines -> Settings]
  BY <1>1, <1>2
<1>4. wirings \in Seq({1, 2, 4})
  <2>1. wirings = <<4, 1, 2>> \/ wirings = <<1>> \/ wirings = <<2>> \/ wirings = <<4>>
    BY DEF Mmc!InitLines
  <2>2. <<4, 1, 2>> \in Seq({1, 2, 4})
    OBVIOUS
  <2>3. <<1>> \in Seq({1, 2, 4}) /\ <<2>> \in Seq({1, 2, 4}) /\ <<4>> \in Seq({1, 2, 4})
    OBVIOUS
  <2> QED BY <2>1, <2>2, <2>3, Zenon
<1>5. /\ ports = before /\ mmcSaved = before /\ actualhard = 0 /\ forcehw \in BOOLEAN
      /\ inited = "trying"
  BY DEF Mmc!InitLines
<1>6. LinesTyped
  BY <1>3, <1>4, <1>5 DEF LinesTyped
<1>7. \A l : AsBefore(before[l], l)
  BY DEF AsBefore
<1>8. Borrowed = {}
  BY <1>5 DEF Borrowed
<1> QED
  BY <1>5, <1>6, <1>7, <1>8 DEF LinesInv

(* After what was taken is given back, every line is as before.              *)
LEMMA GivenBack ==
  ASSUME LinesInv
  PROVE  /\ Mmc!mmc_hardware_cleanup \in [Mmc!Lines -> Settings]
         /\ \A l \in Mmc!Lines : AsBefore(Mmc!mmc_hardware_cleanup[l], l)
         /\ ~forcehw => \A l \in Mmc!Lines : before[l].assigned => Mmc!mmc_hardware_cleanup[l] = before[l]
<1> DEFINE m == Mmc!mmc_hardware_cleanup
<1>1. m = [l \in Mmc!Lines |-> IF l \in Borrowed THEN Mmc!restored(l) ELSE ports[l]]
  BY DEF Mmc!mmc_hardware_cleanup, Borrowed, Used
<1>2. LinesTyped
  BY DEF LinesInv
<1> HIDE DEF m
<1>3. ASSUME NEW l \in Mmc!Lines, l \in Borrowed
      PROVE  m[l] \in Settings /\ AsBefore(m[l], l)
  <2>1. mmcSaved[l] \in Settings /\ ports[l] \in Settings /\ before[l] \in Settings /\ AsBefore(mmcSaved[l], l)
    BY <1>2, <1>3 DEF LinesInv, LinesTyped
  <2>2. CASE l = "PB18"
    <3>1. m[l] = [mmcSaved[l] EXCEPT !.out = ports[l].out]
      BY <1>1, <1>3, <2>2 DEF Mmc!restored
    <3>2. [mmcSaved[l] EXCEPT !.out = FALSE] = [before[l] EXCEPT !.out = FALSE]
      BY <2>1, <2>2 DEF AsBefore
    <3>3. m[l] \in Settings
      BY <2>1, <3>1 DEF Settings
    <3>4. [m[l] EXCEPT !.out = FALSE] = [mmcSaved[l] EXCEPT !.out = FALSE]
      BY <2>1, <3>1 DEF Settings
    <3> QED BY <2>2, <3>2, <3>3, <3>4 DEF AsBefore
  <2>3. CASE l # "PB18"
    <3>1. m[l] = mmcSaved[l]
      BY <1>1, <1>3, <2>1, <2>3 DEF Mmc!restored, Settings
    <3> QED BY <2>1, <3>1
  <2> QED BY <2>2, <2>3
<1>4. ASSUME NEW l \in Mmc!Lines, l \notin Borrowed
      PROVE  m[l] = ports[l] /\ m[l] \in Settings /\ AsBefore(m[l], l)
  BY <1>1, <1>2, <1>4 DEF LinesInv, LinesTyped
<1>5. m \in [Mmc!Lines -> Settings]
  BY <1>1, <1>3, <1>4
<1>6. ASSUME ~forcehw, NEW l \in Mmc!Lines, before[l].assigned PROVE m[l] = before[l]
  BY <1>4, <1>6 DEF LinesInv
<1> QED
  BY <1>3, <1>4, <1>5, <1>6 DEF m

LEMMA LinesTaken ==
  ASSUME NEW m \in [Mmc!Lines -> Settings], NEW w \in {1, 2, 4}
  PROVE  /\ Mmc!taken(m, w) \in [Mmc!Lines -> Settings]
         /\ \A l \in Mmc!Lines \ Used(w) : Mmc!taken(m, w)[l] = m[l]
<1>1. ASSUME NEW l \in Mmc!Lines PROVE Mmc!taken(m, w)[l] \in Settings
  <2>1. CASE l \in Mmc!In(w)
    BY <1>1, <2>1 DEF Mmc!taken, Settings
  <2>2. CASE l \notin Mmc!In(w) /\ l \in Mmc!Out(w)
    <3>1. Mmc!taken(m, w)[l] = [assigned |-> FALSE, drain |-> FALSE, out |-> TRUE, high |-> l # Mmc!Clock(w)]
      BY <1>1, <2>2 DEF Mmc!taken
    <3>2. (l # Mmc!Clock(w)) \in BOOLEAN
      OBVIOUS
    <3> QED BY <3>1, <3>2 DEF Settings
  <2>3. CASE l \notin Mmc!In(w) /\ l \notin Mmc!Out(w)
    BY <1>1, <2>3 DEF Mmc!taken
  <2> QED BY <2>1, <2>2, <2>3
<1>2. ASSUME NEW l \in Mmc!Lines, l \notin Used(w) PROVE Mmc!taken(m, w)[l] = m[l]
  BY <1>2 DEF Mmc!taken, Used
<1> QED
  BY <1>1, <1>2 DEF Mmc!taken

LEMMA LinesTry ==
  ASSUME LinesInv, Mmc!mmc_hardware_init PROVE LinesInv'
<1>1. PICK w \in {Head(wirings)} : \E m \in {Mmc!mmc_hardware_cleanup} :
        /\ wiringopt' = w /\ wirings' = Tail(wirings)
        /\ IF Mmc!conflict(m, w)
           THEN ports' = m /\ actualhard' = 0 /\ UNCHANGED <<mmcSaved, inited>>
           ELSE /\ ports' = Mmc!taken(m, w) /\ mmcSaved' = m /\ actualhard' = w
                /\ inited' \in {"yes", "trying"}
  BY DEF Mmc!mmc_hardware_init
<1>2. PICK m \in [Mmc!Lines -> Settings] :
        /\ m = Mmc!mmc_hardware_cleanup
        /\ \A l \in Mmc!Lines : AsBefore(m[l], l)
        /\ ~forcehw => \A l \in Mmc!Lines : before[l].assigned => m[l] = before[l]
  BY GivenBack
<1>3. /\ inited = "trying" /\ wirings # <<>> /\ UNCHANGED <<before, forcehw>>
      /\ wirings' = Tail(wirings)
      /\ IF Mmc!conflict(m, w)
         THEN ports' = m /\ actualhard' = 0 /\ UNCHANGED <<mmcSaved, inited>>
         ELSE /\ ports' = Mmc!taken(m, w) /\ mmcSaved' = m /\ actualhard' = w
              /\ inited' \in {"yes", "trying"}
  BY <1>1, <1>2 DEF Mmc!mmc_hardware_init
<1>4. LinesTyped
  BY DEF LinesInv
<1>5. w \in {1, 2, 4} /\ wirings' \in Seq({1, 2, 4})
  <2>1. wirings \in Seq({1, 2, 4}) /\ wirings # <<>> /\ w = Head(wirings)
    BY <1>1, <1>3, <1>4 DEF LinesTyped
  <2>2. Head(wirings) \in {1, 2, 4} /\ Tail(wirings) \in Seq({1, 2, 4})
    BY <2>1
  <2> QED BY <1>3, <2>1, <2>2
<1>6. ASSUME NEW l \in Mmc!Lines, NEW x \in Settings, x = m[l]
      PROVE  AsBefore(x, l)'
  BY <1>2, <1>3, <1>6 DEF AsBefore
<1>7. CASE Mmc!conflict(m, w)
  <2>1. ports' = m /\ actualhard' = 0 /\ UNCHANGED <<mmcSaved, inited>>
    BY <1>3, <1>7
  <2>2. Borrowed' = {}
    BY <2>1 DEF Borrowed
  <2>3. LinesTyped'
    BY <1>3, <1>4, <1>5, <2>1 DEF LinesTyped
  <2>4. ASSUME NEW l \in Mmc!Lines PROVE AsBefore(ports[l], l)'
    BY <1>6, <2>1
  <2>5. ~forcehw' => \A l \in Mmc!Lines : before'[l].assigned => ports'[l] = before'[l]
    BY <1>2, <1>3, <2>1
  <2> QED BY <1>3, <2>1, <2>2, <2>3, <2>4, <2>5 DEF LinesInv
<1>8. CASE ~Mmc!conflict(m, w)
  <2>1. ports' = Mmc!taken(m, w) /\ mmcSaved' = m /\ actualhard' = w /\ inited' \in {"yes", "trying"}
    BY <1>3, <1>8
  <2>2. Borrowed' = Used(w) /\ Used(w) \subseteq Mmc!Lines
    BY <1>5, <2>1, UsedLines DEF Borrowed, Used
  <2>3. ports' \in [Mmc!Lines -> Settings] /\ \A l \in Mmc!Lines \ Used(w) : ports'[l] = m[l]
    BY <1>5, <2>1, LinesTaken
  <2>4. LinesTyped'
    BY <1>3, <1>4, <1>5, <2>1, <2>3 DEF LinesTyped
  <2>5. ASSUME NEW l \in Mmc!Lines, l \notin Used(w) PROVE AsBefore(ports[l], l)'
    BY <1>6, <2>3, <2>5
  <2>6. ASSUME NEW l \in Used(w) PROVE AsBefore(mmcSaved[l], l)'
    BY <1>6, <2>1, <2>2, <2>6
  <2>7. ASSUME ~forcehw, NEW l \in Mmc!Lines, before[l].assigned
        PROVE  l \notin Used(w) /\ ports'[l] = before[l]
    <3>1. m[l] = before[l]
      BY <1>2, <2>7
    <3>2. l \notin Used(w)
      BY <1>8, <2>7, <3>1 DEF Mmc!conflict, Used
    <3> QED BY <2>3, <3>1, <3>2
  <2> QED BY <1>3, <2>1, <2>2, <2>4, <2>5, <2>6, <2>7 DEF LinesInv
<1> QED
  BY <1>7, <1>8

LEMMA LinesEnd ==
  ASSUME LinesInv, Mmc!mmc_driver_exit PROVE LinesInv'
<1>1. /\ inited' \in {"failed", "gone"} /\ ports' = Mmc!mmc_hardware_cleanup /\ actualhard' = 0
      /\ UNCHANGED <<before, mmcSaved, forcehw, wirings>>
  BY DEF Mmc!mmc_driver_exit
<1>2. PICK m \in [Mmc!Lines -> Settings] :
        /\ m = Mmc!mmc_hardware_cleanup
        /\ \A l \in Mmc!Lines : AsBefore(m[l], l)
        /\ ~forcehw => \A l \in Mmc!Lines : before[l].assigned => m[l] = before[l]
  BY GivenBack
<1>3. LinesTyped'
  BY <1>1, <1>2 DEF LinesInv, LinesTyped
<1>4. Borrowed' = {}
  BY <1>1 DEF Borrowed
<1>5. ASSUME NEW l \in Mmc!Lines PROVE AsBefore(ports[l], l)'
  BY <1>1, <1>2, <1>5 DEF AsBefore
<1>6. ~forcehw' => \A l \in Mmc!Lines : before'[l].assigned => ports'[l] = before'[l]
  BY <1>1, <1>2
<1> QED
  BY <1>1, <1>3, <1>4, <1>5, <1>6 DEF LinesInv

LEMMA LinesInvNext == LinesInv /\ Mmc!Wiring => LinesInv'
BY LinesTry, LinesEnd DEF Mmc!Wiring

LEMMA LinesInvStutter == LinesInv /\ UNCHANGED Mmc!lines => LinesInv'
BY DEF LinesInv, LinesTyped, Borrowed, AsBefore, Mmc!lines

LEMMA CardInvMeans ==
  DiskInv /\ LinesInv => Mmc!TypeOK /\ Mmc!OkMeansCarried /\ Mmc!PortsGivenBack /\ Mmc!NoLineStolen
<1> SUFFICES ASSUME DiskInv, LinesInv
             PROVE  Mmc!TypeOK /\ Mmc!OkMeansCarried /\ Mmc!PortsGivenBack /\ Mmc!NoLineStolen
  OBVIOUS
<1>1. Mmc!TypeOK
  <2>1. Len(request) <= 1
    <3>1. CASE request = <<>>
      BY <3>1
    <3>2. CASE request # <<>>
      BY <3>2, RequestIs
    <3> QED BY <3>1, <3>2
  <2> QED BY <2>1 DEF Mmc!TypeOK, DiskInv, DiskTyped, LinesInv, LinesTyped
<1>2. Mmc!OkMeansCarried
  BY DEF Mmc!OkMeansCarried, DiskInv
<1>3. Mmc!PortsGivenBack
  <2>1. SUFFICES ASSUME inited \in {"failed", "gone"}, NEW l \in Mmc!Lines
                 PROVE  AsBefore(ports[l], l)
    BY DEF Mmc!PortsGivenBack, AsBefore
  <2>2. Borrowed = {}
    BY <2>1 DEF LinesInv, Borrowed
  <2> QED BY <2>2 DEF LinesInv
<1>4. Mmc!NoLineStolen
  BY DEF LinesInv, Mmc!NoLineStolen
<1> QED
  BY <1>1, <1>2, <1>3, <1>4

-----------------------------------------------------------------------------
(* The systems of MCBoard: each moves alone.                                 *)

DataInv ==
  /\ component = "ide" => IdeInv
  /\ component \in {"disk", "wiring"} => DiskInv /\ LinesInv

LEMMA DataInvInit == AnyInit => DataInv
BY IdeInvInit, DiskInvInit, LinesInvInit DEF AnyInit, DataInv, Mmc!Init

LEMMA DataInvNext == DataInv /\ [AnyNext]_anyVars => DataInv'
<1> SUFFICES ASSUME DataInv, [AnyNext]_anyVars PROVE DataInv'
  OBVIOUS
<1>1. CASE RunIde
  <2>1. component = "ide" /\ Ide!Next /\ component' = component
    BY <1>1 DEF RunIde
  <2> QED BY <2>1, IdeInvNext DEF DataInv
<1>2. CASE RunDisk
  <2>1. component = "disk" /\ Mmc!Disk /\ component' = component /\ UNCHANGED Mmc!lines
    BY <1>2 DEF RunDisk, Mmc!Disk, Mmc!Load, Mmc!Unload, Mmc!Submit, Mmc!mmc_request,
                Mmc!mmc_read_block, Mmc!mmc_write_block, Mmc!end_request, Mmc!mmc_revalidate,
                Mmc!Pull
  <2> QED BY <2>1, DiskInvNext, LinesInvStutter DEF DataInv
<1>3. CASE RunWiring
  <2>1. component = "wiring" /\ Mmc!Wiring /\ component' = component /\ UNCHANGED Mmc!disk
    BY <1>3 DEF RunWiring, Mmc!Wiring, Mmc!mmc_hardware_init, Mmc!mmc_driver_exit
  <2> QED BY <2>1, DiskInvStutter, LinesInvNext DEF DataInv
<1>4. CASE component' = component /\ UNCHANGED ideVars /\ UNCHANGED mmcVars
  <2>1. UNCHANGED Mmc!disk /\ UNCHANGED Mmc!lines
    BY <1>4 DEF mmcVars, Mmc!disk, Mmc!lines
  <2> QED BY <1>4, <2>1, IdeInvStutter, DiskInvStutter, LinesInvStutter DEF DataInv
<1>5. ASSUME ~RunIde, ~RunDisk, ~RunWiring
      PROVE  component' = component /\ UNCHANGED ideVars /\ UNCHANGED mmcVars
  BY <1>5 DEF AnyNext, anyVars, Main, RunInputs, RunDish, RunService, RunBus, RunClock, RunSettings,
              RunWatch, RunDisplay, RunDrivers
<1> QED
  BY <1>1, <1>2, <1>3, <1>4, <1>5

LEMMA DataInvHolds == AnySpec => []DataInv
BY DataInvInit, DataInvNext, PTL DEF AnySpec

(* A disk carries exactly the words asked for, however far the chip runs     *)
(* ahead; a request to a card that is answered well has carried the sectors  *)
(* it named; and the card's lines are taken only when free and given back as *)
(* they were: for every size of a call, of a card and of its blocks, every   *)
(* partition, and every use of the lines before.                             *)
THEOREM DataCarriedWholeHolds == AnySpec => []DataCarriedWhole
<1>1. DataInv => DataCarriedWhole
  BY IdeInvMeans, CardInvMeans DEF DataInv, DataCarriedWhole
<1> QED
  BY <1>1, DataInvHolds, PTL

(* A write to a card, whether it succeeds or not, changes no other sector.   *)
THEOREM NothingElseIsWritten == AnySpec => NothingElseWritten
<1> DEFINE Own == hardsect = 1 /\ ~reread =>
             \A u \in 0 .. CardUnits - 1 :
               card'[u] # card[u] => u \in Mmc!r.first .. Mmc!r.first + Mmc!r.count - 1
<1>1. DataInv /\ [AnyNext]_anyVars => [Own]_(Mmc!disk)
  <2> SUFFICES ASSUME DataInv, [AnyNext]_anyVars, ~ UNCHANGED Mmc!disk PROVE Own
    OBVIOUS
  <2>1. RunDisk
    BY DEF AnyNext, anyVars, Main, RunInputs, RunDish, RunService, RunBus, RunClock, RunSettings,
           RunWatch, RunDisplay, RunDrivers, RunIde, RunWiring, mmcVars, Mmc!disk,
           Mmc!Wiring, Mmc!mmc_hardware_init, Mmc!mmc_driver_exit
  <2>2. DiskInv /\ Mmc!Disk
    BY <2>1 DEF RunDisk, DataInv
  <2> QED BY <2>2, WritesItsOwn
<1> HIDE DEF Own
<1>2. AnySpec => [][Own]_(Mmc!disk)
  BY <1>1, DataInvHolds, PTL DEF AnySpec
<1> QED
  BY <1>2 DEF Own, NothingElseWritten, Mmc!NothingElseWritten

-----------------------------------------------------------------------------
(* The CAM, for every length of the queue and number of processes: cam_busy  *)
(* is taken by whoever is on the bus, and by a task that leaves it, and by   *)
(* nobody else; and the interrupt starts no second task.                     *)

NoneSends == \A p \in Writers : writer[p] # "sends"
Alone(p) == \A w \in Writers : writer[w] = "sends" => w = p
TaskHolds == task \in {"receives", "up"}

BusyIsTaken ==
  /\ task \notin {"answers", "sends"}
  /\ \/ cam_busy = 1 /\ ~TaskHolds /\ NoneSends
     \/ cam_busy = 0 /\ TaskHolds /\ NoneSends
     \/ cam_busy = 0 /\ ~TaskHolds /\ \E p \in Writers : writer[p] = "sends" /\ Alone(p)

CamInv ==
  /\ TypeOK
  /\ irq = "on" => task = "none"
  /\ ~answered => BusyIsTaken

LEMMA CamInvInit == Init => CamInv
<1> SUFFICES ASSUME Init PROVE CamInv
  OBVIOUS
<1>1. TypeOK
  <2>1. answered \in BOOLEAN /\ tight \in BOOLEAN /\ at_end \in BOOLEAN BY DEF Init
  <2> QED BY <2>1, CamAssumption DEF Init, TypeOK
<1>2. BusyIsTaken BY DEF Init, BusyIsTaken, TaskHolds, NoneSends
<1> QED BY <1>1, <1>2 DEF Init, CamInv

LEMMA BytesInQueue == ASSUME TypeOK PROVE bytes \in 0 .. Size
BY CamAssumption DEF TypeOK, bytes

LEMMA CamInvStep == CamInv /\ [Next]_vars => CamInv'
<1> SUFFICES ASSUME CamInv, [Next]_vars PROVE CamInv'
  OBVIOUS
<1> USE CamAssumption DEF CamInv, TypeOK, BusyIsTaken, TaskHolds, NoneSends, Alone, queue
<1>1. CASE Interrupt BY <1>1 DEF Interrupt
<1>2. CASE TaskDown BY <1>2 DEF TaskDown
<1>3. CASE ReceiveFails BY <1>3 DEF ReceiveFails
<1>4. CASE ReceiveCaid BY <1>4 DEF ReceiveCaid
<1>5. CASE TaskSends BY <1>5 DEF TaskSends
<1>6. CASE TaskSent BY <1>6 DEF TaskSent, Flush
<1>7. CASE TaskEnd BY <1>7 DEF TaskEnd
<1>8. ASSUME NEW len \in Lengths, ReceiveMessage(len) PROVE CamInv'
  <2>1. CASE fits(len)
    <3>1. wptr' \in 0 .. Size /\ unread' \in Nat BY <1>8, <2>1 DEF ReceiveMessage
    <3> QED BY <1>8, <2>1, <3>1 DEF ReceiveMessage
  <2>2. CASE ~fits(len) BY <1>8, <2>2 DEF ReceiveMessage, Flush
  <2> QED BY <2>1, <2>2
<1>9. ASSUME NEW p \in Writers, WriteBegin(p) PROVE CamInv' BY <1>9 DEF WriteBegin
<1>10. ASSUME NEW p \in Writers, WriteEnd(p) PROVE CamInv' BY <1>10 DEF WriteEnd, Flush
<1>11. ASSUME NEW count \in Counts, Read(count) PROVE CamInv'
  <2>1. PICK cb \in {IF count < bytes THEN count ELSE bytes} :
          /\ rptr' = IF rptr + cb > Size THEN cb - (Size - rptr) ELSE rptr + cb
          /\ unread' = IF unread < cb THEN 0 ELSE unread - cb
    BY <1>11 DEF Read
  <2>2. cb \in 0 .. Size BY <2>1, BytesInQueue
  <2>3. rptr' \in 0 .. Size /\ unread' \in Nat BY <2>1, <2>2
  <2> QED BY <1>11, <2>3 DEF Read
<1>12. CASE UNCHANGED vars BY <1>12 DEF vars
<1>13. CASE TaskInterrupted BY <1>13 DEF TaskInterrupted
<1>14. CASE AnswerFails BY <1>14 DEF AnswerFails
<1> QED
  BY <1>1, <1>2, <1>3, <1>4, <1>5, <1>6, <1>7, <1>8, <1>9, <1>10, <1>11, <1>12, <1>13, <1>14 DEF Next

LEMMA CamInvHolds == Spec => []CamInv
BY CamInvInit, CamInvStep, PTL DEF Spec

(* Both pointers of the queue stay within it, or at its end.                 *)
THEOREM CamTypeCorrect == Spec => []TypeOK
<1>1. CamInv => TypeOK BY DEF CamInv
<1> QED BY <1>1, CamInvHolds, PTL

(* Until the module asks for the CA id, the task and the processes that send *)
(* talk to it one at a time.                                                 *)
THEOREM AlwaysOneOnTheBus == Spec => []OneOnTheBus
<1>1. CamInv => OneOnTheBus
  <2> SUFFICES ASSUME CamInv, ~answered PROVE Cardinality(on_the_bus) <= 1
    BY DEF OneOnTheBus
  <2> USE DEF CamInv, BusyIsTaken, TaskHolds, NoneSends, Alone, on_the_bus
  <2>1. on_the_bus = {} \/ \E x : on_the_bus = {x}
    <3>1. CASE NoneSends /\ task # "receives" BY <3>1
    <3>2. CASE NoneSends /\ task = "receives"
      <4>1. on_the_bus = {"task"} BY <3>2
      <4> QED BY <4>1
    <3>3. ASSUME ~TaskHolds, NEW p \in Writers, writer[p] = "sends", Alone(p)
          PROVE \E x : on_the_bus = {x}
      <4>1. on_the_bus = {p} BY <3>3
      <4> QED BY <4>1
    <3> QED BY <3>1, <3>2, <3>3
  <2>2. CASE on_the_bus = {} BY <2>2, FS_EmptySet
  <2>3. ASSUME NEW x, on_the_bus = {x} PROVE Cardinality(on_the_bus) <= 1
    BY <2>3, FS_Singleton
  <2> QED BY <2>1, <2>2, <2>3
<1> QED BY <1>1, CamInvHolds, PTL

-----------------------------------------------------------------------------
(* A transfer over the I2C bus, for every number of callers and every        *)
(* transfer that receives last.  First, places among messages of a kind.     *)

LEMMA BeforeBound ==
  ASSUME NEW m, NEW k \in Nat \ {0}, NEW kind
  PROVE  I2c!before(m, k, kind) \in 0 .. k - 1
<1> DEFINE S == {j \in 1 .. k - 1 : m[j] = kind}
<1>1. IsFiniteSet(1 .. k - 1) /\ Cardinality(1 .. k - 1) = k - 1
  BY FS_Interval
<1>2. S \subseteq 1 .. k - 1
  OBVIOUS
<1>3. I2c!before(m, k, kind) = Cardinality(S)
  BY DEF I2c!before, I2c!Cardinality, Cardinality
<1> HIDE DEF S
<1>4. Cardinality(S) \in Nat /\ Cardinality(S) <= k - 1
  BY <1>1, <1>2, FS_Subset, FS_CardinalityType
<1> QED
  BY <1>3, <1>4

LEMMA BeforeGrows ==
  ASSUME NEW m, NEW j \in Nat \ {0}, NEW k \in Nat \ {0}, NEW kind, j < k, m[j] = kind
  PROVE  I2c!before(m, j, kind) < I2c!before(m, k, kind)
<1> DEFINE S == {i \in 1 .. j - 1 : m[i] = kind}
           T == {i \in 1 .. k - 1 : m[i] = kind}
<1>1. IsFiniteSet(S)
  <2>1. IsFiniteSet(1 .. j - 1) BY FS_Interval
  <2>2. S \subseteq 1 .. j - 1 OBVIOUS
  <2> QED BY <2>1, <2>2, FS_Subset
<1>2. IsFiniteSet(T)
  <2>1. IsFiniteSet(1 .. k - 1) BY FS_Interval
  <2>2. T \subseteq 1 .. k - 1 OBVIOUS
  <2> QED BY <2>1, <2>2, FS_Subset
<1>3. j \notin S /\ S \cup {j} \subseteq T
  OBVIOUS
<1>7. I2c!before(m, j, kind) = Cardinality(S) /\ I2c!before(m, k, kind) = Cardinality(T)
  BY DEF I2c!before, I2c!Cardinality, Cardinality
<1> HIDE DEF S, T
<1>4. Cardinality(S \cup {j}) = Cardinality(S) + 1
  BY <1>1, <1>3, FS_AddElement
<1>5. Cardinality(S \cup {j}) <= Cardinality(T)
  BY <1>2, <1>3, FS_Subset
<1>6. Cardinality(S) \in Nat /\ Cardinality(T) \in Nat
  BY <1>1, <1>2, FS_CardinalityType
<1> QED
  BY <1>4, <1>5, <1>6, <1>7

LEMMA BeforeAll ==
  ASSUME NEW m, NEW k \in Nat \ {0}, NEW kind, \A j \in 1 .. k - 1 : m[j] = kind
  PROVE  I2c!before(m, k, kind) = k - 1
<1>1. {j \in 1 .. k - 1 : m[j] = kind} = 1 .. k - 1
  OBVIOUS
<1>2. I2c!before(m, k, kind) = Cardinality(1 .. k - 1)
  BY <1>1 DEF I2c!before, I2c!Cardinality, Cardinality
<1>3. Cardinality(1 .. k - 1) = k - 1
  BY FS_Interval
<1> QED
  BY <1>2, <1>3

\* What the controller has done of the messages m of the caller whose
\* descriptors it works on: all before next were acknowledged, or the last of
\* them was not; and no later descriptor is full.
Worked(m) ==
  /\ next \in 0 .. Len(m) /\ acked \in 0 .. Len(m)
  /\ \/ acked = next /\ (on <=> next < Len(m))
     \/ ~on /\ next = acked + 1 /\ tx[acked] = "nak"
  /\ \A k \in 1 .. Len(m) :
       m[k] = "recv" /\ k > acked => rx[I2c!before(m, k, "recv")] = "empty"

BusTyped ==
  /\ holder \subseteq Callers /\ i2cPc \in [Callers -> {"idle", "waiting", "sleeping", "awake"}]
  /\ msgs \in [Callers -> Transfers \cup {<<>>}] /\ on \in BOOLEAN /\ early \in BOOLEAN
  /\ tx \in [I2c!Bd -> {"free", "ready", "nak", "done"}] /\ rx \in [I2c!Bd -> {"empty", "full"}]
  /\ result \in [Callers -> {"none", "ok", "error"}]

BusInv ==
  /\ BusTyped
  /\ \A c \in Callers : i2cPc[c] # "idle" => msgs[c] \in Transfers
  /\ \A c \in Callers : i2cPc[c] \in {"sleeping", "awake"} => holder = {c}
  /\ \A c \in Callers : c \in holder => i2cPc[c] \in {"sleeping", "awake"}
  /\ \A c \in Callers : c \in holder => Worked(msgs[c])
  /\ \A c \in Callers : i2cPc[c] = "awake" => early \/ ~on
  /\ holder = {} => ~on

BusInit ==
  /\ holder = {} /\ i2cPc = [c \in Callers |-> "idle"] /\ msgs = [c \in Callers |-> <<>>]
  /\ tx = [b \in I2c!Bd |-> "free"] /\ rx = [b \in I2c!Bd |-> "empty"] /\ on = FALSE /\ next = 0
  /\ result = [c \in Callers |-> "none"] /\ early = FALSE /\ acked = 0

LEMMA BusInvInit == I2c!Init => BusInv
<1> SUFFICES ASSUME I2c!Init PROVE BusInv
  OBVIOUS
<1>1. BusInit
  BY DEF I2c!Init, BusInit
<1> QED
  BY <1>1 DEF BusInit, BusInv, BusTyped

LEMMA TransferIs ==
  ASSUME NEW m \in Transfers
  PROVE  /\ m \in Seq({"send", "recv"}) /\ Len(m) \in 1 .. MaxBd /\ MaxBd \in Nat
         /\ \A k \in 1 .. Len(m) : m[k] \in {"send", "recv"}
         /\ \A j, k \in 1 .. Len(m) : j < k /\ m[k] = "send" => m[j] = "send"
BY PartsAssumption DEF I2c!I2cBusAssumption, I2c!SendsFirst

LEMMA BusCall ==
  ASSUME BusInv, NEW c \in Callers, I2c!Call(c)
  PROVE  BusInv'
<1>1. PICK m \in Transfers : msgs' = [msgs EXCEPT ![c] = m]
  BY DEF I2c!Call
<1>2. /\ i2cPc[c] = "idle" /\ i2cPc' = [i2cPc EXCEPT ![c] = "waiting"]
      /\ result' = [result EXCEPT ![c] = "none"]
      /\ UNCHANGED <<holder, tx, rx, on, next, early, acked>>
  BY DEF I2c!Call
<1>3. \A d \in Callers : d \in holder => d # c
  BY <1>2 DEF BusInv
<1>4. BusTyped'
  BY <1>1, <1>2 DEF BusInv, BusTyped
<1>5. \A d \in Callers : d \in holder => msgs'[d] = msgs[d]
  BY <1>1, <1>3 DEF BusInv, BusTyped
<1>6. \A d \in Callers : d \in holder => Worked(msgs[d])'
  BY <1>2, <1>5 DEF BusInv, Worked
<1> QED
  BY <1>1, <1>2, <1>3, <1>4, <1>6 DEF BusInv, BusTyped

LEMMA BusStart ==
  ASSUME BusInv, NEW c \in Callers, I2c!Start(c)
  PROVE  BusInv'
<1>1. /\ i2cPc[c] = "waiting" /\ holder = {} /\ holder' = {c}
      /\ rx' = [b \in I2c!Bd |-> "empty"]
      /\ tx' = [b \in I2c!Bd |-> IF b < Len(msgs[c]) THEN "ready" ELSE "free"]
      /\ on' = TRUE /\ next' = 0 /\ early' = FALSE /\ acked' = 0
      /\ i2cPc' = [i2cPc EXCEPT ![c] = "sleeping"]
      /\ msgs' = msgs /\ result' = result
  BY DEF I2c!Start, I2c!cleared
<1> DEFINE m == msgs[c]
<1>2. m \in Transfers
  BY <1>1 DEF BusInv
<1>3. Len(m) \in 1 .. MaxBd /\ MaxBd \in Nat
  BY <1>2, TransferIs
<1>4. BusTyped'
  BY <1>1 DEF BusInv, BusTyped
<1>5. \A k \in 1 .. Len(m) : I2c!before(m, k, "recv") \in I2c!Bd
  BY <1>3, BeforeBound DEF I2c!Bd
<1>6. Worked(m)'
  <2>1. \A k \in 1 .. Len(m) : rx'[I2c!before(m, k, "recv")] = "empty"
    BY <1>1, <1>5
  <2>2. next' = 0 /\ acked' = 0 /\ on' /\ m' = m
    BY <1>1
  <2>3. next' \in 0 .. Len(m) /\ acked' \in 0 .. Len(m) /\ next' < Len(m)
    BY <1>3, <2>2
  <2>4. I2c!before(m, 0, "recv")' = I2c!before(m, 0, "recv")
    BY <2>2
  <2> HIDE DEF m
  <2> QED BY <2>1, <2>2, <2>3 DEF Worked
<1>7. \A d \in Callers : i2cPc[d] \notin {"sleeping", "awake"}
  BY <1>1 DEF BusInv
<1> QED
  BY <1>1, <1>2, <1>4, <1>6, <1>7 DEF BusInv, BusTyped

LEMMA BusSleepEnds ==
  ASSUME BusInv, NEW c \in Callers, I2c!SleepEnds(c)
  PROVE  BusInv'
<1>1. /\ i2cPc[c] = "sleeping" /\ i2cPc' = [i2cPc EXCEPT ![c] = "awake"] /\ early' = TRUE
      /\ UNCHANGED <<holder, msgs, tx, rx, on, next, result, acked>>
  BY DEF I2c!SleepEnds
<1>2. BusTyped'
  BY <1>1 DEF BusInv, BusTyped
<1>3. \A d \in Callers : Worked(msgs[d]) => Worked(msgs[d])'
  BY <1>1 DEF Worked
<1> QED
  BY <1>1, <1>2, <1>3 DEF BusInv, BusTyped

LEMMA BusFinish ==
  ASSUME BusInv, NEW c \in Callers, I2c!Finish(c)
  PROVE  BusInv'
<1>1. /\ i2cPc[c] = "awake" /\ i2cPc' = [i2cPc EXCEPT ![c] = "idle"]
      /\ result' = [result EXCEPT ![c] = IF I2c!refused(msgs[c]) THEN "error" ELSE "ok"]
      /\ on' = FALSE /\ holder' = {}
      /\ UNCHANGED <<msgs, tx, rx, next, early, acked>>
  BY DEF I2c!Finish
<1>2. BusTyped'
  BY <1>1 DEF BusInv, BusTyped
<1>3. \A d \in Callers : i2cPc[d] \in {"sleeping", "awake"} => d = c
  BY <1>1 DEF BusInv
<1> QED
  BY <1>1, <1>2, <1>3 DEF BusInv, BusTyped

LEMMA BusController ==
  ASSUME BusInv, I2c!Controller
  PROVE  BusInv'
<1>0. on /\ UNCHANGED <<holder, msgs, result, early>>
  BY DEF I2c!Controller
<1>1. PICK c \in holder, ack \in BOOLEAN :
        /\ tx' = [tx EXCEPT ![next] = IF ack THEN "done" ELSE "nak"]
        /\ rx' = (IF ack /\ msgs[c][next + 1] = "recv"
                  THEN [rx EXCEPT ![I2c!before(msgs[c], next + 1, "recv")] = "full"] ELSE rx)
        /\ acked' = (IF ack THEN acked + 1 ELSE acked) /\ next' = next + 1
        /\ on' = ~I2c!ending(c, ack)
        /\ i2cPc' = (IF I2c!ending(c, ack) THEN [i2cPc EXCEPT ![c] = "awake"] ELSE i2cPc)
  BY DEF I2c!Controller
<1> DEFINE m == msgs[c]
<1>2. c \in Callers /\ holder = {c} /\ i2cPc[c] \in {"sleeping", "awake"} /\ Worked(m) /\ m \in Transfers
  BY <1>1 DEF BusInv, BusTyped
<1>3. Len(m) \in 1 .. MaxBd /\ MaxBd \in Nat /\ \A k \in 1 .. Len(m) : m[k] \in {"send", "recv"}
  BY <1>2, TransferIs
<1>4. next \in 0 .. Len(m) - 1 /\ acked = next
  BY <1>0, <1>2, <1>3 DEF Worked
<1>5. next \in I2c!Bd
  BY <1>3, <1>4 DEF I2c!Bd
<1>6. tx'[next] = (IF ack THEN "done" ELSE "nak")
  BY <1>1, <1>5 DEF BusInv, BusTyped
<1>7. BusTyped'
  BY <1>0, <1>1, <1>2 DEF BusInv, BusTyped, I2c!ending
<1>8. ASSUME NEW k \in 1 .. Len(m), m[k] = "recv", k > acked'
      PROVE  rx'[I2c!before(m, k, "recv")] = "empty"
  <2>1. k > acked /\ rx[I2c!before(m, k, "recv")] = "empty"
    BY <1>1, <1>2, <1>4, <1>8 DEF Worked
  <2>2. CASE ack /\ m[next + 1] = "recv"
    <3>1. next + 1 < k
      BY <1>1, <1>4, <1>8, <2>2
    <3>2. I2c!before(m, next + 1, "recv") < I2c!before(m, k, "recv")
      BY <1>4, <2>2, <3>1, <1>8, BeforeGrows
    <3>3. I2c!before(m, next + 1, "recv") \in 0 .. next /\ I2c!before(m, k, "recv") \in 0 .. k - 1
      BY <1>4, BeforeBound
    <3>4. rx' = [rx EXCEPT ![I2c!before(m, next + 1, "recv")] = "full"]
      BY <1>1, <2>2
    <3>5. I2c!before(m, k, "recv") # I2c!before(m, next + 1, "recv")
      BY <3>2, <3>3
    <3> QED BY <2>1, <3>4, <3>5 DEF BusInv, BusTyped
  <2>3. CASE ~(ack /\ m[next + 1] = "recv")
    BY <1>1, <2>1, <2>3
  <2> QED BY <2>2, <2>3
<1>9. on' <=> ack /\ next' < Len(m)
  <2>1. on' <=> ack /\ next + 1 # Len(m)
    BY <1>1 DEF I2c!ending
  <2>2. next' < Len(m) <=> next + 1 # Len(m)
    BY <1>1, <1>3, <1>4
  <2> QED BY <2>1, <2>2
<1>10. m' = m
  BY <1>0
<1>11. Worked(m)'
  <2>1. next' \in 0 .. Len(m) /\ acked' \in 0 .. Len(m)
    BY <1>1, <1>4, <1>3
  <2>2. \/ acked' = next' /\ (on' <=> next' < Len(m))
        \/ ~on' /\ next' = acked' + 1 /\ tx'[acked'] = "nak"
    <3>1. CASE ack
      <4>1. acked' = next' BY <1>1, <1>4, <3>1
      <4> QED BY <1>9, <3>1, <4>1
    <3>2. CASE ~ack
      <4>1. acked' = acked /\ acked' = next /\ next' = acked' + 1 BY <1>1, <1>4, <3>2
      <4> QED BY <1>6, <1>9, <3>2, <4>1
    <3> QED BY <3>1, <3>2
  <2> HIDE DEF m
  <2> QED BY <1>8, <1>10, <2>1, <2>2 DEF Worked
<1>12. \A d \in Callers : d \in holder' => d = c
  BY <1>0, <1>2
<1>13. i2cPc'[c] \in {"sleeping", "awake"} /\ \A d \in Callers : d # c => i2cPc'[d] = i2cPc[d]
  BY <1>1, <1>2 DEF BusInv, BusTyped
<1>14. i2cPc'[c] = "awake" => early' \/ ~on'
  BY <1>0, <1>1, <1>2, <1>9 DEF BusInv, BusTyped
<1>15. \A d \in Callers : d # c => i2cPc[d] \notin {"sleeping", "awake"}
  BY <1>2 DEF BusInv
<1> QED
  BY <1>0, <1>2, <1>7, <1>10, <1>11, <1>12, <1>13, <1>14, <1>15 DEF BusInv

LEMMA BusInvNext == BusInv /\ I2c!Bus => BusInv'
BY BusCall, BusStart, BusController, BusSleepEnds, BusFinish DEF I2c!Bus

LEMMA BusInvStutter == BusInv /\ UNCHANGED I2c!controller => BusInv'
BY DEF BusInv, BusTyped, Worked, I2c!controller

LEMMA BusInvMeans == BusInv => I2c!OkMeansDone /\ I2c!RunsForHolder
<1> SUFFICES ASSUME BusInv PROVE I2c!OkMeansDone /\ I2c!RunsForHolder
  OBVIOUS
<1>1. I2c!RunsForHolder
  <2> SUFFICES ASSUME on PROVE \E c \in Callers : holder = {c} /\ i2cPc[c] \in {"sleeping", "awake"}
    BY DEF I2c!RunsForHolder
  <2>1. PICK c \in Callers : c \in holder
    BY DEF BusInv, BusTyped
  <2> QED BY <2>1 DEF BusInv
<1>2. ASSUME NEW c \in Callers, i2cPc[c] = "awake", ~I2c!refused(msgs[c])
      PROVE  acked >= (IF early THEN IF I2c!Receives(msgs[c]) = {} THEN 0 ELSE Len(msgs[c])
                       ELSE Len(msgs[c]))
  <2> DEFINE m == msgs[c]
  <2>1. c \in holder /\ Worked(m) /\ m \in Transfers
    BY <1>2 DEF BusInv
  <2>2. /\ Len(m) \in 1 .. MaxBd /\ MaxBd \in Nat /\ \A k \in 1 .. Len(m) : m[k] \in {"send", "recv"}
        /\ \A j, k \in 1 .. Len(m) : j < k /\ m[k] = "send" => m[j] = "send"
    BY <2>1, TransferIs
  <2>3. acked \in 0 .. Len(m)
    BY <2>1 DEF Worked
  <2>4. \A k \in 1 .. Len(m) : m[k] = "recv" => k <= acked
    BY <1>2, <2>1, <2>3 DEF Worked, I2c!refused, I2c!Receives
  <2>5. CASE acked = Len(m)
    BY <2>2, <2>5
  <2>6. CASE acked # Len(m)
    <3>1. acked + 1 \in 1 .. Len(m) /\ acked \in Nat
      BY <2>2, <2>3, <2>6
    <3>2. m[acked + 1] = "send"
      BY <2>2, <2>4, <3>1
    <3>3. \A j \in 1 .. acked : m[j] = "send"
      BY <2>2, <3>1, <3>2
    <3>4. I2c!before(m, acked + 1, "send") = acked
      BY <3>1, <3>3, BeforeAll
    <3>5. tx[acked] # "nak"
      BY <1>2, <3>1, <3>2, <3>4 DEF I2c!refused, I2c!Receives
    <3>6. acked = next /\ on
      BY <2>1, <2>3, <2>6, <3>5, <3>1 DEF Worked
    <3>7. early
      BY <1>2, <3>6 DEF BusInv
    <3>8. I2c!Receives(m) = {}
      <4>1. \A k \in 1 .. Len(m) : m[k] = "recv" => FALSE
        BY <2>4, <3>3, <3>1
      <4> QED BY <4>1 DEF I2c!Receives
    <3> QED BY <2>3, <3>7, <3>8
  <2> QED BY <2>5, <2>6
<1> QED
  BY <1>1, <1>2 DEF I2c!OkMeansDone

-----------------------------------------------------------------------------
(* The clock, for every time: a register that is not still to be written has *)
(* what was given, one that is not still to be read is read as it is.        *)

Left(s) == {s[i] : i \in 1 .. Len(s)}
Fields == I2c!Registers

LEMMA LeftTail ==
  ASSUME NEW s \in Seq(Fields), s # <<>>
  PROVE  /\ Tail(s) \in Seq(Fields) /\ Head(s) \in Fields
         /\ Left(s) \subseteq Left(Tail(s)) \cup {Head(s)}
<1>1. Len(s) >= 1 /\ Len(Tail(s)) = Len(s) - 1 /\ Tail(s) \in Seq(Fields) /\ Head(s) = s[1]
  OBVIOUS
<1>2. \A i \in 1 .. Len(s) : s[i] \in Fields
  OBVIOUS
<1>3. \A i \in 1 .. Len(s) - 1 : Tail(s)[i] = s[i + 1]
  OBVIOUS
<1>4. ASSUME NEW i \in 1 .. Len(s) PROVE s[i] \in Left(Tail(s)) \cup {Head(s)}
  <2>1. CASE i = 1
    BY <1>1, <2>1
  <2>2. CASE i # 1
    <3>1. i - 1 \in 1 .. Len(s) - 1 /\ (i - 1) + 1 = i
      BY <1>1, <2>2
    <3>2. Tail(s)[i - 1] = s[i]
      BY <1>3, <3>1
    <3> QED BY <1>1, <3>1, <3>2 DEF Left
  <2> QED BY <2>1, <2>2
<1> QED
  BY <1>1, <1>2, <1>4 DEF Left

LEMMA FieldsAre == Fields = {"year", "mon", "day", "hour", "min", "sec", "wday"}
BY DEF I2c!Registers, I2c!NoTime, Fields

LEMMA OrdersWhole ==
  /\ I2c!WriteOrder \in Seq(Fields) /\ Fields \subseteq Left(I2c!WriteOrder)
  /\ I2c!ReadOrder \in Seq(Fields) /\ Fields \subseteq Left(I2c!ReadOrder)
<1>1. I2c!WriteOrder \in Seq(Fields) /\ Len(I2c!WriteOrder) = 7
  BY FieldsAre DEF I2c!WriteOrder
<1>2. I2c!ReadOrder \in Seq(Fields) /\ Len(I2c!ReadOrder) = 7
  BY FieldsAre DEF I2c!ReadOrder
<1>3. Fields \subseteq Left(I2c!WriteOrder)
  <2>1. /\ I2c!WriteOrder[1] = "year" /\ I2c!WriteOrder[2] = "mon" /\ I2c!WriteOrder[3] = "day"
        /\ I2c!WriteOrder[4] = "hour" /\ I2c!WriteOrder[5] = "min" /\ I2c!WriteOrder[6] = "sec"
        /\ I2c!WriteOrder[7] = "wday"
    BY DEF I2c!WriteOrder
  <2>2. \A i \in {1, 2, 3, 4, 5, 6, 7} : i \in 1 .. Len(I2c!WriteOrder)
    BY <1>1
  <2> QED BY <2>1, <2>2, FieldsAre DEF Left
<1>4. Fields \subseteq Left(I2c!ReadOrder)
  <2>1. /\ I2c!ReadOrder[6] = "year" /\ I2c!ReadOrder[5] = "mon" /\ I2c!ReadOrder[4] = "day"
        /\ I2c!ReadOrder[3] = "hour" /\ I2c!ReadOrder[2] = "min" /\ I2c!ReadOrder[1] = "sec"
        /\ I2c!ReadOrder[7] = "wday"
    BY DEF I2c!ReadOrder
  <2>2. \A i \in {1, 2, 3, 4, 5, 6, 7} : i \in 1 .. Len(I2c!ReadOrder)
    BY <1>2
  <2> QED BY <2>1, <2>2, FieldsAre DEF Left
<1> QED
  BY <1>1, <1>2, <1>3, <1>4

LEMMA CodedBack == \A n \in 0 .. 99 : I2c!BIN_TO_BCD(n) \in Int /\ I2c!BCD_TO_BIN(I2c!BIN_TO_BCD(n)) = n
<1> SUFFICES ASSUME NEW n \in 0 .. 99
             PROVE  I2c!BIN_TO_BCD(n) \in Int /\ I2c!BCD_TO_BIN(I2c!BIN_TO_BCD(n)) = n
  OBVIOUS
<1>1. PICK q \in Nat, r \in Nat : q = n \div 10 /\ r = n % 10
  OBVIOUS
<1>2. n = 10 * q + r /\ r < 10
  BY <1>1
<1>3. I2c!BIN_TO_BCD(n) = q * 16 + r
  BY <1>1 DEF I2c!BIN_TO_BCD
<1>4. (q * 16 + r) \div 16 = q /\ (q * 16 + r) % 16 = r
  BY <1>2
<1> QED
  BY <1>2, <1>3, <1>4 DEF I2c!BCD_TO_BIN

LEMMA TimesAre ==
  ASSUME NEW t \in Times
  PROVE  t \in [year : Int, mon : Int, day : Nat, hour : Nat, min : Nat, sec : Nat, wday : Nat]
BY PartsAssumption DEF I2c!I2cBusAssumption

LEMMA ValidRanges ==
  ASSUME NEW t \in Times, I2c!valid(t)
  PROVE  /\ t.year \in 70 .. 169 /\ t.mon \in 0 .. 11 /\ t.day \in 1 .. 32 /\ t.hour \in 0 .. 23
         /\ t.min \in 0 .. 59 /\ t.sec \in 0 .. 59 /\ t.wday \in 0 .. 6
<1>1. /\ t.year \in Int /\ t.mon \in Int /\ t.day \in Nat /\ t.hour \in Nat
      /\ t.min \in Nat /\ t.sec \in Nat /\ t.wday \in Nat
  BY TimesAre
<1>2. /\ t.year + 1900 \in 1970 .. 2069 /\ t.mon + 1 \in 1 .. 12 /\ t.day > 0
      /\ t.hour < 24 /\ t.min < 60 /\ t.sec < 60 /\ t.wday \in 0 .. 6
  BY DEF I2c!valid
<1>3. \A i \in 1 .. 12 : I2c!days_in_mo[i] \in 28 .. 31
  BY DEF I2c!days_in_mo
<1>4. t.day <= I2c!days_in_mo[t.mon + 1] + (IF t.mon = 1 /\ I2c!leap_yr(t.year + 1900) THEN 1 ELSE 0)
  BY DEF I2c!valid
<1>5. t.day <= 32
  <2>1. PICK d \in 28 .. 31 : d = I2c!days_in_mo[t.mon + 1]
    BY <1>2, <1>3
  <2>2. t.day <= d + (IF t.mon = 1 /\ I2c!leap_yr(t.year + 1900) THEN 1 ELSE 0)
    BY <1>4, <2>1
  <2>3. CASE t.mon = 1 /\ I2c!leap_yr(t.year + 1900)
    BY <1>1, <2>2, <2>3
  <2>4. CASE ~(t.mon = 1 /\ I2c!leap_yr(t.year + 1900))
    BY <1>1, <2>2, <2>4
  <2> QED BY <2>3, <2>4
<1> QED
  BY <1>1, <1>2, <1>5

(* A valid time that went through the registers is the one that was set.     *)
LEMMA TimeBack ==
  ASSUME NEW t \in Times, I2c!valid(t)
  PROVE  I2c!ds1307_get_rtc_time(I2c!stored(t)) = t
<1> DEFINE s == I2c!stored(t)
           g == I2c!ds1307_get_rtc_time(s)
<1>1. /\ t.year \in 70 .. 169 /\ t.mon \in 0 .. 11 /\ t.day \in 1 .. 32 /\ t.hour \in 0 .. 23
      /\ t.min \in 0 .. 59 /\ t.sec \in 0 .. 59 /\ t.wday \in 0 .. 6
  BY ValidRanges
<1>2. /\ s["year"] = I2c!BIN_TO_BCD(t.year % 100) /\ s["mon"] = I2c!BIN_TO_BCD(t.mon + 1)
      /\ \A r \in Fields \ {"year", "mon"} : s[r] = I2c!BIN_TO_BCD(t[r])
  BY FieldsAre DEF I2c!stored, Fields
<1>3. /\ g["year"] = I2c!full_year(I2c!BCD_TO_BIN(s["year"]))
      /\ g["mon"] = I2c!BCD_TO_BIN(s["mon"]) - 1
      /\ \A r \in Fields \ {"year", "mon"} : g[r] = I2c!BCD_TO_BIN(s[r])
      /\ g = [r \in Fields |-> g[r]]
  BY FieldsAre DEF I2c!ds1307_get_rtc_time, Fields
<1> HIDE DEF s, g
<1>4. g["year"] = t.year
  <2>1. t.year % 100 \in 0 .. 99 /\ I2c!full_year(t.year % 100) = t.year
    BY <1>1 DEF I2c!full_year
  <2> QED BY <1>2, <1>3, <2>1, CodedBack
<1>5. g["mon"] = t.mon
  <2>1. t.mon + 1 \in 0 .. 99 BY <1>1
  <2>2. g["mon"] = (t.mon + 1) - 1 BY <1>2, <1>3, <2>1, CodedBack
  <2> QED BY <1>1, <2>2
<1>6. ASSUME NEW r \in Fields \ {"year", "mon"} PROVE g[r] = t[r]
  <2>1. t[r] \in 0 .. 99 BY <1>1, FieldsAre
  <2> QED BY <1>2, <1>3, <2>1, CodedBack
<1>7. \A r \in Fields : g[r] = t[r]
  BY <1>4, <1>5, <1>6, FieldsAre
<1>8. t = [r \in Fields |-> t[r]]
  BY TimesAre, FieldsAre
<1>9. g = t
  BY <1>3, <1>7, <1>8
<1> QED
  BY <1>9 DEF g, s

TimeTyped ==
  /\ reg \in [Fields -> Int] /\ new \in [Fields -> Int] /\ got \in [Fields -> Int]
  /\ writing \in Seq(Fields) /\ reading \in Seq(Fields)
  /\ DOMAIN shown = Fields /\ i2cLost \in 0 .. MaxLost /\ clean \in BOOLEAN

TimeInv ==
  /\ TimeTyped
  /\ truth # I2c!NoTime =>
       /\ truth \in Times /\ I2c!valid(truth) /\ new = I2c!stored(truth)
       /\ \A r \in Fields : r \in Left(writing) \/ reg[r] = new[r]
  /\ clean =>
       /\ writing = <<>>
       /\ \A r \in Fields : r \in Left(reading) \/ got[r] = reg[r]
       /\ reading = <<>> => shown = I2c!ds1307_get_rtc_time(got)

LEMMA TimeInvInit == I2c!Init => TimeInv
<1> SUFFICES ASSUME I2c!Init PROVE TimeInv
  OBVIOUS
<1>1. /\ reg = I2c!NoTime /\ writing = <<>> /\ new = I2c!NoTime /\ reading = <<>> /\ got = I2c!NoTime
      /\ shown = I2c!NoTime /\ truth = I2c!NoTime /\ clean = FALSE /\ i2cLost = 0
  BY DEF I2c!Init
<1>2. I2c!NoTime \in [Fields -> Int]
  BY FieldsAre DEF I2c!NoTime
<1>3. MaxLost \in Nat
  BY PartsAssumption DEF I2c!I2cBusAssumption
<1>4. DOMAIN I2c!NoTime = Fields
  BY DEF Fields, I2c!Registers
<1>5. TimeTyped
  <2>1. <<>> \in Seq(Fields) OBVIOUS
  <2>2. i2cLost \in 0 .. MaxLost BY <1>1, <1>3
  <2> QED BY <1>1, <1>2, <1>4, <2>1, <2>2 DEF TimeTyped
<1> QED
  BY <1>1, <1>5 DEF TimeInv

LEMMA TimeSet ==
  ASSUME TimeInv, NEW t \in Times, I2c!RTC_SET_TIME(t)
  PROVE  TimeInv'
<1>1. /\ I2c!valid(t) /\ writing' = I2c!WriteOrder /\ new' = I2c!stored(t) /\ truth' = t /\ clean' = FALSE
      /\ UNCHANGED <<reg, reading, got, shown, i2cLost>>
  BY DEF I2c!RTC_SET_TIME
<1>2. I2c!stored(t) \in [Fields -> Int]
  <2>1. \A n \in Int : I2c!BIN_TO_BCD(n) \in Int
    BY DEF I2c!BIN_TO_BCD
  <2>2. t.year \in Int /\ t.mon \in Int /\ \A r \in Fields : t[r] \in Int
    BY TimesAre, FieldsAre
  <2>3. t.year % 100 \in Int /\ t.mon + 1 \in Int
    BY <2>2
  <2>4. \A r \in Fields : I2c!BIN_TO_BCD(
           CASE r = "year" -> t.year % 100 [] r = "mon" -> t.mon + 1 [] OTHER -> t[r]) \in Int
    BY <2>1, <2>2, <2>3
  <2> QED BY <2>4 DEF I2c!stored, Fields
<1>3. \A r \in Fields : r \in Left(writing')
  BY <1>1, OrdersWhole
<1>4. writing' \in Seq(Fields)
  BY <1>1, OrdersWhole
<1>5. \A r \in Fields : (r \in Left(writing) \/ reg[r] = new[r])'
  BY <1>3 DEF Left
<1>7. TimeTyped'
  BY <1>1, <1>2, <1>4 DEF TimeInv, TimeTyped
<1>8. truth' \in Times /\ I2c!valid(truth') /\ new' = I2c!stored(truth')
  BY <1>1
<1>9. I2c!valid(truth)' = I2c!valid(truth') /\ I2c!stored(truth)' = I2c!stored(truth')
  BY DEF I2c!valid, I2c!stored
<1> QED
  BY <1>1, <1>5, <1>7, <1>8, <1>9 DEF TimeInv

LEMMA TimeWrites ==
  ASSUME TimeInv, I2c!ds1307_writereg
  PROVE  TimeInv'
<1>1. /\ writing # <<>> /\ writing' = Tail(writing) /\ clean' = FALSE
      /\ UNCHANGED <<new, reading, got, shown>>
      /\ \/ reg' = [reg EXCEPT ![Head(writing)] = new[Head(writing)]] /\ UNCHANGED <<truth, i2cLost>>
         \/ i2cLost < MaxLost /\ i2cLost' = i2cLost + 1 /\ truth' = I2c!NoTime /\ UNCHANGED reg
  BY DEF I2c!ds1307_writereg
<1>2. /\ writing' \in Seq(Fields) /\ Head(writing) \in Fields
      /\ Left(writing) \subseteq Left(writing') \cup {Head(writing)}
  BY <1>1, LeftTail DEF TimeInv, TimeTyped
<1>3. /\ reg' \in [Fields -> Int] /\ i2cLost' \in 0 .. MaxLost
      /\ \A r \in Fields : reg'[r] = (IF r = Head(writing) THEN new[r] ELSE reg[r]) \/ truth' = I2c!NoTime
      /\ truth' # I2c!NoTime => truth' = truth
  <2>1. CASE reg' = [reg EXCEPT ![Head(writing)] = new[Head(writing)]] /\ UNCHANGED <<truth, i2cLost>>
    <3>1. CASE truth = I2c!NoTime
      BY <1>2, <2>1, <3>1 DEF TimeInv, TimeTyped
    <3>2. CASE truth # I2c!NoTime
      BY <1>2, <2>1, <3>2 DEF TimeInv, TimeTyped
    <3> QED BY <3>1, <3>2
  <2>2. CASE i2cLost < MaxLost /\ i2cLost' = i2cLost + 1 /\ truth' = I2c!NoTime /\ UNCHANGED reg
    BY <2>2, PartsAssumption DEF TimeInv, TimeTyped, I2c!I2cBusAssumption
  <2> QED BY <1>1, <2>1, <2>2
<1>4. TimeTyped'
  BY <1>1, <1>2, <1>3 DEF TimeInv, TimeTyped
<1>5. ASSUME truth' # I2c!NoTime
      PROVE  /\ truth' \in Times /\ I2c!valid(truth)' /\ (new = I2c!stored(truth))'
             /\ \A r \in Fields : (r \in Left(writing) \/ reg[r] = new[r])'
  <2>1. truth' = truth /\ I2c!valid(truth)' = I2c!valid(truth) /\ I2c!stored(truth)' = I2c!stored(truth)
    BY <1>3, <1>5 DEF I2c!valid, I2c!stored
  <2>2. Left(writing)' = Left(writing')
    BY DEF Left
  <2>3. ASSUME NEW r \in Fields PROVE r \in Left(writing') \/ reg'[r] = new'[r]
    BY <1>1, <1>2, <1>3, <1>5 DEF TimeInv
  <2> QED BY <1>1, <1>5, <2>1, <2>2, <2>3 DEF TimeInv
<1> QED
  BY <1>1, <1>4, <1>5 DEF TimeInv

LEMMA TimeAsked ==
  ASSUME TimeInv, I2c!RTC_RD_TIME
  PROVE  TimeInv'
<1>1. /\ reading' = I2c!ReadOrder /\ clean' = (writing = <<>>)
      /\ got' = I2c!NoTime /\ shown' = I2c!NoTime
      /\ UNCHANGED <<reg, writing, new, truth, i2cLost>>
  BY DEF I2c!RTC_RD_TIME
<1>2. I2c!NoTime \in [Fields -> Int]
  BY FieldsAre DEF I2c!NoTime
<1>3. reading' \in Seq(Fields) /\ \A r \in Fields : r \in Left(reading')
  BY <1>1, OrdersWhole
<1>4. reading' # <<>>
  BY <1>1 DEF I2c!ReadOrder
<1>5. TimeTyped'
  BY <1>1, <1>2, <1>3 DEF TimeInv, TimeTyped
<1>6. \A r \in Fields : (r \in Left(reading) \/ got[r] = reg[r])'
  BY <1>3 DEF Left
<1> QED
  BY <1>1, <1>4, <1>5, <1>6 DEF TimeInv

LEMMA TimeReads ==
  ASSUME TimeInv, I2c!ds1307_readreg
  PROVE  TimeInv'
<1>1. /\ reading # <<>> /\ reading' = Tail(reading)
      /\ \/ got' = [got EXCEPT ![Head(reading)] = reg[Head(reading)]] /\ UNCHANGED <<clean, i2cLost>>
         \/ /\ i2cLost < MaxLost /\ i2cLost' = i2cLost + 1 /\ clean' = FALSE
            /\ got' = [got EXCEPT ![Head(reading)] = 0]
      /\ shown' = (IF reading' = <<>> THEN I2c!ds1307_get_rtc_time(got') ELSE I2c!NoTime)
      /\ UNCHANGED <<reg, writing, new, truth>>
  BY DEF I2c!ds1307_readreg
<1>2. /\ reading' \in Seq(Fields) /\ Head(reading) \in Fields
      /\ Left(reading) \subseteq Left(reading') \cup {Head(reading)}
  BY <1>1, LeftTail DEF TimeInv, TimeTyped
<1>3. DOMAIN shown' = Fields
  BY <1>1, FieldsAre DEF I2c!ds1307_get_rtc_time, I2c!NoTime, Fields
<1>4. got' \in [Fields -> Int] /\ i2cLost' \in 0 .. MaxLost /\ clean' \in BOOLEAN
  <2>1. reg[Head(reading)] \in Int
    BY <1>2 DEF TimeInv, TimeTyped
  <2>4. 0 \in Int /\ got \in [Fields -> Int]
    BY DEF TimeInv, TimeTyped
  <2>5. \/ got' = [got EXCEPT ![Head(reading)] = reg[Head(reading)]]
        \/ got' = [got EXCEPT ![Head(reading)] = 0]
    BY <1>1
  <2>2. got' \in [Fields -> Int]
    BY <2>1, <2>4, <2>5
  <2>3. MaxLost \in Nat
    BY PartsAssumption DEF I2c!I2cBusAssumption
  <2>6. i2cLost' = i2cLost \/ (i2cLost < MaxLost /\ i2cLost' = i2cLost + 1)
    BY <1>1
  <2>7. i2cLost' \in 0 .. MaxLost
    BY <2>3, <2>6 DEF TimeInv, TimeTyped
  <2>8. clean' = clean \/ clean' = FALSE
    BY <1>1
  <2> QED
    BY <2>2, <2>7, <2>8 DEF TimeInv, TimeTyped
<1>5. TimeTyped'
  BY <1>1, <1>2, <1>3, <1>4 DEF TimeInv, TimeTyped
<1>6. ASSUME clean'
      PROVE  /\ \A r \in Fields : r \in Left(reading') \/ got'[r] = reg[r]
             /\ reading' = <<>> => shown' = I2c!ds1307_get_rtc_time(got')
             /\ clean
  BY <1>1, <1>2, <1>6 DEF TimeInv, TimeTyped
<1>7. ASSUME clean' PROVE \A r \in Fields : (r \in Left(reading) \/ got[r] = reg[r])'
  BY <1>1, <1>6, <1>7 DEF Left
<1>8. I2c!ds1307_get_rtc_time(got)' = I2c!ds1307_get_rtc_time(got')
  BY DEF I2c!ds1307_get_rtc_time
<1> QED
  BY <1>1, <1>5, <1>6, <1>7, <1>8 DEF TimeInv

LEMMA TimeTicks ==
  ASSUME TimeInv, I2c!Tick
  PROVE  TimeInv'
<1>1. /\ i2cLost < MaxLost /\ i2cLost' = i2cLost + 1 /\ clean' = FALSE /\ truth' = I2c!NoTime
      /\ reg' = (IF reg.sec = 89
                 THEN [reg EXCEPT !.sec = 0, !.min = I2c!BIN_TO_BCD((I2c!BCD_TO_BIN(@) + 1) % 60)]
                 ELSE [reg EXCEPT !.sec = I2c!BIN_TO_BCD(I2c!BCD_TO_BIN(@) + 1)])
      /\ UNCHANGED <<writing, new, reading, got, shown>>
  BY DEF I2c!Tick
<1>2. \A n \in Int : I2c!BIN_TO_BCD(n) \in Int /\ I2c!BCD_TO_BIN(n) \in Int
  BY DEF I2c!BIN_TO_BCD, I2c!BCD_TO_BIN
<1>3. reg.sec \in Int /\ reg.min \in Int
  BY FieldsAre DEF TimeInv, TimeTyped
<1>4. /\ I2c!BIN_TO_BCD((I2c!BCD_TO_BIN(reg.min) + 1) % 60) \in Int
      /\ I2c!BIN_TO_BCD(I2c!BCD_TO_BIN(reg.sec) + 1) \in Int
  <2>1. (I2c!BCD_TO_BIN(reg.min) + 1) % 60 \in Int /\ I2c!BCD_TO_BIN(reg.sec) + 1 \in Int
    BY <1>2, <1>3
  <2> QED BY <1>2, <2>1
<1>5. reg' \in [Fields -> Int]
  <2>1. reg \in [Fields -> Int] /\ "sec" \in Fields /\ "min" \in Fields
    BY FieldsAre DEF TimeInv, TimeTyped
  <2>2. CASE reg.sec = 89
    <3>1. reg' = [reg EXCEPT !["sec"] = 0, !["min"] = I2c!BIN_TO_BCD((I2c!BCD_TO_BIN(reg.min) + 1) % 60)]
      BY <1>1, <2>1, <2>2
    <3> QED BY <1>4, <2>1, <3>1
  <2>3. CASE reg.sec # 89
    <3>1. reg' = [reg EXCEPT !["sec"] = I2c!BIN_TO_BCD(I2c!BCD_TO_BIN(reg.sec) + 1)]
      BY <1>1, <2>1, <2>3
    <3> QED BY <1>4, <2>1, <3>1
  <2> QED BY <2>2, <2>3
<1>6. i2cLost' \in 0 .. MaxLost
  <2>1. MaxLost \in Nat
    BY PartsAssumption DEF I2c!I2cBusAssumption
  <2>2. i2cLost < MaxLost /\ i2cLost' = i2cLost + 1
    BY <1>1
  <2> QED BY <2>1, <2>2 DEF TimeInv, TimeTyped
<1> QED
  BY <1>1, <1>5, <1>6 DEF TimeInv, TimeTyped

LEMMA TimeInvNext == TimeInv /\ I2c!Clock => TimeInv'
BY TimeSet, TimeWrites, TimeAsked, TimeReads, TimeTicks DEF I2c!Clock

LEMMA TimeInvStutter == TimeInv /\ UNCHANGED I2c!clock => TimeInv'
<1> SUFFICES ASSUME TimeInv, UNCHANGED I2c!clock PROVE TimeInv'
  OBVIOUS
<1>1. UNCHANGED <<reg, writing, new, reading, got, shown, truth, clean, i2cLost>>
  BY DEF I2c!clock
<1>2. I2c!valid(truth)' = I2c!valid(truth) /\ I2c!stored(truth)' = I2c!stored(truth)
      /\ I2c!ds1307_get_rtc_time(got)' = I2c!ds1307_get_rtc_time(got)
  BY <1>1
<1> QED
  BY <1>1, <1>2 DEF TimeInv, TimeTyped, Left

LEMMA TimeInvMeans == TimeInv => I2c!TimeKept
<1> SUFFICES ASSUME TimeInv, reading = <<>>, clean, truth # I2c!NoTime PROVE shown = truth
  BY DEF I2c!TimeKept
<1>1. Left(<<>>) = {}
  BY DEF Left
<1>2. \A r \in Fields : got[r] = I2c!stored(truth)[r]
  BY <1>1 DEF TimeInv
<1>3. got = I2c!stored(truth)
  BY <1>2 DEF TimeInv, TimeTyped, I2c!stored, Fields
<1>4. shown = I2c!ds1307_get_rtc_time(I2c!stored(truth))
  BY <1>3 DEF TimeInv
<1> QED
  BY <1>4, TimeBack DEF TimeInv

-----------------------------------------------------------------------------
(* The dish, for every number of callers and every value it can have: one of *)
(* them is under way with a mark, with what was kept when he began; and      *)
(* until a call is refused or a message lost, that is still what is kept.    *)

Marked == {"set", "diseqc", "poll"}
DishInv ==
  /\ sec \in [Wires -> {0, 1}] /\ lnb \in [Wires -> {0, 1}] /\ message \in [Wires -> {0, 1}]
  /\ pc \in [Callers -> {"idle", "set", "diseqc", "poll", "unmarked"}]
  /\ secStatus \in {0, -1, -2} /\ polls \in 0 .. 5 /\ missed \in BOOLEAN
  /\ \A c \in Callers : pc[c] = "set" => secStatus = -1 /\ (~missed => message = sec)
  /\ \A c \in Callers : pc[c] \in {"diseqc", "poll"} => secStatus = -2 /\ polls >= 1
  /\ \A c, d \in Callers : pc[c] \in Marked /\ pc[d] \in Marked => c = d
  /\ \A c \in Callers : pc[c] = "unmarked" => mid = "sagem"
  /\ secStatus # -1 /\ ~missed => lnb = sec

LEMMA DishInvInit == Front!Init => DishInv
<1> SUFFICES ASSUME Front!Init PROVE DishInv
  OBVIOUS
<1>1. /\ sec = [w \in Wires |-> 0] /\ lnb = sec /\ message = sec /\ secStatus = 0 /\ polls = 0
      /\ pc = [c \in Callers |-> "idle"] /\ missed = FALSE
  BY DEF Front!Init, Front!Off
<1>2. sec \in [Wires -> {0, 1}] /\ lnb \in [Wires -> {0, 1}] /\ message \in [Wires -> {0, 1}]
  BY <1>1
<1>3. pc \in [Callers -> {"idle", "set", "diseqc", "poll", "unmarked"}] /\ \A c \in Callers : pc[c] = "idle"
  BY <1>1
<1>4. secStatus \in {0, -1, -2} /\ polls \in 0 .. 5
  BY <1>1
<1>5. missed \in BOOLEAN /\ lnb = sec
  BY <1>1
<1> QED
  BY <1>2, <1>3, <1>4, <1>5 DEF DishInv, Marked

LEMMA DishAsks ==
  ASSUME DishInv, NEW c \in Callers, Front!SecIoctl(c)
  PROVE  DishInv'
<1>1. PICK w \in Wires, b \in {0, 1} : Front!Store(c, Front!asked(w, b))
  BY DEF Front!SecIoctl, Front!Bits
<1> DEFINE s == Front!asked(w, b)
<1>2. s \in [Wires -> {0, 1}]
  BY DEF Front!asked, DishInv
<1> HIDE DEF s
<1>3. pc[c] = "idle" /\ sec' = s /\ UNCHANGED <<mid, lnb, polls>>
  BY <1>1 DEF Front!Store, Front!Dished, s
<1>4. CASE secStatus < 0 \/ mid = "philips"
  <2>1. missed' = TRUE /\ UNCHANGED <<pc, message, secStatus>>
    BY <1>1, <1>4 DEF Front!Store
  <2> QED BY <1>2, <1>3, <2>1 DEF DishInv
<1>5. CASE ~(secStatus < 0 \/ mid = "philips")
  <2>1. /\ pc' = [pc EXCEPT ![c] = "set"] /\ message' = s /\ secStatus' = -1 /\ missed' = FALSE
    BY <1>1, <1>5 DEF Front!Store, s
  <2>2. \A d \in Callers : pc[d] \in {"idle", "unmarked"}
    <3>1. secStatus # -1 /\ secStatus # -2 BY <1>5
    <3> QED BY <3>1 DEF DishInv
  <2>3. -1 # -2 /\ 0 # -1 OBVIOUS
  <2> QED BY <1>2, <1>3, <2>1, <2>2, <2>3 DEF DishInv, Marked
<1> QED
  BY <1>4, <1>5

LEMMA DishSent ==
  ASSUME DishInv, NEW c \in Callers, Front!SetSent(c)
  PROVE  DishInv'
<1>1. /\ pc[c] = "set" /\ pc' = [pc EXCEPT ![c] = "idle"]
      /\ lnb' = message /\ message' = [w \in Wires |-> 0] /\ secStatus' = 0
      /\ UNCHANGED <<mid, sec, polls, missed>>
  BY DEF Front!SetSent, Front!Off, Front!Dished
<1>2. \A d \in Callers : pc'[d] \in {"idle", "unmarked"}
  BY <1>1 DEF DishInv, Marked
<1> QED
  BY <1>1, <1>2 DEF DishInv, Marked

LEMMA DishLost ==
  ASSUME DishInv, NEW c \in Callers, Front!SetLost(c)
  PROVE  DishInv'
<1>1. /\ pc[c] = "set" /\ pc' = [pc EXCEPT ![c] = "idle"]
      /\ missed' = TRUE /\ message' = [w \in Wires |-> 0]
      /\ UNCHANGED <<mid, sec, lnb, secStatus, polls>>
  BY DEF Front!SetLost, Front!Off, Front!Dished
<1>2. \A d \in Callers : pc'[d] \in {"idle", "unmarked"}
  BY <1>1 DEF DishInv, Marked
<1> QED
  BY <1>1, <1>2 DEF DishInv, Marked

LEMMA DishCommand ==
  ASSUME DishInv, NEW c \in Callers, Front!Diseqc(c)
  PROVE  DishInv'
<1>1. /\ pc[c] = "idle" /\ secStatus = 0 /\ UNCHANGED <<mid, sec, lnb, message, missed>>
      /\ pc' = [pc EXCEPT ![c] = "diseqc"] /\ secStatus' = -2 /\ polls' = 5
  BY DEF Front!Diseqc, Front!Dished
<1>2. 0 # -1 /\ 0 # -2 /\ -1 # -2
  OBVIOUS
<1>3. \A d \in Callers : pc[d] \in {"idle", "unmarked"}
  BY <1>1, <1>2 DEF DishInv
<1> QED
  BY <1>1, <1>2, <1>3 DEF DishInv, Marked

LEMMA DishUnmarked ==
  ASSUME DishInv, NEW c \in Callers, Front!DiseqcUnmarked(c) \/ Front!UnmarkedSent(c)
  PROVE  DishInv'
<1>1. UNCHANGED <<mid, sec, lnb, secStatus, message, polls, missed>>
  BY DEF Front!DiseqcUnmarked, Front!UnmarkedSent, Front!Dished
<1>2. CASE pc[c] = "idle" /\ mid = "sagem" /\ pc' = [pc EXCEPT ![c] = "unmarked"]
  BY <1>1, <1>2 DEF DishInv, Marked
<1>3. CASE pc[c] = "unmarked" /\ pc' = [pc EXCEPT ![c] = "idle"]
  BY <1>1, <1>3 DEF DishInv, Marked
<1> QED
  BY <1>2, <1>3 DEF Front!DiseqcUnmarked, Front!UnmarkedSent

LEMMA DishPolls ==
  ASSUME DishInv, NEW c \in Callers, Front!DiseqcSent(c) \/ Front!DiseqcPoll(c)
  PROVE  DishInv'
<1>1. CASE Front!DiseqcSent(c)
  <2>1. /\ pc[c] = "diseqc" /\ pc' = [pc EXCEPT ![c] = "poll"]
        /\ UNCHANGED <<mid, sec, lnb, secStatus, message, polls, missed>>
    BY <1>1 DEF Front!DiseqcSent, Front!Dished
  <2> QED BY <2>1 DEF DishInv, Marked
<1>2. CASE Front!DiseqcPoll(c)
  <2>1. PICK done \in BOOLEAN, over \in BOOLEAN :
          /\ over = (done \/ polls = 1)
          /\ pc' = [pc EXCEPT ![c] = IF over THEN "idle" ELSE "poll"]
          /\ secStatus' = (IF over THEN 0 ELSE secStatus)
          /\ polls' = (IF over THEN 0 ELSE polls - 1)
    BY <1>2 DEF Front!DiseqcPoll
  <2>2. pc[c] = "poll" /\ UNCHANGED <<mid, sec, lnb, message, missed>>
    BY <1>2 DEF Front!DiseqcPoll, Front!Dished
  <2>3. -1 # -2 /\ 0 # -1 OBVIOUS
  <2>4. secStatus = -2 /\ polls \in 1 .. 5 /\ \A d \in Callers : d # c => pc[d] \in {"idle", "unmarked"}
    BY <2>2 DEF DishInv, Marked
  <2>5. CASE over
    <3>1. pc' = [pc EXCEPT ![c] = "idle"] /\ secStatus' = 0 /\ polls' = 0
      BY <2>1, <2>5
    <3>2. \A d \in Callers : pc'[d] \in {"idle", "unmarked"}
      BY <2>4, <3>1 DEF DishInv
    <3> QED BY <2>2, <2>3, <2>4, <3>1, <3>2 DEF DishInv, Marked
  <2>6. CASE ~over
    <3>1. pc' = [pc EXCEPT ![c] = "poll"] /\ secStatus' = secStatus /\ polls' = polls - 1 /\ polls # 1
      BY <2>1, <2>6
    <3>2. pc' = pc
      BY <2>2, <3>1 DEF DishInv
    <3>3. polls' \in 1 .. 5
      BY <2>4, <3>1
    <3> QED BY <2>2, <2>3, <2>4, <3>1, <3>2, <3>3 DEF DishInv
  <2> QED BY <2>5, <2>6
<1> QED
  BY <1>1, <1>2

LEMMA DishInvNext == DishInv /\ Front!Dish => DishInv'
BY DishAsks, DishSent, DishLost, DishCommand, DishUnmarked, DishPolls DEF Front!Dish

LEMMA DishInvStutter == DishInv /\ UNCHANGED Front!dish => DishInv'
BY DEF DishInv, Front!dish

LEMMA DishInvMeans == DishInv => Front!OneMessage /\ Front!DishFollows
<1> SUFFICES ASSUME DishInv PROVE Front!OneMessage /\ Front!DishFollows
  OBVIOUS
<1>1. Front!DishFollows
  BY DEF DishInv, Front!DishFollows
<1> DEFINE S == Front!marked
<1>2. S # {} => secStatus < 0
  BY DEF DishInv, Front!marked
<1>3. Cardinality(S) <= 1
  <2>1. S = {} \/ \E c \in Callers : S = {c}
    BY DEF DishInv, Front!marked, Marked
  <2> HIDE DEF S
  <2>2. CASE S = {} BY <2>2, FS_EmptySet
  <2>3. ASSUME NEW c \in Callers, S = {c} PROVE Cardinality(S) <= 1 BY <2>3, FS_Singleton
  <2> QED BY <2>1, <2>2, <2>3
<1>4. mid # "sagem" => \A c \in Callers : pc[c] # "unmarked"
  BY DEF DishInv
<1>5. Front!OneMessage
  BY <1>2, <1>3, <1>4 DEF Front!OneMessage, Front!Cardinality, Cardinality
<1> QED
  BY <1>1, <1>5

-----------------------------------------------------------------------------
(* The remote control, whatever its codes come between: the keys that are    *)
(* down are the one remembered, whose timer runs; and a new one, whose       *)
(* toggle bits are remembered too.                                           *)

RemoteKeys == Keys \ {"up"}

InputTyped ==
  /\ remote \in {"old", "new", "patched"}
  /\ code \in [Front!Queues -> SUBSET UNION {Front!Codes[q] : q \in Front!Queues}]
  /\ \A q \in Front!Queues : code[q] \subseteq Front!Codes[q]
  /\ frontIrq \in {"on", "off"}
  /\ frontTask \in {"idle", "scheduled", "status", "serve", "done", "crashed"}
  /\ todo \subseteq status /\ status \subseteq Front!Queues
  /\ last \in Keys \cup {"none"} /\ toggle \in {0, 1, 255}

InputInv ==
  /\ InputTyped
  /\ \A k \in down \cap RemoteKeys : last = k /\ timer
  /\ remote # "old" => \A k \in down \cap RemoteKeys : toggle # 255

LEMMA KeysAre == Keys \cap {"none", "break", "digit", "cursor", "fn_digit", "fn_cursor", "power"} = {}
BY PartsAssumption DEF Front!FrontProcessorAssumption

LEMMA CodesAre ==
  /\ 0 \in Front!Queues /\ 1 \in Front!Queues /\ 3 \in Front!Queues /\ 4 \in Front!Queues
  /\ Front!Codes[0] = Keys \cup {"break"}
  /\ Front!Codes[1] = {<<k, up>> : k \in {"fn", "digit", "cursor"}, up \in BOOLEAN}
  /\ Front!Codes[3] = Keys \X {0, 1}
  /\ Front!Codes[4] = {"up", "power"} \X BOOLEAN
BY DEF Front!Codes, Front!Queues, Front!Bits

LEMMA InputInvInit == Front!Init => InputInv
<1> SUFFICES ASSUME Front!Init PROVE InputInv
  OBVIOUS
<1>1. /\ remote \in {"old", "new", "patched"} /\ code = [q \in Front!Queues |-> {}] /\ frontIrq = "on"
      /\ frontTask = "idle" /\ status = {} /\ todo = {} /\ down = {} /\ last = "none" /\ toggle = 255
  BY DEF Front!Init, Front!None
<1> QED
  BY <1>1 DEF InputInv, InputTyped

\* What a handler leaves of the queue it serves.
LEMMA InputServes ==
  ASSUME InputInv, NEW q \in Front!Queues, Front!Serve(q)
  PROVE  /\ remote' = remote /\ frontIrq' = frontIrq /\ frontTask' = frontTask
         /\ todo' \subseteq status' /\ status' \subseteq Front!Queues
         /\ code' \in [Front!Queues -> SUBSET UNION {Front!Codes[p] : p \in Front!Queues}]
         /\ \A p \in Front!Queues : code'[p] \subseteq Front!Codes[p]
BY DEF Front!Serve, InputInv, InputTyped

LEMMA InputOld ==
  ASSUME InputInv, Front!dbox2_fp_old_rc_queue_handler
  PROVE  InputInv'
<1>1. PICK c \in code[0], over \in BOOLEAN, d \in SUBSET down :
        /\ d = (IF over /\ last # "none" THEN down \ {last} ELSE down)
        /\ over = (remote = "old" /\ (c = "break" \/ (last # "none" /\ c # last)))
        /\ CASE remote # "old" -> UNCHANGED <<down, last, timer>>
             [] remote = "old" /\ c = "break" -> down' = d /\ last' = "none" /\ timer' = FALSE
             [] OTHER -> /\ down' = (IF last = c THEN d ELSE d \cup {c})
                         /\ last' = c /\ timer' = TRUE
  BY DEF Front!dbox2_fp_old_rc_queue_handler, Front!None, Front!pressed, Front!released
<1>2. toggle' = toggle /\ Front!Serve(0)
  BY DEF Front!dbox2_fp_old_rc_queue_handler
<1>3. c \in Keys \cup {"break"}
  BY <1>1, CodesAre DEF InputInv, InputTyped
<1>4. /\ remote' = remote /\ frontIrq' = frontIrq /\ frontTask' = frontTask
      /\ todo' \subseteq status' /\ status' \subseteq Front!Queues
      /\ code' \in [Front!Queues -> SUBSET UNION {Front!Codes[p] : p \in Front!Queues}]
      /\ \A p \in Front!Queues : code'[p] \subseteq Front!Codes[p]
  BY <1>2, InputServes, CodesAre
<1>5. last' \in Keys \cup {"none"}
  BY <1>1, <1>3 DEF InputInv, InputTyped
<1>6. \A k \in d \cap RemoteKeys : k \in down /\ last = k /\ timer /\ ~over
  BY <1>1, KeysAre DEF InputInv, RemoteKeys
<1>7. \A k \in down' \cap RemoteKeys : last' = k /\ timer'
  <2>1. CASE remote # "old"
    BY <1>1, <2>1 DEF InputInv
  <2>2. CASE remote = "old" /\ c = "break"
    BY <1>1, <1>6, <2>2
  <2>3. CASE remote = "old" /\ c # "break"
    <3>1. down' = (IF last = c THEN d ELSE d \cup {c}) /\ last' = c /\ timer' = TRUE
      BY <1>1, <2>3
    <3>2. \A k \in d \cap RemoteKeys : k = c
      BY <1>1, <1>6, <2>3, KeysAre DEF RemoteKeys
    <3> QED BY <3>1, <3>2
  <2> QED BY <2>1, <2>2, <2>3
<1>8. remote # "old" => down' = down
  BY <1>1
<1> QED
  BY <1>2, <1>4, <1>5, <1>7, <1>8 DEF InputInv, InputTyped

LEMMA InputNew ==
  ASSUME InputInv, Front!dbox2_fp_new_rc_queue_handler
  PROVE  InputInv'
<1>1. Front!Serve(3)
  BY DEF Front!dbox2_fp_new_rc_queue_handler
<1>2. /\ remote' = remote /\ frontIrq' = frontIrq /\ frontTask' = frontTask
      /\ todo' \subseteq status' /\ status' \subseteq Front!Queues
      /\ code' \in [Front!Queues -> SUBSET UNION {Front!Codes[p] : p \in Front!Queues}]
      /\ \A p \in Front!Queues : code'[p] \subseteq Front!Codes[p]
  BY <1>1, InputServes, CodesAre
<1>3. CASE UNCHANGED <<down, last, toggle, timer>>
  BY <1>2, <1>3 DEF InputInv, InputTyped
<1>4. CASE ~UNCHANGED <<down, last, toggle, timer>>
  <2>1. PICK c \in code[3] :
          /\ remote # "old"
          /\ \E t \in {IF Front!over(c) THEN 255 ELSE toggle} :
               \E d \in {IF Front!over(c) THEN down \ {last} ELSE down} :
                 down' = (IF t = c[2] THEN d ELSE d \cup {c[1]})
          /\ last' = c[1] /\ toggle' = c[2] /\ timer' = TRUE
    BY <1>4 DEF Front!dbox2_fp_new_rc_queue_handler, Front!pressed, Front!released
  <2>2. c \in Keys \X {0, 1}
    BY CodesAre DEF InputInv, InputTyped
  <2>3. c[1] \in Keys /\ c[2] \in {0, 1} /\ c[2] # 255
    BY <2>2
  <2>4. PICK d : down' \subseteq d \cup {c[1]} /\ d = (IF Front!over(c) THEN down \ {last} ELSE down)
    BY <2>1
  <2>5. ASSUME NEW k \in d \cap RemoteKeys PROVE k = c[1]
    <3>1. k \in down /\ last = k /\ timer /\ toggle # 255
      BY <2>1, <2>4 DEF InputInv
    <3>2. last # "none"
      BY <3>1, KeysAre DEF RemoteKeys
    <3>3. ~Front!over(c)
      BY <2>4, <3>1
    <3> QED BY <3>1, <3>2, <3>3 DEF Front!over, Front!None
  <2>6. \A k \in down' \cap RemoteKeys : last' = k /\ timer' /\ toggle' # 255
    BY <2>1, <2>3, <2>4, <2>5
  <2>7. last' \in Keys \cup {"none"} /\ toggle' \in {0, 1, 255}
    BY <2>1, <2>3
  <2> QED BY <1>2, <2>6, <2>7 DEF InputInv, InputTyped
<1> QED
  BY <1>3, <1>4

LEMMA InputKeyUp ==
  ASSUME InputInv, Front!dbox2_fp_rc_keyup
  PROVE  InputInv'
<1>1. /\ timer' = FALSE /\ UNCHANGED <<remote, code, frontIrq, frontTask, status, todo>>
      /\ \/ last \in down /\ down' = down \ {last} /\ toggle' = 255 /\ last' = "none"
         \/ last \notin down /\ UNCHANGED <<down, toggle, last>>
  BY DEF Front!dbox2_fp_rc_keyup, Front!released, Front!None
<1>2. down' \cap RemoteKeys = {}
  BY <1>1 DEF InputInv
<1>3. last' \in Keys \cup {"none"} /\ toggle' \in {0, 1, 255}
  BY <1>1 DEF InputInv, InputTyped
<1> QED
  BY <1>1, <1>2, <1>3 DEF InputInv, InputTyped

LEMMA InputOthers ==
  ASSUME InputInv, \/ Front!dbox2_fp_keyboard_queue_handler \/ Front!dbox2_fp_mouse_queue_handler
                   \/ Front!dbox2_fp_button_queue_handler
  PROVE  InputInv'
<1>1. PICK q \in {1, 2, 4} : Front!Serve(q) /\ UNCHANGED <<last, toggle, timer>>
  BY DEF Front!dbox2_fp_keyboard_queue_handler, Front!dbox2_fp_mouse_queue_handler,
         Front!dbox2_fp_button_queue_handler, Front!rest
<1>2. /\ remote' = remote /\ frontIrq' = frontIrq /\ frontTask' = frontTask
      /\ todo' \subseteq status' /\ status' \subseteq Front!Queues
      /\ code' \in [Front!Queues -> SUBSET UNION {Front!Codes[p] : p \in Front!Queues}]
      /\ \A p \in Front!Queues : code'[p] \subseteq Front!Codes[p]
  <2>1. q \in Front!Queues BY DEF Front!Queues
  <2> QED BY <1>1, <2>1, InputServes
<1>3. down' \cap RemoteKeys \subseteq down
  <2>1. CASE Front!dbox2_fp_keyboard_queue_handler
    <3>1. PICK c \in code[1] :
            \/ down' = down
            \/ c[1] # "fn" /\ down' \subseteq down \cup {Front!keyboard_code(c[1])}
      BY <2>1 DEF Front!dbox2_fp_keyboard_queue_handler, Front!pressed, Front!released
    <3>2. c[1] \in {"fn", "digit", "cursor"}
      BY CodesAre DEF InputInv, InputTyped
    <3>3. c[1] # "fn" => Front!keyboard_code(c[1]) \in {"digit", "cursor", "fn_digit", "fn_cursor"}
      BY <3>2 DEF Front!keyboard_code
    <3> QED BY <3>1, <3>3, KeysAre DEF RemoteKeys
  <2>2. CASE Front!dbox2_fp_mouse_queue_handler
    BY <2>2 DEF Front!dbox2_fp_mouse_queue_handler
  <2>3. CASE Front!dbox2_fp_button_queue_handler
    <3>1. PICK c \in code[4] : down' \subseteq down \cup {c[1]}
      BY <2>3 DEF Front!dbox2_fp_button_queue_handler, Front!pressed, Front!released
    <3>2. c[1] \in {"up", "power"}
      BY CodesAre DEF InputInv, InputTyped
    <3> QED BY <3>1, <3>2, KeysAre DEF RemoteKeys
  <2> QED BY <2>1, <2>2, <2>3
<1> QED
  BY <1>1, <1>2, <1>3 DEF InputInv, InputTyped

LEMMA InputRest ==
  ASSUME InputInv,
         \/ \E q \in Front!Queues : Front!Press(q)
         \/ Front!fp_interrupt \/ Front!dbox2_fp_input_init \/ Front!dbox2_fp_input_exit
         \/ Front!ReadStatus \/ Front!RoundEnd \/ Front!TaskEnd
  PROVE  InputInv'
<1>1. UNCHANGED <<remote, down, last, toggle, timer>>
  BY DEF Front!Press, Front!fp_interrupt, Front!dbox2_fp_input_init, Front!dbox2_fp_input_exit,
         Front!ReadStatus, Front!RoundEnd, Front!TaskEnd
<1>2. /\ code' \in [Front!Queues -> SUBSET UNION {Front!Codes[p] : p \in Front!Queues}]
      /\ \A p \in Front!Queues : code'[p] \subseteq Front!Codes[p]
  <2>1. CASE code' = code
    BY <2>1 DEF InputInv, InputTyped
  <2>2. ASSUME NEW q \in Front!Queues, NEW c \in Front!Codes[q], code' = [code EXCEPT ![q] = {c}]
        PROVE  /\ code' \in [Front!Queues -> SUBSET UNION {Front!Codes[p] : p \in Front!Queues}]
               /\ \A p \in Front!Queues : code'[p] \subseteq Front!Codes[p]
    BY <2>2 DEF InputInv, InputTyped
  <2>3. code' = code \/ \E q \in Front!Queues : \E c \in Front!Codes[q] : code' = [code EXCEPT ![q] = {c}]
    BY DEF Front!Press, Front!fp_interrupt, Front!dbox2_fp_input_init, Front!dbox2_fp_input_exit,
           Front!ReadStatus, Front!RoundEnd, Front!TaskEnd
  <2> QED BY <2>1, <2>2, <2>3
<1>3. /\ frontIrq' \in {"on", "off"}
      /\ frontTask' \in {"idle", "scheduled", "status", "serve", "done", "crashed"}
  BY DEF Front!Press, Front!fp_interrupt, Front!dbox2_fp_input_init, Front!dbox2_fp_input_exit,
         Front!ReadStatus, Front!RoundEnd, Front!TaskEnd, InputInv, InputTyped
<1>4. todo' \subseteq status' /\ status' \subseteq Front!Queues
  BY DEF Front!Press, Front!fp_interrupt, Front!dbox2_fp_input_init, Front!dbox2_fp_input_exit,
         Front!ReadStatus, Front!RoundEnd, Front!TaskEnd, Front!Waiting, InputInv, InputTyped
<1> QED
  BY <1>1, <1>2, <1>3, <1>4 DEF InputInv, InputTyped

LEMMA InputInvNext == InputInv /\ Front!Inputs => InputInv'
BY InputOld, InputNew, InputKeyUp, InputOthers, InputRest DEF Front!Inputs

LEMMA InputInvStutter == InputInv /\ UNCHANGED Front!input => InputInv'
BY DEF InputInv, InputTyped, Front!input

LEMMA FrontInvMeans == InputInv /\ DishInv => Front!TypeOK /\ Front!HeldKeyTimesOut
BY DEF InputInv, InputTyped, DishInv, Front!TypeOK, Front!HeldKeyTimesOut, Front!None, Front!Bits,
       RemoteKeys

-----------------------------------------------------------------------------
(* The queue of the CAM, for every length of it and of the messages.         *)

LEMMA QueueWholeStep ==
  ASSUME TypeOK, QueueWhole, [Next]_vars
  PROVE  QueueWhole'
<1> USE CamAssumption DEF TypeOK, QueueWhole, bytes
<1>0. CASE UNCHANGED <<queue>>
  BY <1>0 DEF queue
<1>1. CASE Flush
  <2>1. wptr' = rptr /\ rptr' = rptr /\ unread' = 0 /\ at_end' = (at_end \/ rptr = Size)
    BY <1>1 DEF Flush
  <2>2. CASE rptr = Size
    BY <2>1, <2>2
  <2>3. CASE rptr # Size
    <3>1. bytes' = 0 /\ rptr < Size
      BY <2>1, <2>3
    <3> QED BY <2>1, <3>1
  <2> QED BY <2>2, <2>3
<1>2. ASSUME NEW len \in Lengths, ReceiveMessage(len) PROVE QueueWhole'
  <2>1. CASE ~fits(len)
    BY <1>1, <1>2, <2>1 DEF ReceiveMessage
  <2>2. CASE fits(len)
    <3>1. /\ wptr < Size /\ wptr' = (wptr + len) % Size
          /\ unread' = IF unread + len > Size THEN Size ELSE unread + len
          /\ tight' = (tight \/ unread + len >= Size) /\ rptr' = rptr /\ at_end' = at_end
      BY <1>2, <2>2 DEF ReceiveMessage
    <3>2. CASE tight \/ at_end \/ unread + len >= Size
      BY <3>1, <3>2
    <3>3. CASE ~tight /\ ~at_end /\ unread + len < Size
      <4>1. bytes = unread /\ len \in 2 .. Size
        BY <3>3
      <4>2. wptr' = (IF wptr + len < Size THEN wptr + len ELSE wptr + len - Size)
        BY <3>1, <4>1
      <4> QED BY <3>1, <3>3, <4>1, <4>2
    <3> QED BY <3>2, <3>3
  <2> QED BY <2>1, <2>2
<1>3. ASSUME NEW count \in Counts, Read(count) PROVE QueueWhole'
  <2>1. PICK cb \in {IF count < bytes THEN count ELSE bytes} :
          /\ rptr' = IF rptr + cb > Size THEN cb - (Size - rptr) ELSE rptr + cb
          /\ unread' = IF unread < cb THEN 0 ELSE unread - cb
    BY <1>3 DEF Read
  <2>2. cb \in 0 .. bytes /\ bytes \in 0 .. Size
    BY <2>1
  <2>3. UNCHANGED <<wptr, tight, at_end>>
    BY <1>3 DEF Read
  <2> QED BY <2>1, <2>2, <2>3
<1>4. \/ UNCHANGED <<queue>> \/ Flush
      \/ \E len \in Lengths : ReceiveMessage(len)
      \/ \E count \in Counts : Read(count)
  BY DEF Next, vars, queue, Interrupt, TaskDown, ReceiveFails, ReceiveCaid, TaskSends, TaskSent,
         TaskEnd, TaskInterrupted, AnswerFails, WriteBegin, WriteEnd
<1> QED
  BY <1>0, <1>1, <1>2, <1>3, <1>4

(* Read from the queue, a message is whole.                                  *)
THEOREM CamQueueWhole == Spec => []QueueWhole
<1>1. Init => QueueWhole
  BY CamAssumption DEF Init, QueueWhole, bytes
<1>2. CamInv /\ QueueWhole /\ [Next]_vars => QueueWhole'
  BY QueueWholeStep DEF CamInv
<1> QED
  BY <1>1, <1>2, CamInvHolds, PTL DEF Spec

-----------------------------------------------------------------------------
ArriveInv ==
  /\ component = "cam" => CamInv /\ QueueWhole
  /\ component \in {"bus", "clock"} => BusInv /\ TimeInv
  /\ component \in {"inputs", "dish", "service"} => InputInv /\ DishInv

LEMMA ArriveInvInit == AnyInit => ArriveInv
<1>1. Init => QueueWhole
  BY CamAssumption DEF Init, QueueWhole, bytes
<1> QED
  BY <1>1, CamInvInit, BusInvInit, TimeInvInit, InputInvInit, DishInvInit DEF AnyInit, ArriveInv

LEMMA ArriveInvNext == ArriveInv /\ [AnyNext]_anyVars => ArriveInv'
<1> SUFFICES ASSUME ArriveInv, [AnyNext]_anyVars PROVE ArriveInv'
  OBVIOUS
<1>1. CASE Main
  <2>1. component = "cam" /\ Next /\ component' = component
    BY <1>1 DEF Main
  <2> QED BY <2>1, CamInvStep, QueueWholeStep DEF ArriveInv, CamInv
<1>2. CASE RunBus
  <2>1. component = "bus" /\ I2c!Bus /\ component' = component
    BY <1>2 DEF RunBus
  <2>2. UNCHANGED I2c!clock
    BY <2>1 DEF I2c!Bus, I2c!Controller, I2c!Call, I2c!Start, I2c!SleepEnds, I2c!Finish, I2c!clock
  <2> QED BY <2>1, <2>2, BusInvNext, TimeInvStutter DEF ArriveInv
<1>3. CASE RunClock
  <2>1. component = "clock" /\ I2c!Clock /\ component' = component
    BY <1>3 DEF RunClock
  <2>2. UNCHANGED I2c!controller
    BY <2>1 DEF I2c!Clock, I2c!RTC_SET_TIME, I2c!ds1307_writereg, I2c!RTC_RD_TIME,
                I2c!ds1307_readreg, I2c!Tick, I2c!controller
  <2> QED BY <2>1, <2>2, TimeInvNext, BusInvStutter DEF ArriveInv
<1>4. CASE RunInputs
  <2>1. component = "inputs" /\ Front!Inputs /\ component' = component
    BY <1>4 DEF RunInputs
  <2>2. UNCHANGED Front!dish
    BY <2>1 DEF Front!Inputs, Front!Press, Front!fp_interrupt, Front!dbox2_fp_input_init,
                Front!dbox2_fp_input_exit, Front!ReadStatus, Front!RoundEnd, Front!TaskEnd,
                Front!dbox2_fp_old_rc_queue_handler, Front!dbox2_fp_new_rc_queue_handler,
                Front!dbox2_fp_rc_keyup, Front!dbox2_fp_keyboard_queue_handler,
                Front!dbox2_fp_mouse_queue_handler, Front!dbox2_fp_button_queue_handler,
                Front!Serve, Front!dish
  <2> QED BY <2>1, <2>2, InputInvNext, DishInvStutter DEF ArriveInv
<1>5. CASE RunDish
  <2>1. component = "dish" /\ Front!Dish /\ component' = component
    BY <1>5 DEF RunDish
  <2>2. UNCHANGED Front!input
    BY <2>1 DEF Front!Dish, Front!SecIoctl, Front!Store, Front!SetSent, Front!SetLost, Front!Diseqc,
                Front!DiseqcSent, Front!DiseqcPoll, Front!DiseqcUnmarked, Front!UnmarkedSent, Front!Dished,
                Front!input
  <2> QED BY <2>1, <2>2, DishInvNext, InputInvStutter DEF ArriveInv
<1>6. CASE RunService
  <2>1. component = "service" /\ component' = component /\ UNCHANGED Front!input /\ UNCHANGED Front!dish
    BY <1>6 DEF RunService, Front!Service, Front!dbox2_fp_timer_set, Front!dbox2_fp_timer_clear,
                Front!PowerOff, Front!input, Front!dish
  <2> QED BY <2>1, DishInvStutter, InputInvStutter DEF ArriveInv
<1>7. CASE component' = component /\ UNCHANGED vars /\ UNCHANGED i2cVars /\ UNCHANGED frontVars
  <2>1. /\ UNCHANGED I2c!controller /\ UNCHANGED I2c!clock
        /\ UNCHANGED Front!input /\ UNCHANGED Front!dish
    BY <1>7 DEF i2cVars, frontVars, I2c!controller, I2c!clock, Front!input, Front!dish
  <2> QED
    BY <1>7, <2>1, CamInvStep, QueueWholeStep, BusInvStutter, TimeInvStutter, InputInvStutter,
       DishInvStutter DEF ArriveInv, CamInv
<1>8. ASSUME ~Main, ~RunBus, ~RunClock, ~RunInputs, ~RunDish, ~RunService
      PROVE  component' = component /\ UNCHANGED vars /\ UNCHANGED i2cVars /\ UNCHANGED frontVars
  BY <1>8 DEF AnyNext, anyVars, RunSettings, RunWatch, RunDisplay, RunDisk, RunWiring, RunIde, RunDrivers
<1> QED
  BY <1>1, <1>2, <1>3, <1>4, <1>5, <1>6, <1>7, <1>8

LEMMA ArriveInvHolds == AnySpec => []ArriveInv
BY ArriveInvInit, ArriveInvNext, PTL DEF AnySpec

(* What goes over the I2C bus arrives: for every transfer that receives      *)
(* last, every time a clock is set to, every number of callers, every        *)
(* value of the dish, every code of the remote control, and every message    *)
(* of the CAM.                                                               *)
THEOREM MessagesArriveHolds == AnySpec => []MessagesArrive
<1>1. BusInv /\ TimeInv => I2c!TypeOK
  BY FieldsAre DEF BusInv, BusTyped, TimeInv, TimeTyped, I2c!TypeOK, Fields
<1>2. ArriveInv => MessagesArrive
  BY <1>1, BusInvMeans, TimeInvMeans, FrontInvMeans, DishInvMeans DEF ArriveInv, MessagesArrive, CamInv
<1> QED
  BY <1>2, ArriveInvHolds, PTL
=============================================================================
