---------------------------- MODULE OutputProofs ----------------------------
(***************************************************************************)
(* Proofs about what Translator leaves behind, for every set of files,     *)
(* size of the address space and origin: what the first pass makes an RTS  *)
(* return to, the function the second pass emits, and that it branches as  *)
(* the guest program does.                                                 *)
(***************************************************************************)
EXTENDS TranslatorProofs, Indices

------------------------------------------------------------------------------
(* The first pass.                                                         *)

\* The types of what the passes share.
LEMMA BufferTyped ==
  ASSUME TypeOK
  PROVE  /\ Len(buf) \in Nat /\ buf \in Seq(IData) /\ i \in Nat \ {0}
         /\ starts1 \subseteq 1..Len(buf)
         /\ \A p \in 1..Len(buf) : /\ buf[p].byte \in Byte
                                   /\ buf[p].addr \in Addr
                                   /\ buf[p].addr # NoLabel
  <1>1. buf \in Seq(IData) /\ i \in Nat \ {0} /\ starts1 \subseteq 1..Len(buf)
    BY DEF TypeOK
  <1>2. \A p \in 1..Len(buf) : buf[p] \in IData
    BY <1>1
  <1> QED BY <1>1, <1>2 DEF IData, Addr, NoLabel

(* A step of the first pass over an instruction with a callback: it labels *)
(* the elements at ps and creates their blocks; ps are the next            *)
(* instruction and, for a branch or a jump, its target.                    *)
Labels(ps, target) ==
  /\ ps \subseteq 1..Len(buf)
  /\ i' \in ps
  /\ ps \subseteq {target, i'}
  /\ target \in {0} \cup ps
  /\ buf' = Labelled(ps, target)
  /\ bbMap' = bbMap \cup {buf[p].addr : p \in ps}

\* A step of the first pass only skips or labels.
LEMMA PpStepLabels ==
  ASSUME TypeOK, PpStep
  PROVE  \/ PpSkip
         \/ \E ps, target : Labels(ps, target)
  <1>0. Len(buf) \in Nat /\ i \in Nat \ {0}
    BY BufferTyped
  <1>1. CASE _pp_mklb0
    <2>1. /\ i + 1 \in 1..Len(buf) /\ i' = i + 1
          /\ buf' = Labelled({i + 1}, 0)
          /\ bbMap' = bbMap \cup {buf[i + 1].addr}
      BY <1>1 DEF _pp_mklb0, AtPreprocess, PpInBounds, PpNext, InBuffer
    <2>2. Labels({i + 1}, 0)
      BY <2>1 DEF Labels
    <2> QED BY <2>2
  <1>2. CASE _pp_mklb1
    <2> DEFINE t == RelativeTarget
    <2>1. /\ i + 2 \in 1..Len(buf) /\ i' = i + 2 /\ t \in 1..Len(buf)
          /\ buf' = Labelled({t, i + 2}, t)
          /\ bbMap' = bbMap \cup {buf[t].addr, buf[i + 2].addr}
      BY <1>2 DEF _pp_mklb1, AtPreprocess, PpInBounds, PpNext, InBuffer
    <2> HIDE DEF t
    <2>2. Labels({t, i + 2}, t)
      BY <2>1 DEF Labels
    <2> QED BY <2>2
  <1>3. CASE _pp_mklb2
    <2> DEFINE t == AbsoluteTarget
    <2>1. /\ i + 3 \in 1..Len(buf) /\ i' = i + 3 /\ t \in 1..Len(buf)
          /\ buf' = Labelled({t, i + 3}, t)
          /\ bbMap' = bbMap \cup {buf[t].addr, buf[i + 3].addr}
      BY <1>3 DEF _pp_mklb2, AtPreprocess, PpInBounds, PpNext, InBuffer
    <2> HIDE DEF t
    <2>2. Labels({t, i + 3}, t)
      BY <2>1 DEF Labels
    <2> QED BY <2>2
  <1> QED BY <1>1, <1>2, <1>3 DEF PpStep

(* What the first pass builds.  A label is the address of its element,     *)
(* every block but the entry block has its label on some element, and      *)
(* the entry block has the address of the first one.                       *)
LabelIsAddr == \A p \in 1..Len(buf) : buf[p].label \in {NoLabel, buf[p].addr}
MapIsLabels ==
  \A a \in bbMap : a = Origin \/ \E p \in 1..Len(buf) : buf[p].label = a
FirstIsOrigin == Len(buf) > 1 => buf[1].addr = Origin
Layout == LabelIsAddr /\ MapIsLabels /\ FirstIsOrigin

\* The layout holds at first.
LEMMA InitLayout == Init => Layout
  <1> SUFFICES ASSUME Init PROVE Layout
    OBVIOUS
  <1>1. PICK image \in Images : buf = Load(image)
    BY DEF Init
  <1>2. LabelIsAddr
    BY <1>1, LoadIsBuffer DEF LabelIsAddr
  <1>3. MapIsLabels
    BY DEF MapIsLabels, Init
  <1>4. FirstIsOrigin
    <2>1. SUFFICES ASSUME Len(buf) > 1 PROVE buf[1].addr = Origin
      BY DEF FirstIsOrigin
    <2>2. Len(image) \in Nat /\ Len(image) >= 1
      BY <1>1, <2>1, LoadIsBuffer
    <2>3. buf[1].addr = (Origin + 1 - 1) % AddrSpace
      BY <1>1, <2>2 DEF Load
    <2>4. Origin + 1 - 1 = Origin /\ Origin \in 0..(AddrSpace - 1)
      BY OriginAssumption, AddrSpaceAssumption
    <2> QED BY <2>3, <2>4, AddrSpaceAssumption
  <1> QED BY <1>2, <1>3, <1>4 DEF Layout

\* Every step keeps it.
LEMMA NextLayout == TypeOK /\ Layout /\ [Next]_vars => Layout'
  <1> SUFFICES ASSUME TypeOK, Layout, [Next]_vars PROVE Layout'
    OBVIOUS
  <1>1. CASE UNCHANGED <<buf, bbMap>>
    BY <1>1 DEF Layout, LabelIsAddr, MapIsLabels, FirstIsOrigin
  <1>2. ASSUME NEW ps, NEW target, Labels(ps, target) PROVE Layout'
    <2>1. /\ Len(buf') = Len(buf)
          /\ \A p \in 1..Len(buf) :
               /\ buf'[p].addr = buf[p].addr
               /\ buf'[p].label = IF p \in ps THEN buf[p].addr ELSE buf[p].label
      <3>1. buf \in Seq(IData) /\ target \in {0} \cup 1..Len(buf)
        BY <1>2, BufferTyped DEF Labels
      <3> QED BY <1>2, <3>1, LabelledKeeps DEF Labels
    <2>2. LabelIsAddr'
      BY <2>1 DEF Layout, LabelIsAddr
    <2>3. MapIsLabels'
      <3>1. SUFFICES ASSUME NEW a \in bbMap', a # Origin
                     PROVE  \E p \in 1..Len(buf) : buf'[p].label = a
        BY <2>1 DEF MapIsLabels
      <3>2. CASE a \in bbMap
        <4>1. PICK p \in 1..Len(buf) : buf[p].label = a
          BY <3>1, <3>2 DEF Layout, MapIsLabels
        <4>2. CASE p \in ps
          <5>1. buf[p].label # NoLabel => buf'[p].label = a
            BY <2>1, <4>1, <4>2 DEF Layout, LabelIsAddr
          <5>2. a # NoLabel
            BY <3>2 DEF TypeOK, Addr, NoLabel
          <5> QED BY <4>1, <5>1, <5>2
        <4>3. CASE p \notin ps
          BY <2>1, <4>1, <4>3
        <4> QED BY <4>2, <4>3
      <3>3. CASE a \notin bbMap
        <4>1. PICK p \in ps : a = buf[p].addr
          BY <1>2, <3>3 DEF Labels
        <4> QED BY <1>2, <2>1, <4>1 DEF Labels
      <3> QED BY <3>2, <3>3
    <2>4. FirstIsOrigin'
      BY <2>1, BufferTyped DEF Layout, FirstIsOrigin
    <2> QED BY <2>2, <2>3, <2>4 DEF Layout
  <1>3. CASE PpStep
    <2>1. CASE PpSkip
      BY <1>1, <2>1 DEF PpSkip
    <2> QED BY <1>2, <1>3, <2>1, PpStepLabels
  <1>4. CASE PpDone
    BY <1>1, <1>4 DEF PpDone, passVars
  <1>5. CASE UNCHANGED passVars
    BY <1>1, <1>5 DEF passVars
  <1> QED BY <1>3, <1>4, <1>5, OtherSteps

------------------------------------------------------------------------------
(* What an RTS returns to.                                                 *)

(* The block at a is one ReturnsReachable allows after a JSR.              *)
Reached(a) == \/ a = Origin
              \/ \E q \in starts1 : buf[q].dst = a
              \/ \E m \in 1..Len(indBrDests) : indBrDests[m] = a

(* During the first pass every block there is belongs to the entry, to     *)
(* the destination of an instruction gone over, or to an element not past  *)
(* the iterator: the block after the JSR at hand, further on, is new       *)
(* unless a branch made it.                                                *)
Known ==
  phase = "preprocess" =>
    /\ \A p \in starts1 : p < i
    /\ \A a \in bbMap : \/ a = Origin
                        \/ \E q \in starts1 : buf[q].dst = a
                        \/ \E p \in 1..Len(buf) : p <= i /\ buf[p].addr = a
AllReached == UniqueAddrs => \A p \in JSRs : Reached(buf[p + 3].addr)
ReturnsInv == Known /\ AllReached

\* Every step keeps the labels that an RTS returns to.
LEMMA NextReturns ==
  TypeOK /\ LabelsInv /\ ReturnsInv /\ [Next]_vars => ReturnsInv'
  <1> SUFFICES ASSUME TypeOK, LabelsInv, ReturnsInv, [Next]_vars
               PROVE  ReturnsInv'
    OBVIOUS
  <1>0. /\ Len(buf) \in Nat /\ i \in Nat \ {0} /\ starts1 \subseteq 1..Len(buf)
        /\ indBrDests \in Seq(Addr)
    BY BufferTyped DEF TypeOK
  <1>1. CASE PpStep /\ phase = "preprocess" /\ phase' = "preprocess"
    <2>1. Grows
      BY <1>1, PpStepEffect
    <2>2. /\ \A p \in starts1 : p < i
          /\ \A a \in bbMap : \/ a = Origin
                              \/ \E q \in starts1 : buf[q].dst = a
                              \/ \E p \in 1..Len(buf) : p <= i /\ buf[p].addr = a
      BY <1>1 DEF ReturnsInv, Known
    <2>3. \A q \in starts1 : q \in starts1' /\ buf'[q].dst = buf[q].dst
      BY <1>0, <2>1, <2>2 DEF Grows
    <2>4. /\ i \in starts1' /\ i' > i /\ i' \in Nat /\ Len(buf') = Len(buf)
          /\ \A p \in 1..Len(buf) : buf'[p].addr = buf[p].addr
      BY <2>1 DEF Grows
    <2>5. ASSUME NEW ps, NEW target, Labels(ps, target)
          PROVE  \A p \in ps : \/ p \in 1..Len(buf) /\ p <= i'
                               \/ buf'[i].dst = buf[p].addr
      <3>1. SUFFICES ASSUME NEW p \in ps, p # i'
                     PROVE  buf'[i].dst = buf[p].addr
        BY <2>4, <2>5 DEF Labels
      <3>2. p = target /\ p \in 1..Len(buf) /\ i \in 1..Len(buf)
        BY <2>1, <2>5, <3>1 DEF Labels, Grows
      <3> QED BY <2>5, <3>2, BufferTyped, LabelledKeeps DEF Labels
    <2>6. Known'
      <3>1. \A p \in starts1' : p < i'
        <4>1. starts1' = starts1 \cup {i}
          BY <2>1 DEF Grows
        <4>2. \A p \in starts1 : p \in Nat /\ p < i
          BY <1>0, <2>2
        <4> QED BY <1>0, <2>4, <4>1, <4>2
      <3>2. ASSUME NEW a \in bbMap', a # Origin
            PROVE  \/ \E q \in starts1' : buf'[q].dst = a
                   \/ \E p \in 1..Len(buf) : p <= i' /\ buf'[p].addr = a
        <4>1. CASE a \in bbMap
          BY <1>0, <2>2, <2>3, <2>4, <3>2, <4>1
        <4>2. CASE a \notin bbMap
          <5>1. PICK ps, target : Labels(ps, target)
            BY <1>1, <4>2, PpStepLabels DEF PpSkip
          <5>2. PICK p \in ps : a = buf[p].addr /\ p \in 1..Len(buf)
            BY <4>2, <5>1 DEF Labels
          <5> QED BY <2>4, <2>5, <5>1, <5>2
        <4> QED BY <4>1, <4>2
      <3> QED BY <2>4, <3>1, <3>2 DEF Known
    <2>7. AllReached'
      <3>1. SUFFICES ASSUME UniqueAddrs', NEW p \in JSRs'
                     PROVE  Reached(buf[p + 3].addr)'
        BY DEF AllReached
      <3>2. UniqueAddrs
        BY <2>4, <3>1 DEF UniqueAddrs
      <3>3. /\ p \in 1..Len(buf) /\ buf[p].byte = \h20 /\ p \in starts1 \cup {i}
        BY <1>0, <2>1 DEF JSRs, Grows
      <3>4. ppCb[buf[p].byte] = "mklb2"
        BY <3>3 DEF ppCb, Byte
      <3>5. ASSUME NEW a, Reached(a) PROVE Reached(a)'
        <4>1. CASE \E m \in 1..Len(indBrDests) : indBrDests[m] = a
          <5>1. \/ indBrDests' = indBrDests
                \/ \E e \in Addr : indBrDests' = Append(indBrDests, e)
            <6>1. CASE _pp_mklb2
              <7>1. i + 3 \in 1..Len(buf)
                BY <6>1 DEF _pp_mklb2, AtPreprocess, PpInBounds, PpNext, InBuffer
              <7>2. buf[i + 3].addr \in Addr
                BY <7>1, BufferTyped
              <7> QED BY <6>1, <7>2 DEF _pp_mklb2
            <6>2. CASE ~_pp_mklb2
              BY <1>1, <6>2 DEF PpStep, PpSkip, _pp_mklb0, _pp_mklb1
            <6> QED BY <6>1, <6>2
          <5> QED BY <1>0, <4>1, <5>1 DEF Reached
        <4>2. CASE ~\E m \in 1..Len(indBrDests) : indBrDests[m] = a
          BY <2>3, <3>5, <4>2 DEF Reached
        <4> QED BY <4>1, <4>2
      <3>6. CASE p \in starts1
        <4>1. p + 3 <= Len(buf) /\ p + 3 \in 1..Len(buf)
          BY <1>0, <3>3, <3>4, <3>6 DEF LabelsInv, Preprocessed
        <4>2. Reached(buf[p + 3].addr)
          BY <3>2, <3>3, <3>6 DEF ReturnsInv, AllReached, JSRs
        <4> QED BY <2>4, <3>5, <4>1, <4>2
      <3>7. CASE p = i /\ p \notin starts1
        <4> DEFINE t    == AbsoluteTarget
                   next == buf[i + 3].addr
        <4>1. _pp_mklb2
          BY <1>1, <3>4, <3>7
             DEF PpStep, PpSkip, _pp_mklb0, _pp_mklb1, AtPreprocess, NoCb
        <4>2. /\ i + 3 \in 1..Len(buf) /\ i \in 1..Len(buf) /\ t \in 1..Len(buf)
              /\ buf' = Labelled({t, i + 3}, t)
          BY <4>1 DEF _pp_mklb2, AtPreprocess, PpInBounds, PpNext, InBuffer
        <4>3. indBrDests' = IF next \notin bbMap \cup {buf[t].addr}
                            THEN Append(indBrDests, next) ELSE indBrDests
          BY <3>3, <3>7, <4>1 DEF _pp_mklb2, IsJSR
        <4>4. next \in Addr /\ buf'[i + 3].addr = next
          BY <2>4, <4>2, BufferTyped
        <4> HIDE DEF t
        <4>5. buf'[i].dst = buf[t].addr
          BY <4>2, BufferTyped, LabelledKeeps
        <4>6. CASE next \notin bbMap \cup {buf[t].addr}
          <5>1. indBrDests' = Append(indBrDests, next)
            BY <4>3, <4>6
          <5>2. Len(indBrDests') \in 1..Len(indBrDests')
                /\ indBrDests'[Len(indBrDests')] = next
            BY <1>0, <4>4, <5>1
          <5> QED BY <3>7, <4>4, <5>2 DEF Reached
        <4>7. CASE next = buf[t].addr
          BY <2>4, <3>7, <4>4, <4>5, <4>7 DEF Reached
        <4>8. CASE next \in bbMap
          <5>1. ~\E r \in 1..Len(buf) : r <= i /\ buf[r].addr = next
            BY <1>0, <3>2, <4>2 DEF UniqueAddrs
          <5>2. next = Origin \/ \E q \in starts1 : buf[q].dst = next
            BY <2>2, <4>8, <5>1
          <5>3. Reached(next)
            BY <5>2 DEF Reached
          <5> QED BY <3>5, <3>7, <4>4, <5>3
        <4> QED BY <4>6, <4>7, <4>8
      <3> QED BY <3>3, <3>6, <3>7
    <2> QED BY <2>6, <2>7 DEF ReturnsInv
  <1>2. CASE UNCHANGED passVars /\ (phase' = "preprocess" => phase = phase' /\ i' = i)
    BY <1>2 DEF passVars, ReturnsInv, Known, AllReached, UniqueAddrs, JSRs, Reached
  <1>3. CASE PpDone
    BY <1>2, <1>3 DEF PpDone
  <1> QED BY <1>1, <1>2, <1>3, OtherSteps

(* After the first pass, in a buffer without wrapped addresses, the block  *)
(* after every JSR is a destination of RTS, unless it is the entry block   *)
(* or some branch jumps to it: the one way a registration gets lost.       *)
THEOREM ReturnsCorrect == Spec => []ReturnsReachable
  <1>1. Init => ReturnsInv
    BY DEF Init, ReturnsInv, Known, AllReached, JSRs
  <1>2. ReturnsInv => ReturnsReachable
    BY DEF ReturnsInv, AllReached, Reached, ReturnsReachable
  <1> QED BY <1>1, <1>2, NextReturns, LabelsInvariant, PTL DEF Spec

------------------------------------------------------------------------------
(* The code of the blocks.                                                 *)

(* c is the code of a function whose blocks in closed have their            *)
(* terminator, as their last entry and nowhere else, and whose blocks in    *)
(* open have none yet.                                                     *)
Arranged(c, closed, open) ==
  /\ \A n \in 1..Len(c) :
       /\ c[n].bb \in closed \cup open
       /\ c[n].bb \in open => c[n].op \notin Terminators
       /\ c[n].bb \in closed =>
            (c[n].op \in Terminators
               <=> \A l \in 1..Len(c) : c[l].bb = c[n].bb => l <= n)
  /\ \A bb \in closed : \E n \in 1..Len(c) : c[n].bb = bb

\* What appending an entry does to a sequence of code.
LEMMA Appended ==
  ASSUME NEW c \in Seq(IRCode), NEW e \in IRCode
  PROVE  /\ Append(c, e) \in Seq(IRCode)
         /\ Len(Append(c, e)) = Len(c) + 1 /\ Len(c) \in Nat
         /\ \A n \in 1..Len(c) : Append(c, e)[n] = c[n]
         /\ Append(c, e)[Len(c) + 1] = e
  OBVIOUS

\* An entry that transfers no control leaves the block open.
LEMMA Extended ==
  ASSUME NEW c \in Seq(IRCode), NEW closed, NEW bb, bb \notin closed,
         Arranged(c, closed, {bb}),
         NEW e \in IRCode, e.bb = bb, e.op \notin Terminators
  PROVE  Arranged(Append(c, e), closed, {bb})
  <1> DEFINE d == Append(c, e)
  <1>1. /\ Len(d) = Len(c) + 1 /\ Len(c) \in Nat
        /\ \A n \in 1..Len(c) : d[n] = c[n]
        /\ d[Len(c) + 1] = e
    BY Appended
  <1> HIDE DEF d
  <1>2. ASSUME NEW n \in 1..Len(d)
        PROVE  /\ d[n].bb \in closed \cup {bb}
               /\ d[n].bb \in {bb} => d[n].op \notin Terminators
               /\ d[n].bb \in closed =>
                    (d[n].op \in Terminators
                       <=> \A l \in 1..Len(d) : d[l].bb = d[n].bb => l <= n)
    <2>1. CASE n = Len(c) + 1
      BY <1>1, <2>1
    <2>2. CASE n \in 1..Len(c)
      <3>1. d[n] = c[n]
        BY <1>1, <2>2
      <3>2. /\ c[n].bb \in closed \cup {bb}
            /\ c[n].bb \in {bb} => c[n].op \notin Terminators
            /\ c[n].bb \in closed =>
                 (c[n].op \in Terminators
                    <=> \A l \in 1..Len(c) : c[l].bb = c[n].bb => l <= n)
        BY <2>2 DEF Arranged
      <3>3. CASE c[n].bb = bb
        BY <3>1, <3>2, <3>3
      <3>4. CASE c[n].bb \in closed
        <4>1. \A l \in 1..Len(d) : d[l].bb = c[n].bb
                                     => l \in 1..Len(c) /\ d[l] = c[l]
          BY <1>1, <3>4
        <4>2. (\A l \in 1..Len(d) : d[l].bb = c[n].bb => l <= n)
              <=> (\A l \in 1..Len(c) : c[l].bb = c[n].bb => l <= n)
          BY <1>1, <4>1
        <4> QED BY <3>1, <3>2, <3>4, <4>2
      <3> QED BY <3>2, <3>3, <3>4
    <2> QED BY <1>1, <2>1, <2>2
  <1>3. \A b \in closed : \E n \in 1..Len(d) : d[n].bb = b
    <2>1. ASSUME NEW b \in closed PROVE \E n \in 1..Len(d) : d[n].bb = b
      <3>1. PICK n \in 1..Len(c) : c[n].bb = b
        BY DEF Arranged
      <3> QED BY <1>1, <3>1
    <2> QED BY <2>1
  <1>4. Arranged(d, closed, {bb})
    BY <1>2, <1>3 DEF Arranged
  <1> QED BY <1>4 DEF d

\* A terminator closes the block, and another one may be opened.
LEMMA Closed ==
  ASSUME NEW c \in Seq(IRCode), NEW closed, NEW bb, bb \notin closed,
         Arranged(c, closed, {bb}),
         NEW e \in IRCode, e.bb = bb, e.op \in Terminators,
         NEW open, open \cap (closed \cup {bb}) = {}
  PROVE  Arranged(Append(c, e), closed \cup {bb}, open)
  <1> DEFINE d == Append(c, e)
  <1>1. /\ Len(d) = Len(c) + 1 /\ Len(c) \in Nat
        /\ \A n \in 1..Len(c) : d[n] = c[n]
        /\ d[Len(c) + 1] = e
    BY Appended
  <1> HIDE DEF d
  <1>2. ASSUME NEW n \in 1..Len(d)
        PROVE  /\ d[n].bb \in closed \cup {bb}
               /\ d[n].op \in Terminators
                    <=> \A l \in 1..Len(d) : d[l].bb = d[n].bb => l <= n
    <2>1. CASE n = Len(c) + 1
      BY <1>1, <2>1
    <2>2. CASE n \in 1..Len(c)
      <3>1. d[n] = c[n]
        BY <1>1, <2>2
      <3>2. /\ c[n].bb \in closed \cup {bb}
            /\ c[n].bb \in {bb} => c[n].op \notin Terminators
            /\ c[n].bb \in closed =>
                 (c[n].op \in Terminators
                    <=> \A l \in 1..Len(c) : c[l].bb = c[n].bb => l <= n)
        BY <2>2 DEF Arranged
      <3>3. CASE c[n].bb = bb
        BY <1>1, <2>2, <3>1, <3>2, <3>3
      <3>4. CASE c[n].bb \in closed
        <4>1. \A l \in 1..Len(d) : d[l].bb = c[n].bb
                                     => l \in 1..Len(c) /\ d[l] = c[l]
          BY <1>1, <3>4
        <4>2. (\A l \in 1..Len(d) : d[l].bb = c[n].bb => l <= n)
              <=> (\A l \in 1..Len(c) : c[l].bb = c[n].bb => l <= n)
          BY <1>1, <4>1
        <4> QED BY <3>1, <3>2, <3>4, <4>2
      <3> QED BY <3>2, <3>3, <3>4
    <2> QED BY <1>1, <2>1, <2>2
  <1>3. \A b \in closed \cup {bb} : \E n \in 1..Len(d) : d[n].bb = b
    <2>1. ASSUME NEW b \in closed PROVE \E n \in 1..Len(d) : d[n].bb = b
      <3>1. PICK n \in 1..Len(c) : c[n].bb = b
        BY DEF Arranged
      <3> QED BY <1>1, <3>1
    <2>2. \E n \in 1..Len(d) : d[n].bb = bb
      BY <1>1
    <2> QED BY <2>1, <2>2
  <1>4. Arranged(d, closed \cup {bb}, open)
    BY <1>2, <1>3 DEF Arranged
  <1> QED BY <1>4 DEF d

\* What emits no transfer is no terminator.
LEMMA StraightOps ==
  ASSUME NEW b \in Byte
  PROVE  /\ Operation(b) \notin Terminators
         /\ uuCb[b] \notin Terminators
         /\ "assoc" \notin Terminators
  <1> USE DEF Terminators
  <1>1. Mode(b) + 1 \in 1..4 /\ Opcode(b) + 1 \in 1..8
    BY DEF Byte, Mode, Opcode
  <1>2. \A m \in 1..4, o \in 1..8 : opCb[m][o] \notin Terminators
    BY DEF opCb, NoCb
  <1>3. Operation(b) \notin Terminators
    BY <1>1, <1>2 DEF Operation
  <1>4. uuCb[b] \notin Terminators
    BY SMTT(60) DEF uuCb, Byte, Row, Column, ColumnX0, ColumnX8, ColumnXA, NoCb
  <1> QED BY <1>3, <1>4

------------------------------------------------------------------------------
(* The blocks.                                                             *)

(* bb is the block of the position q: the entry block at the first one,    *)
(* the block of its label at any other.                                    *)
IsEntry(bb, q) == /\ q \in 1..Len(buf)
                  /\ q = 1 => bb = Origin
                  /\ q # 1 => bb = buf[q].label /\ bb # NoLabel

\* The buffers whose blocks each have one position.
Sound == UniqueAddrs /\ buf[1].label = NoLabel

\* Two positions are never the entry of one block.
LEMMA EntryUnique ==
  ASSUME TypeOK, Layout, UniqueAddrs, NEW b1, NEW b2, NEW q1, NEW q2,
         IsEntry(b1, q1), IsEntry(b2, q2), q1 # q2
  PROVE  b1 # b2
  <1>1. Len(buf) \in Nat /\ Len(buf) > 1
    BY BufferTyped DEF IsEntry
  <1>2. b1 = buf[q1].addr /\ b2 = buf[q2].addr
    BY <1>1 DEF IsEntry, Layout, LabelIsAddr, FirstIsOrigin
  <1> QED BY <1>2 DEF UniqueAddrs, IsEntry

\* The block being filled, if there is one.
Open       == phase \in {"label", "generate"}
OpenBlocks == IF Open THEN {curBB} ELSE {}

(* The current block is that of a position not past the iterator, before   *)
(* it where a label may be entered next, and the blocks pushed to _main    *)
(* are those of positions further back.                                    *)
IsCurrent(q) ==
  /\ IsEntry(curBB, q)
  /\ q <= i
  /\ phase = "label" /\ needsBr => q < i \/ i = 1
  /\ \A m \in 1..Len(blocks) :
       \E p \in 1..Len(buf) : p < q /\ IsEntry(blocks[m], p)
Placed == Open => \E q \in 1..Len(buf) : IsCurrent(q)

\* The entry block comes first, and no block comes twice.
Ordered ==
  /\ IF blocks = <<>> THEN Open /\ curBB = Origin ELSE blocks[1] = Origin
  /\ \A m, n \in 1..Len(blocks) : blocks[m] = blocks[n] => m = n

Filled == Arranged(code, BlockSet, OpenBlocks)

\* Whatever the code refers to is a block of _bbMap.
DestsIn(c) == \A n \in 1..Len(c) : \A m \in 1..Len(c[n].dests) :
                c[n].dests[m] \in bbMap
Mapped == DestsIn(code)

\* A label the second pass has gone over has had its block entered.
Entered == \A p \in starts2 : buf[p].label # NoLabel
                                => buf[p].label \in BlockSet \cup OpenBlocks

\* Nothing is emitted before the second pass but the prologue.
Untouched ==
  phase = "preprocess" =>
    /\ curBB = Origin /\ needsBr /\ blocks = <<>> /\ starts2 = {}
    /\ code = <<[bb |-> Origin, at |-> 0, op |-> "prologue", dests |-> <<>>]>>

Blocks == Placed /\ Ordered /\ Filled /\ Mapped /\ Entered
BlocksInv == Untouched /\ (PassesDone /\ Sound => Blocks)

\* A well-placed current block has not been pushed yet.
LEMMA CurrentIsNew ==
  ASSUME TypeOK, Layout, Sound, NEW q, IsCurrent(q)
  PROVE  curBB \notin BlockSet
  BY EntryUnique DEF IsCurrent, BlockSet, Sound

\* Pushing the current block keeps the order of the blocks.
LEMMA Pushed ==
  ASSUME TypeOK, Ordered, curBB \notin BlockSet,
         blocks' = Append(blocks, curBB)
  PROVE  /\ BlockSet' = BlockSet \cup {curBB}
         /\ Ordered'
         /\ Len(blocks') = Len(blocks) + 1 /\ Len(blocks) \in Nat
         /\ \A m \in 1..Len(blocks) : blocks'[m] = blocks[m]
         /\ blocks'[Len(blocks) + 1] = curBB
  <1>1. blocks \in Seq(Addr) /\ curBB \in Addr
    BY DEF TypeOK
  <1>2. /\ Len(blocks') = Len(blocks) + 1 /\ Len(blocks) \in Nat
        /\ \A m \in 1..Len(blocks) : blocks'[m] = blocks[m]
        /\ blocks'[Len(blocks) + 1] = curBB
    BY <1>1
  <1>3. BlockSet' = BlockSet \cup {curBB}
    <2>1. ASSUME NEW b \in BlockSet' PROVE b \in BlockSet \cup {curBB}
      <3>1. PICK m \in 1..Len(blocks') : b = blocks'[m]
        BY DEF BlockSet
      <3> QED BY <1>2, <3>1 DEF BlockSet
    <2>2. ASSUME NEW b \in BlockSet PROVE b \in BlockSet'
      <3>1. PICK m \in 1..Len(blocks) : b = blocks[m]
        BY DEF BlockSet
      <3> QED BY <1>2, <3>1 DEF BlockSet
    <2>3. curBB \in BlockSet'
      BY <1>2 DEF BlockSet
    <2> QED BY <2>1, <2>2, <2>3
  <1>4. \A m, n \in 1..Len(blocks') : blocks'[m] = blocks'[n] => m = n
    <2>1. \A m \in 1..Len(blocks) : blocks[m] # curBB
      BY DEF BlockSet
    <2> QED BY <1>2, <2>1 DEF Ordered
  <1>5. blocks' # <<>> /\ blocks'[1] = Origin
    <2>1. CASE blocks = <<>>
      BY <1>2, <2>1 DEF Ordered
    <2>2. CASE blocks # <<>>
      <3>1. 1 \in 1..Len(blocks)
        BY <1>1, <2>2
      <3> QED BY <1>2, <2>2, <3>1 DEF Ordered
    <2> QED BY <2>1, <2>2
  <1> QED BY <1>2, <1>3, <1>4, <1>5 DEF Ordered

\* Appending an entry that refers to blocks of _bbMap.
LEMMA AppendedDests ==
  ASSUME NEW c \in Seq(IRCode), DestsIn(c), NEW e \in IRCode,
         \A m \in 1..Len(e.dests) : e.dests[m] \in bbMap
  PROVE  DestsIn(Append(c, e))
  <1> DEFINE d == Append(c, e)
  <1>1. /\ Len(d) = Len(c) + 1 /\ Len(c) \in Nat
        /\ \A n \in 1..Len(c) : d[n] = c[n]
        /\ d[Len(c) + 1] = e
    BY Appended
  <1> HIDE DEF d
  <1>2. DestsIn(d)
    BY <1>1 DEF DestsIn
  <1> QED BY <1>2 DEF d

(* A step that ends the current block with e, after the entries of c, and  *)
(* goes on in the block of a later position or nowhere.                    *)
LEMMA ClosingStep ==
  ASSUME TypeOK, Layout, Sound, Blocks, Open,
         NEW q \in 1..Len(buf), IsCurrent(q),
         UNCHANGED passVars, blocks' = Append(blocks, curBB),
         NEW c \in Seq(IRCode), Arranged(c, BlockSet, {curBB}), DestsIn(c),
         NEW e \in IRCode, e.bb = curBB, e.op \in Terminators,
         \A m \in 1..Len(e.dests) : e.dests[m] \in bbMap,
         code' = Append(c, e),
         Open' => \E r \in 1..Len(buf) :
                    /\ r > q /\ IsEntry(curBB', r) /\ r <= i'
                    /\ phase' = "label" /\ needsBr' => r < i' \/ i' = 1
  PROVE  /\ Placed' /\ Ordered' /\ Filled' /\ Mapped'
         /\ BlockSet' = BlockSet \cup {curBB}
  <1>0. /\ UNCHANGED <<buf, bbMap>> /\ Len(buf) \in Nat
        /\ curBB \notin BlockSet /\ Ordered
    BY CurrentIsNew, BufferTyped DEF passVars, Blocks
  <1>1. /\ BlockSet' = BlockSet \cup {curBB} /\ Ordered'
        /\ Len(blocks') = Len(blocks) + 1 /\ Len(blocks) \in Nat
        /\ \A m \in 1..Len(blocks) : blocks'[m] = blocks[m]
        /\ blocks'[Len(blocks) + 1] = curBB
    BY <1>0, Pushed
  <1>2. Mapped'
    <2>1. DestsIn(Append(c, e))
      BY AppendedDests
    <2> QED BY <1>0, <2>1 DEF Mapped, DestsIn
  <1>3. ASSUME NEW r \in 1..Len(buf), r > q, IsEntry(curBB', r)
        PROVE  curBB' \notin BlockSet'
    <2>1. curBB' # curBB
      BY <1>3, EntryUnique DEF IsCurrent, Sound
    <2>2. ASSUME NEW m \in 1..Len(blocks) PROVE curBB' # blocks[m]
      <3>1. PICK p \in 1..Len(buf) : p < q /\ IsEntry(blocks[m], p)
        BY DEF IsCurrent
      <3> QED BY <1>0, <1>3, <3>1, EntryUnique DEF Sound
    <2> QED BY <1>1, <2>1, <2>2 DEF BlockSet
  <1>4. Filled'
    <2>1. OpenBlocks' \cap (BlockSet \cup {curBB}) = {}
      BY <1>1, <1>3 DEF OpenBlocks
    <2>2. Arranged(code', BlockSet \cup {curBB}, OpenBlocks')
      BY <1>0, <2>1, Closed
    <2> QED BY <1>1, <2>2 DEF Filled
  <1>5. Placed'
    <2>1. SUFFICES ASSUME Open' PROVE \E r \in 1..Len(buf) : IsCurrent(r)'
      BY <1>0 DEF Placed
    <2>2. PICK r \in 1..Len(buf) :
            /\ r > q /\ IsEntry(curBB', r) /\ r <= i'
            /\ phase' = "label" /\ needsBr' => r < i' \/ i' = 1
      BY <2>1
    <2>3. ASSUME NEW m \in 1..Len(blocks')
          PROVE  \E p \in 1..Len(buf) : p < r /\ IsEntry(blocks'[m], p)
      <3>1. CASE m = Len(blocks) + 1
        BY <1>1, <2>2, <3>1 DEF IsCurrent
      <3>2. CASE m \in 1..Len(blocks)
        <4>1. PICK p \in 1..Len(buf) : p < q /\ IsEntry(blocks[m], p)
          BY <3>2 DEF IsCurrent
        <4>2. p < r
          BY <1>0, <2>2, <4>1
        <4> QED BY <1>1, <3>2, <4>1, <4>2
      <3> QED BY <1>1, <3>1, <3>2
    <2>4. IsEntry(curBB, r)'
      BY <1>0, <2>2 DEF IsEntry
    <2>5. \A m \in 1..Len(blocks') :
            \E p \in 1..Len(buf') : p < r /\ IsEntry(blocks[m], p)'
      BY <1>0, <2>3 DEF IsEntry
    <2>6. IsCurrent(r)'
      BY <2>2, <2>4, <2>5 DEF IsCurrent
    <2> QED BY <2>6
  <1> QED BY <1>1, <1>2, <1>4, <1>5

\* Every step keeps the blocks well formed.
LEMMA NextBlocks ==
  TypeOK /\ SecondPassInBounds /\ LabelsInv /\ Layout /\ OpenBlock /\ BlocksInv
    /\ [Next]_vars
  => BlocksInv'
  <1> SUFFICES ASSUME TypeOK, SecondPassInBounds, LabelsInv, Layout, OpenBlock,
                      BlocksInv, [Next]_vars
               PROVE  BlocksInv'
    OBVIOUS
  <1> DEFINE b == buf[i].byte
  <1>0. /\ Len(buf) \in Nat /\ i \in Nat \ {0} /\ curBB \in Addr
        /\ code \in Seq(IRCode) /\ blocks \in Seq(Addr)
        /\ \A a \in Addr : a # NoLabel
    BY BufferTyped DEF TypeOK, Addr, NoLabel
  <1>1. CASE PpStep \/ PpUndefined
    <2>1. /\ phase = "preprocess" /\ phase' \in {"preprocess", "undefined"}
          /\ UNCHANGED emitVars
      BY <1>1 DEF PpStep, PpSkip, _pp_mklb0, _pp_mklb1, _pp_mklb2,
                  AtPreprocess, PpUndefined, ReadOutside
    <2> QED BY <2>1 DEF BlocksInv, Untouched, PassesDone, emitVars
  <1>2. CASE PpDone
    <2>1. /\ phase = "preprocess" /\ phase' = "label" /\ i' = 1
          /\ UNCHANGED <<buf, bbMap, curBB, needsBr, blocks, code, starts2>>
      BY <1>2 DEF PpDone, passVars, emitVars
    <2>2. /\ curBB = Origin /\ blocks = <<>> /\ starts2 = {}
          /\ code = <<[bb |-> Origin, at |-> 0, op |-> "prologue", dests |-> <<>>]>>
      BY <2>1 DEF BlocksInv, Untouched
    <2>3. BlockSet' = {} /\ OpenBlocks' = {Origin}
      BY <2>1, <2>2 DEF BlockSet, OpenBlocks, Open
    <2>4. Len(buf) >= 1
      BY <1>0 DEF LabelsInv, Sentinel
    <2>5. IsCurrent(1)'
      BY <1>0, <2>1, <2>2, <2>4 DEF IsCurrent, IsEntry
    <2>6. Placed'
      BY <1>0, <2>1, <2>4, <2>5 DEF Placed
    <2>7. Ordered'
      BY <2>1, <2>2 DEF Ordered, Open
    <2>8. Filled'
      <3>1. Len(code') = 1 /\ code'[1].bb = Origin /\ code'[1].op = "prologue"
        BY <2>1, <2>2
      <3> QED BY <2>3, <3>1 DEF Filled, Arranged, Terminators
    <2>9. Mapped' /\ Entered'
      BY <2>1, <2>2 DEF Mapped, DestsIn, Entered
    <2> QED BY <2>1, <2>6, <2>7, <2>8, <2>9 DEF BlocksInv, Untouched, Blocks
  <1>3. CASE UNCHANGED vars
    <2>1. /\ UNCHANGED <<phase, buf, i, bbMap, curBB, needsBr, blocks, code, starts2>>
      BY <1>3 DEF vars
    <2>2. /\ Untouched' = Untouched /\ PassesDone' = PassesDone /\ Sound' = Sound
          /\ Placed' = Placed /\ Ordered' = Ordered /\ Filled' = Filled
          /\ Mapped' = Mapped /\ Entered' = Entered
      BY <2>1 DEF Untouched, PassesDone, Sound, UniqueAddrs, Placed, IsCurrent,
                  IsEntry, Open, Ordered, Filled, Arranged, BlockSet, OpenBlocks,
                  Mapped, DestsIn, Entered
    <2> QED BY <2>2 DEF BlocksInv, Blocks
  <1>4. CASE phase' \notin {"preprocess", "label", "generate", "generated", "written"}
    BY <1>4 DEF BlocksInv, Untouched, PassesDone
  <1>5. ASSUME PassesDone, UNCHANGED passVars, phase' # "preprocess",
               Sound /\ Blocks => Blocks'
        PROVE  BlocksInv'
    BY <1>5 DEF BlocksInv, Untouched, Sound, UniqueAddrs, passVars
  <1>6. CASE output_bitcode
    <2>1. /\ phase = "generated" /\ phase' = "written" /\ UNCHANGED passVars
          /\ UNCHANGED <<buf, bbMap, i, curBB, needsBr, blocks, code, starts2>>
      BY <1>6 DEF output_bitcode, passVars, emitVars
    <2>2. ~Open /\ ~Open'
      BY <2>1 DEF Open
    <2>3. ASSUME Blocks PROVE Blocks'
      <3>1. Placed' /\ Ordered'
        BY <2>1, <2>2, <2>3 DEF Blocks, Placed, Ordered
      <3>2. BlockSet' = BlockSet /\ OpenBlocks' = OpenBlocks
        BY <2>1, <2>2 DEF BlockSet, OpenBlocks
      <3>3. Filled' /\ Mapped' /\ Entered'
        BY <2>1, <2>3, <3>2 DEF Blocks, Filled, Arranged, Mapped, DestsIn, Entered
      <3> QED BY <3>1, <3>3 DEF Blocks
    <2> QED BY <1>5, <2>1, <2>3 DEF PassesDone
  <1>7. ASSUME Sound, Blocks, Open
        PROVE  /\ OpenBlocks = {curBB}
               /\ \E q \in 1..Len(buf) : IsCurrent(q) /\ curBB \notin BlockSet
               /\ PassesDone
    BY <1>7, CurrentIsNew DEF OpenBlocks, Blocks, Placed, Open, PassesDone
  <1>8. CASE StayInBlock
    <2>1. /\ phase = "label" /\ phase' = "generate" /\ InBuffer(i)
          /\ ~(needsBr /\ buf[i].label # NoLabel)
          /\ starts2' = starts2 \cup {i}
          /\ UNCHANGED passVars /\ UNCHANGED <<buf, bbMap, i, curBB, blocks, code>>
      BY <1>8 DEF StayInBlock, passVars
    <2>2. Open /\ Open' /\ PassesDone
      BY <2>1 DEF Open, PassesDone
    <2>3. ASSUME Sound, Blocks PROVE Blocks'
      <3>1. PICK q \in 1..Len(buf) : IsCurrent(q)
        BY <1>7, <2>2, <2>3
      <3>2. IsCurrent(q)'
        BY <2>1, <3>1 DEF IsCurrent, IsEntry
      <3>3. Placed' /\ Ordered'
        BY <2>1, <2>2, <2>3, <3>2 DEF Blocks, Placed, Ordered
      <3>4. BlockSet' = BlockSet /\ OpenBlocks' = OpenBlocks /\ OpenBlocks = {curBB}
        BY <2>1, <2>2 DEF BlockSet, OpenBlocks
      <3>5. buf[i].label # NoLabel => buf[i].label = curBB
        BY <2>1 DEF OpenBlock
      <3>6. Entered'
        BY <2>1, <2>3, <3>4, <3>5 DEF Blocks, Entered
      <3>7. Filled' /\ Mapped'
        BY <2>1, <2>3, <3>4 DEF Blocks, Filled, Arranged, Mapped, DestsIn
      <3> QED BY <3>3, <3>6, <3>7 DEF Blocks
    <2> QED BY <1>5, <2>1, <2>2, <2>3
  <1>9. CASE EnterLabel
    <2>1. CASE buf[i].label \notin bbMap
      BY <1>4, <1>9, <2>1 DEF EnterLabel
    <2>2. CASE buf[i].label \in bbMap
      <3> DEFINE label == buf[i].label
                 e     == IR("fall", <<label>>)
      <3>1. /\ phase = "label" /\ phase' = "generate" /\ InBuffer(i) /\ needsBr
            /\ label # NoLabel /\ code' = Append(code, e)
            /\ blocks' = Append(blocks, curBB) /\ curBB' = label
            /\ starts2' = starts2 \cup {i}
            /\ UNCHANGED passVars /\ UNCHANGED <<buf, bbMap, i>>
        BY <1>9, <2>2 DEF EnterLabel, passVars
      <3>2. Open /\ Open' /\ PassesDone
        BY <3>1 DEF Open, PassesDone
      <3>3. ASSUME Sound, Blocks PROVE Blocks'
        <4>1. PICK q \in 1..Len(buf) : IsCurrent(q)
          BY <1>7, <3>2, <3>3
        <4>2. OpenBlocks = {curBB} /\ Filled /\ Mapped
          BY <1>7, <3>2, <3>3 DEF Blocks
        <4>3. /\ e \in IRCode /\ e.bb = curBB /\ e.op \in Terminators
              /\ \A m \in 1..Len(e.dests) : e.dests[m] \in bbMap
          <5>1. label \in Addr
            BY <2>2 DEF TypeOK
          <5>2. e \in IRCode
            BY <5>1, EntriesTyped
          <5>3. e.bb = curBB /\ e.op = "fall" /\ e.dests = <<label>>
            BY DEF IR
          <5> QED BY <2>2, <5>2, <5>3 DEF Terminators
        <4>4. i # 1 /\ q < i /\ i \in 1..Len(buf)
          BY <3>1, <3>3, <4>1 DEF Sound, IsCurrent, InBuffer
        <4>5. IsEntry(curBB', i)
          BY <3>1, <4>4 DEF IsEntry
        <4>6. Arranged(code, BlockSet, {curBB}) /\ DestsIn(code)
          BY <4>2 DEF Filled, Mapped
        <4>7. \E r \in 1..Len(buf) :
                /\ r > q /\ IsEntry(curBB', r) /\ r <= i'
                /\ phase' = "label" /\ needsBr' => r < i' \/ i' = 1
          BY <1>0, <3>1, <4>4, <4>5
        <4> HIDE DEF e, label
        <4>8. /\ Placed' /\ Ordered' /\ Filled' /\ Mapped'
              /\ BlockSet' = BlockSet \cup {curBB}
          BY <1>0, <3>1, <3>2, <3>3, <4>1, <4>3, <4>6, <4>7, ClosingStep
        <4>9. OpenBlocks' = {label}
          BY <3>1, <3>2 DEF OpenBlocks
        <4>10. Entered'
          BY <3>1, <3>3, <4>2, <4>8, <4>9 DEF Blocks, Entered, label
        <4> QED BY <4>8, <4>10 DEF Blocks
      <3> QED BY <1>5, <3>1, <3>2, <3>3
    <2> QED BY <2>1, <2>2
  <1>10. ASSUME NEW op \in Operations \ Terminators, NEW n \in {0, 1, 2},
                phase = "generate", EmitStraight(op, n)
         PROVE  BlocksInv'
    <2> DEFINE e == IR(op, <<>>)
    <2>1. /\ code' = Append(code, e) /\ i' = i + 1 + n /\ phase' = "label"
          /\ UNCHANGED passVars /\ UNCHANGED <<buf, bbMap, curBB, blocks, starts2>>
      BY <1>10 DEF EmitStraight, Advanced, passVars
    <2>2. Open /\ Open' /\ PassesDone
      BY <1>10, <2>1 DEF Open, PassesDone
    <2>3. /\ e \in IRCode /\ e.bb = curBB /\ e.op \notin Terminators
          /\ \A m \in 1..Len(e.dests) : e.dests[m] \in bbMap
      <3>1. e \in IRCode
        BY EntriesTyped
      <3>2. e.bb = curBB /\ e.op = op /\ e.dests = <<>>
        BY DEF IR
      <3> QED BY <3>1, <3>2
    <2>4. ASSUME Sound, Blocks PROVE Blocks'
      <3>1. PICK q \in 1..Len(buf) : IsCurrent(q) /\ curBB \notin BlockSet
        BY <1>7, <2>2, <2>4
      <3>2. IsCurrent(q)'
        <4>1. q <= i /\ i' \in Nat /\ i < i'
          BY <1>0, <2>1, <3>1 DEF IsCurrent
        <4>2. q <= i' /\ q < i'
          BY <1>0, <4>1
        <4> QED BY <2>1, <3>1, <4>2 DEF IsCurrent, IsEntry
      <3>3. Placed' /\ Ordered'
        BY <2>1, <2>2, <2>4, <3>2 DEF Blocks, Placed, Ordered
      <3>4. BlockSet' = BlockSet /\ OpenBlocks' = OpenBlocks /\ OpenBlocks = {curBB}
        BY <2>1, <2>2 DEF BlockSet, OpenBlocks
      <3>5. Entered'
        BY <2>1, <2>4, <3>4 DEF Blocks, Entered
      <3>6. Arranged(code, BlockSet, {curBB}) /\ DestsIn(code)
        BY <2>4, <3>4 DEF Blocks, Filled, Mapped
      <3> HIDE DEF e
      <3>7. Arranged(code', BlockSet, {curBB})
        BY <1>0, <2>1, <2>3, <3>1, <3>6, Extended
      <3>8. DestsIn(code')
        BY <1>0, <2>1, <2>3, <3>6, AppendedDests
      <3>9. Filled' /\ Mapped'
        BY <2>1, <3>4, <3>7, <3>8 DEF Filled, Mapped, DestsIn
      <3> QED BY <3>3, <3>5, <3>9 DEF Blocks
    <2> QED BY <1>5, <2>1, <2>2, <2>4
  <1>11. ASSUME phase = "generate"
         PROVE  i \in 1..Len(buf) /\ b \in Byte
    BY <1>0, <1>11, BufferTyped DEF SecondPassInBounds
  <1>12. CASE Standard
    <2>1. Operation(b) \in Operations \ Terminators
      BY <1>11, <1>12, OperationNamed, StraightOps DEF Standard
    <2>2. OperandBytes(b) \in {0, 1, 2}
      BY OperandRange
    <2>3. CASE InBuffer(i + OperandBytes(b))
      <3>1. EmitStraight(Operation(b), OperandBytes(b)) /\ phase = "generate"
        BY <1>12, <2>3 DEF Standard
      <3> HIDE DEF b
      <3> QED BY <1>10, <2>1, <2>2, <3>1
    <2>4. CASE ~InBuffer(i + OperandBytes(b))
      BY <1>4, <1>12, <2>4 DEF Standard, Throw, ReadOutside
    <2> QED BY <2>3, <2>4
  <1>13. CASE Implied
    <2>1. uuCb[b] \in Operations \ Terminators
      BY <1>11, <1>13, OperationNamed, StraightOps DEF Implied
    <2>2. EmitStraight(uuCb[b], 0) /\ phase = "generate"
      BY <1>13 DEF Implied
    <2> HIDE DEF b
    <2> QED BY <1>10, <2>1, <2>2
  <1>14. CASE BadFunctionCall \/ UnsupportedInstruction \/ NonexistantBranch
              \/ TransferUndefined
    BY <1>4, <1>14 DEF BadFunctionCall, UnsupportedInstruction, Throw,
                       NonexistantBranch, TransferUndefined, ReadOutside
  <1>15. ASSUME NEW cb, NEW ir, Transfer(cb, ir),
                NEW c \in Seq(IRCode), NEW e \in IRCode,
                code \o ir = Append(c, e),
                e.bb = curBB, e.op \in Terminators,
                \A m \in 1..Len(e.dests) : e.dests[m] \in bbMap,
                Sound /\ Blocks => Arranged(c, BlockSet, {curBB}) /\ DestsIn(c)
         PROVE  BlocksInv'
    <2>1. /\ phase = "generate" /\ phase' = "label" /\ code' = Append(c, e)
          /\ blocks' = Append(blocks, curBB) /\ curBB' = nextBB
          /\ ~needsBr' /\ i' = After /\ InBuffer(After) /\ nextBB \in bbMap
          /\ UNCHANGED passVars /\ UNCHANGED <<buf, bbMap, starts2>>
      BY <1>15 DEF Transfer, passVars, BlocksFound
    <2>2. Open /\ Open' /\ PassesDone
      BY <2>1 DEF Open, PassesDone
    <2>3. After \in 1..Len(buf) /\ After > i
      BY <1>0, <2>1 DEF InBuffer, After
    <2>4. IsEntry(curBB', After)
      <3>1. curBB' = buf[After].label /\ curBB' # NoLabel
        BY <2>1 DEF nextBB, TypeOK, Addr, NoLabel
      <3> QED BY <1>0, <2>3, <3>1 DEF IsEntry
    <2>5. ASSUME Sound, Blocks PROVE Blocks'
      <3>1. PICK q \in 1..Len(buf) : IsCurrent(q)
        BY <1>7, <2>2, <2>5
      <3>2. \E r \in 1..Len(buf) :
              /\ r > q /\ IsEntry(curBB', r) /\ r <= i'
              /\ phase' = "label" /\ needsBr' => r < i' \/ i' = 1
        <4>1. q <= i /\ q \in Nat /\ After \in Nat
          BY <1>0, <2>3, <3>1 DEF IsCurrent
        <4>2. After > q /\ After <= i'
          BY <1>0, <2>1, <2>3, <4>1
        <4> QED BY <2>1, <2>3, <2>4, <4>2
      <3>3. Arranged(c, BlockSet, {curBB}) /\ DestsIn(c)
        BY <1>15, <2>5
      <3>4. /\ Placed' /\ Ordered' /\ Filled' /\ Mapped'
            /\ BlockSet' = BlockSet \cup {curBB}
        BY <1>15, <2>1, <2>2, <2>5, <3>1, <3>2, <3>3, ClosingStep
      <3>5. OpenBlocks = {curBB}
        BY <2>2 DEF OpenBlocks
      <3>6. Entered'
        BY <2>1, <2>5, <3>4, <3>5 DEF Blocks, Entered
      <3> QED BY <3>4, <3>6 DEF Blocks
    <2> QED BY <1>5, <2>1, <2>2, <2>5
  <1>16. ASSUME NEW op \in Terminators \ {"fall"}, NEW dests,
                IR(op, dests) \in IRCode
         PROVE  /\ IR(op, dests).bb = curBB /\ IR(op, dests).op \in Terminators
                /\ IR(op, dests).dests = dests
                /\ code \o <<IR(op, dests)>> = Append(code, IR(op, dests))
    <2> DEFINE e == IR(op, dests)
    <2>1. e.bb = curBB /\ e.op \in Terminators /\ e.dests = dests
      BY <1>16 DEF IR
    <2> HIDE DEF e
    <2>2. code \o <<e>> = Append(code, e)
      BY <1>0, <1>16 DEF e
    <2> QED BY <2>1, <2>2 DEF e
  <1>17. Sound /\ Blocks /\ phase = "generate"
         => /\ Arranged(code, BlockSet, {curBB}) /\ DestsIn(code)
            /\ curBB \notin BlockSet
    BY <1>7 DEF Open, OpenBlocks, Blocks, Filled, Mapped
  <1>18. ASSUME NEW cb, NEW ir, Transfer(cb, ir)
         PROVE  /\ nextBB \in bbMap /\ nextBB \in Addr /\ phase = "generate"
                /\ cb # "RTS" => destBB \in bbMap /\ destBB \in Addr
    BY <1>18 DEF Transfer, BlocksFound, TypeOK
  <1>19. CASE _uu_bra
    <2> DEFINE e == IR("condbr", <<destBB, nextBB>>)
    <2>1. Transfer("bra", <<e>>)
      BY <1>19 DEF _uu_bra
    <2>2. e \in IRCode
      BY <1>18, <2>1, EntriesTyped
    <2>3. /\ e.bb = curBB /\ e.op \in Terminators
          /\ e.dests = <<destBB, nextBB>> /\ code \o <<e>> = Append(code, e)
      BY <1>16, <2>2 DEF Terminators
    <2>4. \A m \in 1..Len(e.dests) : e.dests[m] \in bbMap
      BY <1>18, <2>1, <2>3
    <2> HIDE DEF e
    <2> QED BY <1>0, <1>15, <1>17, <1>18, <2>1, <2>2, <2>3, <2>4
  <1>20. CASE _uu_jump
    <2> DEFINE e == IR("br", <<destBB>>)
    <2>1. Transfer("jump", <<e>>)
      BY <1>20 DEF _uu_jump
    <2>2. e \in IRCode
      BY <1>18, <2>1, EntriesTyped
    <2>3. /\ e.bb = curBB /\ e.op \in Terminators
          /\ e.dests = <<destBB>> /\ code \o <<e>> = Append(code, e)
      BY <1>16, <2>2 DEF Terminators
    <2>4. \A m \in 1..Len(e.dests) : e.dests[m] \in bbMap
      BY <1>18, <2>1, <2>3
    <2> HIDE DEF e
    <2> QED BY <1>0, <1>15, <1>17, <1>18, <2>1, <2>2, <2>3, <2>4
  <1>21. CASE _uu_RTS
    <2> DEFINE e == IR("indirectbr", indBrDests)
    <2>1. Transfer("RTS", <<e>>)
      BY <1>21 DEF _uu_RTS
    <2>2. e \in IRCode
      BY EntriesTyped
    <2>3. /\ e.bb = curBB /\ e.op \in Terminators
          /\ e.dests = indBrDests /\ code \o <<e>> = Append(code, e)
      BY <1>16, <2>2 DEF Terminators
    <2>4. \A m \in 1..Len(e.dests) : e.dests[m] \in bbMap
      BY <2>3 DEF LabelsInv, LabelsMapped
    <2> HIDE DEF e
    <2> QED BY <1>0, <1>15, <1>17, <1>18, <2>1, <2>2, <2>3, <2>4
  <1>22. CASE _uu_JSR
    <2> DEFINE a == IR("assoc", <<nextBB>>)
               e == IR("br", <<destBB>>)
    <2>1. Transfer("JSR", <<a, e>>)
      BY <1>22 DEF _uu_JSR
    <2>2. a \in IRCode /\ e \in IRCode
      BY <1>18, <2>1, EntriesTyped
    <2>3. e.bb = curBB /\ e.op \in Terminators /\ e.dests = <<destBB>>
      BY <1>16, <2>2 DEF Terminators
    <2>4. a.bb = curBB /\ a.op \notin Terminators /\ a.dests = <<nextBB>>
      BY DEF IR, Terminators
    <2>5. /\ \A m \in 1..Len(e.dests) : e.dests[m] \in bbMap
          /\ \A m \in 1..Len(a.dests) : a.dests[m] \in bbMap
      <3>1. destBB \in bbMap /\ nextBB \in bbMap
        BY <1>18, <2>1
      <3> HIDE DEF a, e
      <3> QED BY <2>3, <2>4, <3>1
    <2> HIDE DEF a, e
    <2>6. code \o <<a, e>> = Append(Append(code, a), e)
      BY <1>0, <2>2
    <2>7. Append(code, a) \in Seq(IRCode)
      BY <1>0, <2>2
    <2>8. Sound /\ Blocks => /\ Arranged(Append(code, a), BlockSet, {curBB})
                             /\ DestsIn(Append(code, a))
      BY <1>0, <1>17, <1>18, <2>1, <2>2, <2>4, <2>5, Extended, AppendedDests
    <2> QED BY <1>15, <2>1, <2>2, <2>3, <2>5, <2>6, <2>7, <2>8
  <1>23. CASE Finish
    <2> DEFINE e == IR("ret", <<>>)
    <2>1. /\ phase = "label" /\ phase' = "generated" /\ code' = Append(code, e)
          /\ blocks' = Append(blocks, curBB)
          /\ UNCHANGED passVars /\ UNCHANGED <<buf, bbMap, starts2>>
      BY <1>23 DEF Finish, passVars
    <2>2. Open /\ ~Open' /\ PassesDone
      BY <2>1 DEF Open, PassesDone
    <2>3. e \in IRCode
      BY EntriesTyped
    <2>4. e.bb = curBB /\ e.op \in Terminators /\ e.dests = <<>>
      BY <1>16, <2>3 DEF Terminators
    <2>5. \A m \in 1..Len(e.dests) : e.dests[m] \in bbMap
      BY <2>4
    <2> HIDE DEF e
    <2>6. ASSUME Sound, Blocks PROVE Blocks'
      <3>1. PICK q \in 1..Len(buf) : IsCurrent(q)
        BY <1>7, <2>2, <2>6
      <3>2. OpenBlocks = {curBB} /\ OpenBlocks' = {}
        BY <2>2 DEF OpenBlocks
      <3>3. Arranged(code, BlockSet, {curBB}) /\ DestsIn(code)
        BY <2>6, <3>2 DEF Blocks, Filled, Mapped
      <3>4. /\ Placed' /\ Ordered' /\ Filled' /\ Mapped'
            /\ BlockSet' = BlockSet \cup {curBB}
        BY <1>0, <2>1, <2>2, <2>3, <2>4, <2>5, <2>6, <3>1, <3>3, ClosingStep
      <3>5. Entered'
        BY <2>1, <2>6, <3>2, <3>4 DEF Blocks, Entered
      <3> QED BY <3>4, <3>5 DEF Blocks
    <2> QED BY <1>5, <2>1, <2>2, <2>6
  <1> QED BY <1>1, <1>2, <1>3, <1>6, <1>8, <1>9, <1>12, <1>13, <1>14, <1>19,
             <1>20, <1>21, <1>22, <1>23
          DEF Next, Step, Done, FirstPass, SecondPass, PpStep

\* So the blocks are in order in every reachable state.
LEMMA BlocksInvariant == Spec => [](TypeOK /\ LabelsInv /\ Layout /\ BlocksInv)
  <1>1. Init => OpenBlock /\ BlocksInv
    BY DEF Init, OpenBlock, BlocksInv, Untouched, PassesDone
  <1> QED BY <1>1, InitLayout, NextLayout, NextOpenBlock, NextBlocks,
             LabelsInvariant, PTL DEF Spec

\* What the blocks amount to once they are all there.
LEMMA OutputIs ==
  ASSUME TypeOK, LabelsInv, Layout, BlocksInv PROVE WellFormedOutput
  <1>1. SUFFICES ASSUME phase = "written", Translatable PROVE WellFormed
    BY DEF WellFormedOutput
  <1>2. Blocks /\ ~Open
    BY <1>1 DEF BlocksInv, PassesDone, Sound, Translatable, Open
  <1>3. OpenBlocks = {}
    BY <1>2 DEF OpenBlocks
  <1>4. /\ blocks # <<>> /\ blocks[1] = Origin
        /\ \A m, n \in 1..Len(blocks) : blocks[m] = blocks[n] => m = n
    BY <1>2 DEF Blocks, Ordered
  <1>5. Origin \in BlockSet
    <2>1. 1 \in 1..Len(blocks)
      BY <1>4 DEF TypeOK
    <2> QED BY <1>4, <2>1 DEF BlockSet
  <1>6. bbMap \subseteq BlockSet
    <2>1. SUFFICES ASSUME NEW a \in bbMap, a # Origin PROVE a \in BlockSet
      BY <1>5
    <2>2. PICK p \in 1..Len(buf) : buf[p].label = a
      BY <2>1 DEF Layout, MapIsLabels
    <2>3. a # NoLabel
      BY DEF TypeOK, Addr, NoLabel
    <2> QED BY <1>1, <1>2, <1>3, <2>2, <2>3 DEF Translatable, Blocks, Entered
  <1>7. ASSUME NEW n \in 1..Len(code)
        PROVE  /\ code[n].bb \in BlockSet
               /\ DestsOf(n) \subseteq BlockSet
               /\ code[n].op \in Terminators <=> IsLastOf(n)
    <2>1. DestsOf(n) \subseteq BlockSet
      BY <1>2, <1>6 DEF Blocks, Mapped, DestsIn, DestsOf
    <2>2. /\ code[n].bb \in BlockSet
          /\ code[n].op \in Terminators
               <=> \A l \in 1..Len(code) : code[l].bb = code[n].bb => l <= n
      BY <1>2, <1>3 DEF Blocks, Filled, Arranged
    <2>3. IsLastOf(n)
          <=> \A l \in 1..Len(code) : code[l].bb = code[n].bb => l <= n
      BY DEF IsLastOf, CodeOf
    <2> QED BY <2>1, <2>2, <2>3
  <1>8. ASSUME NEW bb \in BlockSet PROVE CodeOf(bb) # {}
    BY <1>2 DEF Blocks, Filled, Arranged, CodeOf
  <1> QED BY <1>4, <1>7, <1>8 DEF WellFormed

(* Whatever the file, the bitcode written for a translatable program has   *)
(* its entry block first, no block twice, each ended by its only           *)
(* terminator, and no reference to a block that is not there, although     *)
(* nothing in output_bitcode makes sure of it.                             *)
THEOREM OutputCorrect == Spec => []WellFormedOutput
  BY OutputIs, BlocksInvariant, PTL

------------------------------------------------------------------------------
(* Destinations.                                                           *)

\* std::find_if finds an element at the address, if there is one.
LEMMA FindAddrFinds ==
  ASSUME TypeOK, NEW a, FindAddr(a) \in 1..Len(buf)
  PROVE  buf[FindAddr(a)].addr = a
  <1> DEFINE M == {p \in 1..Len(buf) : buf[p].addr = a}
  <1>0. Len(buf) \in Nat
    BY BufferTyped
  <1>1. \E p \in 1..Len(buf) : buf[p].addr = a
    BY <1>0 DEF FindAddr, End
  <1>2. PICK p \in M : \A m \in M : p <= m
    <2>1. M \in SUBSET (1..Len(buf)) /\ M # {}
      BY <1>1
    <2> HIDE DEF M
    <2> QED BY <1>0, <2>1, LeastIndex
  <1>3. buf[p].addr = a /\ \A r \in 1..(p - 1) : buf[r].addr # a
    BY <1>0, <1>2
  <1> QED BY <1>1, <1>2, <1>3 DEF FindAddr

\* t is where the operand of the branch or jump at p leads.
LeadsTo(p, t) ==
  /\ p \in starts1 /\ t \in 1..Len(buf)
  /\ buf[t].addr = buf[p].dst /\ buf[t].label # NoLabel
  /\ \/ ppCb[buf[p].byte] = "mklb1" /\ t = p + 2 + offset(buf[p + 1].byte)
        /\ p + 2 \in 1..Len(buf)
     \/ ppCb[buf[p].byte] = "mklb2" /\ buf[t].addr = JumpAddress(p)
        /\ p + 3 \in 1..Len(buf)

(* Every destination the first pass stored is the address of a labelled    *)
(* element, the one the operand names.                                     *)
Targets == \A p \in 1..Len(buf) :
             buf[p].dst # NoLabel => \E t \in 1..Len(buf) : LeadsTo(p, t)

\* The destinations are right at first.
LEMMA InitTargets == Init => Targets
  <1> SUFFICES ASSUME Init, NEW p \in 1..Len(buf) PROVE buf[p].dst = NoLabel
    BY DEF Targets
  <1>1. PICK image \in Images : buf = Load(image)
    BY DEF Init
  <1>2. Len(buf) = Len(image) + 1
    BY <1>1, LoadIsBuffer
  <1> QED BY <1>1, <1>2 DEF Load

\* Every step keeps them so.
LEMMA NextTargets == TypeOK /\ Targets /\ [Next]_vars => Targets'
  <1> SUFFICES ASSUME TypeOK, Targets, [Next]_vars PROVE Targets'
    OBVIOUS
  <1>0. /\ Len(buf) \in Nat /\ i \in Nat \ {0} /\ buf \in Seq(IData)
        /\ starts1 \subseteq 1..Len(buf)
        /\ \A p \in 1..Len(buf) : buf[p].addr \in Addr /\ buf[p].byte \in Byte
    BY BufferTyped
  <1>1. CASE UNCHANGED <<buf, starts1>>
    BY <1>1 DEF Targets, LeadsTo, JumpAddress
  <1>2. ASSUME Grows, NEW p \in 1..Len(buf), NEW t \in 1..Len(buf), LeadsTo(p, t),
               buf'[p].dst = buf[p].dst
        PROVE  LeadsTo(p, t)'
    <2>1. /\ Len(buf') = Len(buf) /\ p \in starts1'
          /\ \A r \in 1..Len(buf) : buf'[r].byte = buf[r].byte
                                    /\ buf'[r].addr = buf[r].addr
      BY <1>2 DEF Grows, LeadsTo
    <2>2. buf'[t].label # NoLabel
      BY <1>2 DEF Grows, LeadsTo, Addr, NoLabel
    <2>3. p + 1 \in 1..Len(buf)
      BY <1>0, <1>2 DEF LeadsTo
    <2>4. ppCb[buf[p].byte] = "mklb2" /\ p + 3 \in 1..Len(buf)
          => JumpAddress(p)' = JumpAddress(p)
      BY <1>0, <2>1, <2>3 DEF JumpAddress
    <2> QED BY <1>2, <2>1, <2>2, <2>3, <2>4 DEF LeadsTo
  <1>3. ASSUME PpStep PROVE Targets'
    <2>1. Grows
      BY <1>3, PpStepEffect
    <2>2. i \in 1..Len(buf) /\ i \in starts1' /\ Len(buf') = Len(buf)
      BY <2>1 DEF Grows
    <2>3. SUFFICES ASSUME NEW p \in 1..Len(buf), buf'[p].dst # NoLabel
                   PROVE  \E t \in 1..Len(buf) : LeadsTo(p, t)'
      BY <2>2 DEF Targets
    <2>4. CASE buf'[p].dst = buf[p].dst
      <3>1. PICK t \in 1..Len(buf) : LeadsTo(p, t)
        BY <2>3, <2>4 DEF Targets
      <3> QED BY <1>2, <2>1, <2>4, <3>1
    <2>5. CASE buf'[p].dst # buf[p].dst
      <3>1. p = i
        BY <2>1, <2>5 DEF Grows
      <3>2. CASE PpSkip
        BY <2>5, <3>2 DEF PpSkip
      <3>3. CASE _pp_mklb0
        <4>1. buf' = Labelled({i + 1}, 0)
          BY <3>3 DEF _pp_mklb0
        <4> QED BY <1>0, <2>5, <4>1, LabelledKeeps
      <3>4. CASE _pp_mklb1
        <4>1. PICK t \in 1..Len(buf) :
                /\ t = p + 2 + offset(buf[p + 1].byte)
                /\ buf' = Labelled({t, p + 2}, t)
          BY <3>1, <3>4 DEF _pp_mklb1, AtPreprocess, PpInBounds, InBuffer,
                            RelativeTarget
        <4>2. p + 2 \in 1..Len(buf) /\ ppCb[buf[p].byte] = "mklb1"
          BY <3>1, <3>4 DEF _pp_mklb1, AtPreprocess, PpInBounds, PpNext, InBuffer
        <4>3. p + 1 \in 1..Len(buf)
          BY <1>0, <4>2
        <4>4. /\ buf'[p].byte = buf[p].byte /\ buf'[p + 1].byte = buf[p + 1].byte
              /\ buf'[t].addr = buf[t].addr /\ buf'[t].label = buf[t].addr
              /\ buf'[p].dst = buf[t].addr
          BY <1>0, <3>1, <4>1, <4>3, LabelledKeeps
        <4>5. buf'[t].label # NoLabel
          BY <1>0, <4>4 DEF Addr, NoLabel
        <4>6. LeadsTo(p, t)'
          BY <2>2, <3>1, <4>1, <4>2, <4>4, <4>5 DEF LeadsTo
        <4> QED BY <4>6
      <3>5. CASE _pp_mklb2
        <4>1. PICK t \in 1..Len(buf) :
                t = FindAddr(JumpAddress(p)) /\ buf' = Labelled({t, p + 3}, t)
          BY <3>1, <3>5 DEF _pp_mklb2, AtPreprocess, PpInBounds, InBuffer,
                            AbsoluteTarget
        <4>2. p + 3 \in 1..Len(buf) /\ ppCb[buf[p].byte] = "mklb2"
          BY <3>1, <3>5 DEF _pp_mklb2, AtPreprocess, PpInBounds, PpNext, InBuffer
        <4>3. p + 1 \in 1..Len(buf) /\ p + 2 \in 1..Len(buf)
          BY <1>0, <4>2
        <4>4. /\ buf'[p].byte = buf[p].byte /\ buf'[p + 1].byte = buf[p + 1].byte
              /\ buf'[p + 2].byte = buf[p + 2].byte
          BY <1>0, <4>1, <4>3, LabelledKeeps
        <4>5. /\ buf'[t].addr = buf[t].addr /\ buf'[t].label = buf[t].addr
              /\ buf'[p].dst = buf[t].addr
          BY <1>0, <3>1, <4>1, LabelledKeeps
        <4>6. buf'[t].label # NoLabel
          BY <1>0, <4>5 DEF Addr, NoLabel
        <4>7. buf[t].addr = JumpAddress(p)
          BY <4>1, FindAddrFinds
        <4>8. JumpAddress(p)' = JumpAddress(p)
          BY <4>4 DEF JumpAddress
        <4>9. LeadsTo(p, t)'
          BY <2>2, <3>1, <4>2, <4>4, <4>5, <4>6, <4>7, <4>8 DEF LeadsTo
        <4> QED BY <4>9
      <3> QED BY <1>3, <3>2, <3>3, <3>4, <3>5 DEF PpStep
    <2> QED BY <2>4, <2>5
  <1>4. CASE PpDone
    BY <1>1, <1>4 DEF PpDone, passVars
  <1>5. CASE UNCHANGED passVars
    BY <1>1, <1>5 DEF passVars
  <1> QED BY <1>3, <1>4, <1>5, OtherSteps

------------------------------------------------------------------------------
(* The code, entry by entry.                                               *)

\* The operations that transfer no control and are no call of the runtime.
Straight == Operations \ (Terminators \cup {"prologue", "assoc"})

\* The element after an instruction that transfers no control.
StraightNext(p) == IF IsStandard(buf[p].byte)
                   THEN p + 1 + OperandBytes(buf[p].byte) ELSE p + 1

\* Whether e is what the instruction at its position is translated into.
Faithful(e) ==
  LET p == e.at
      b == buf[p].byte
  IN  /\ e.op \notin {"prologue", "ret"} => p \in 1..Len(buf)
      /\ e.op = "fall" => buf[p].label # NoLabel /\ e.dests = <<buf[p].label>>
      /\ e.op = "condbr" =>
           /\ uuCb[b] = "bra" /\ buf[p].dst # NoLabel
           /\ p + 2 \in 1..Len(buf) /\ buf[p + 2].label # NoLabel
           /\ e.dests = <<buf[p].dst, buf[p + 2].label>>
      /\ e.op = "br" => /\ uuCb[b] \in {"jump", "JSR"} /\ buf[p].dst # NoLabel
                        /\ e.dests = <<buf[p].dst>>
      /\ e.op = "assoc" =>
           /\ uuCb[b] = "JSR" /\ buf[p].dst # NoLabel
           /\ p + 3 \in 1..Len(buf) /\ buf[p + 3].label # NoLabel
           /\ e.dests = <<buf[p + 3].label>>
      /\ e.op = "indirectbr" => uuCb[b] = "RTS" /\ e.dests = indBrDests
      /\ e.op \in Straight =>
           /\ uuCb[b] \notin Transfers
           /\ e.op = IF IsStandard(b) THEN Operation(b) ELSE uuCb[b]

\* The position the entry after e is at.
NextAt(e) == IF e.op = "prologue" THEN 1
             ELSE IF e.op = "assoc" THEN e.at ELSE StraightNext(e.at)

\* An entry of block bb at position p may come after e.
MayFollow(e, bb, p) ==
  IF e.op \in Terminators
  THEN p \in 1..Len(buf) /\ bb = buf[p].label /\ bb # NoLabel
  ELSE bb = e.bb /\ p = NextAt(e)
\* The br of a JSR comes right after its assoc.
EndsCall(f)   == f.op = "br" /\ uuCb[buf[f.at].byte] = "JSR"
Follows(e, f) == MayFollow(e, f.bb, f.at) /\ (e.op = "assoc" <=> EndsCall(f))

(* The code of a function: a prologue, then entries that each stand for    *)
(* their instruction; one that does not end a block is followed in the     *)
(* same block by the entry of the next instruction, and one that does by   *)
(* the first entry of the block of a label.                                *)
Flow(c) ==
  /\ Len(c) >= 1 /\ c[1].op = "prologue" /\ c[1].bb = Origin
  /\ \A n \in 2..Len(c) : /\ c[n].op # "prologue"
                          /\ Faithful(c[n])
                          /\ Follows(c[n - 1], c[n])

\* What is emitted next continues the code.
Ready == /\ code[Len(code)].op # "assoc"
         /\ MayFollow(code[Len(code)], curBB, i)

FlowInv == phase # "preprocess" => Flow(code) /\ (Open => Ready)

\* Code that flows still does when an entry that follows is appended.
LEMMA FlowAppended ==
  ASSUME NEW c \in Seq(IRCode), Flow(c), NEW e \in IRCode,
         Faithful(e), Follows(c[Len(c)], e), e.op # "prologue"
  PROVE  Flow(Append(c, e)) /\ Append(c, e)[Len(Append(c, e))] = e
  <1> DEFINE d == Append(c, e)
  <1>1. /\ Len(d) = Len(c) + 1 /\ Len(c) \in Nat
        /\ \A n \in 1..Len(c) : d[n] = c[n]
        /\ d[Len(c) + 1] = e
    BY Appended
  <1> HIDE DEF d
  <1>2. Len(c) >= 1 /\ c[1].op = "prologue" /\ c[1].bb = Origin
    BY DEF Flow
  <1>3. ASSUME NEW n \in 2..Len(d)
        PROVE  d[n].op # "prologue" /\ Faithful(d[n]) /\ Follows(d[n - 1], d[n])
    <2>1. CASE n = Len(c) + 1
      <3>1. d[n] = e /\ n - 1 = Len(c) /\ d[Len(c)] = c[Len(c)]
        BY <1>1, <1>2, <2>1
      <3> QED BY <3>1
    <2>2. CASE n \in 2..Len(c)
      <3>1. d[n] = c[n] /\ d[n - 1] = c[n - 1]
        BY <1>1, <2>2
      <3>2. c[n].op # "prologue" /\ Faithful(c[n]) /\ Follows(c[n - 1], c[n])
        BY <2>2 DEF Flow
      <3> QED BY <3>1, <3>2
    <2> QED BY <1>1, <2>1, <2>2
  <1>4. Len(d) >= 1 /\ d[1].op = "prologue" /\ d[1].bb = Origin
    BY <1>1, <1>2
  <1>5. Flow(d)
    BY <1>3, <1>4 DEF Flow
  <1> QED BY <1>1, <1>5 DEF d

\* The operations of the tables are none the translator adds itself.
LEMMA StraightNames ==
  ASSUME NEW b \in Byte
  PROVE  /\ IsStandard(b) => Operation(b) \in Straight
         /\ ~IsStandard(b) /\ uuCb[b] \notin Transfers => uuCb[b] \in Straight
  <1>1. Mode(b) + 1 \in 1..4 /\ Opcode(b) + 1 \in 1..8
    BY DEF Byte, Mode, Opcode
  <1>2. \A m \in 1..4, o \in 1..8 : opCb[m][o] \notin {"prologue", "assoc"}
    BY DEF opCb, NoCb
  <1>3. Operation(b) \notin {"prologue", "assoc"}
    BY <1>1, <1>2 DEF Operation
  <1>4. uuCb[b] \notin {"prologue", "assoc"}
    BY SMTT(60) DEF uuCb, Byte, Row, Column, ColumnX0, ColumnX8, ColumnXA, NoCb
  <1> QED BY <1>3, <1>4, OperationNamed, StraightOps DEF Straight

\* Every step keeps the flow of the code.
LEMMA NextFlow ==
  TypeOK /\ SecondPassInBounds /\ Untouched /\ FlowInv /\ [Next]_vars => FlowInv'
  <1> SUFFICES ASSUME TypeOK, SecondPassInBounds, Untouched, FlowInv, [Next]_vars
               PROVE  FlowInv'
    OBVIOUS
  <1> DEFINE b == buf[i].byte
  <1>0. /\ Len(buf) \in Nat /\ i \in Nat \ {0} /\ curBB \in Addr
        /\ code \in Seq(IRCode) /\ \A a \in bbMap : a \in Addr /\ a # NoLabel
    BY BufferTyped DEF TypeOK, Addr, NoLabel
  <1>1. CASE PpStep \/ PpUndefined
    <2>1. CASE PpStep
      <3>1. phase' = "preprocess"
        BY <2>1 DEF PpStep, PpSkip, _pp_mklb0, _pp_mklb1, _pp_mklb2, AtPreprocess
      <3> QED BY <3>1 DEF FlowInv
    <2>2. CASE PpUndefined
      <3>1. phase = "preprocess" /\ phase' = "undefined" /\ code' = code
        BY <2>2 DEF PpUndefined, ReadOutside, emitVars
      <3>2. Len(code') = 1 /\ code'[1].op = "prologue" /\ code'[1].bb = Origin
        BY <3>1 DEF Untouched
      <3> QED BY <3>1, <3>2 DEF FlowInv, Flow, Open
    <2> QED BY <1>1, <2>1, <2>2
  <1>2. CASE PpDone
    <2>1. /\ phase = "preprocess" /\ phase' = "label" /\ i' = 1
          /\ curBB' = curBB /\ code' = code
      BY <1>2 DEF PpDone, emitVars
    <2>2. /\ Len(code') = 1 /\ code'[1].op = "prologue" /\ code'[1].bb = Origin
          /\ curBB = Origin
      BY <2>1 DEF Untouched
    <2>3. Flow(code)'
      BY <2>2 DEF Flow
    <2>4. Ready'
      BY <2>1, <2>2 DEF Ready, MayFollow, NextAt, Terminators
    <2> QED BY <2>3, <2>4 DEF FlowInv
  <1>4. ASSUME UNCHANGED passVars, phase # "preprocess", ~Open', code' = code
        PROVE  FlowInv'
    <2>1. Flow(code')
      BY <1>4 DEF FlowInv
    <2>2. Flow(code)'
      BY <1>4, <2>1 DEF passVars, Flow, Faithful, Follows, EndsCall,
              MayFollow, NextAt, StraightNext
    <2> QED BY <1>4, <2>2 DEF FlowInv
  <1>5. ASSUME UNCHANGED passVars, Open, phase' # "preprocess",
               Flow(code'), Open' => Ready'
        PROVE  FlowInv'
    <2>1. Flow(code)'
      BY <1>5 DEF passVars, Flow, Faithful, Follows, EndsCall,
              MayFollow, NextAt, StraightNext
    <2> QED BY <1>5, <2>1 DEF FlowInv
  <1>6. Open => Flow(code) /\ Ready
    BY DEF Open, FlowInv
  <1>7. CASE UNCHANGED vars
    <2>1. UNCHANGED <<passVars, code, phase, i, curBB>>
      BY <1>7 DEF vars, passVars
    <2>2. ASSUME phase # "preprocess" PROVE Flow(code)'
      <3>1. Flow(code) /\ code' = code
        BY <2>1, <2>2 DEF FlowInv
      <3> QED BY <2>1, <3>1 DEF passVars, Flow, Faithful, Follows, EndsCall,
                  MayFollow, NextAt, StraightNext
    <2>3. ASSUME Open PROVE Ready'
      BY <1>6, <2>1, <2>3 DEF passVars, Ready, MayFollow, NextAt, StraightNext
    <2> QED BY <2>1, <2>2, <2>3 DEF FlowInv, Open
  <1>8. CASE StayInBlock
    <2>1. /\ phase = "label" /\ phase' = "generate"
          /\ UNCHANGED passVars /\ UNCHANGED <<buf, i, curBB, code>>
      BY <1>8 DEF StayInBlock, passVars
    <2>2. Open /\ Flow(code) /\ Ready
      BY <1>6, <2>1 DEF Open
    <2>3. Flow(code') /\ Ready'
      BY <2>1, <2>2 DEF Ready, MayFollow, NextAt, StraightNext
    <2> QED BY <1>5, <2>1, <2>2, <2>3
  \* One entry is emitted at i, and what may follow it is ready.
  <1>9. ASSUME UNCHANGED passVars, Open, phase' # "preprocess",
               NEW op \in Operations, NEW dests, IR(op, dests) \in IRCode,
               op # "prologue", Faithful(IR(op, dests)), ~EndsCall(IR(op, dests)),
               code' = Append(code, IR(op, dests)),
               Open' => op # "assoc" /\ MayFollow(IR(op, dests), curBB', i')
        PROVE  FlowInv'
    <2> DEFINE e == IR(op, dests)
    <2>1. Flow(code) /\ Ready
      BY <1>6, <1>9
    <2>2. e.bb = curBB /\ e.at = i /\ e.op = op
      BY DEF IR
    <2>3. Follows(code[Len(code)], e)
      BY <1>9, <2>1, <2>2 DEF Ready, Follows
    <2>4. Flow(code') /\ code'[Len(code')] = e
      <3> HIDE DEF e
      <3> QED BY <1>0, <1>9, <2>1, <2>2, <2>3, FlowAppended DEF e
    <2>5. Open' => Ready'
      <3>1. SUFFICES ASSUME Open' PROVE Ready'
        OBVIOUS
      <3>2. op # "assoc" /\ MayFollow(e, curBB', i')
        BY <1>9, <3>1
      <3> HIDE DEF e
      <3> QED BY <1>9, <2>2, <2>4, <3>2
              DEF Ready, MayFollow, NextAt, StraightNext, passVars
    <2> QED BY <1>5, <1>9, <2>4, <2>5
  <1>10. ASSUME phase = "generate"
         PROVE  i \in 1..Len(buf) /\ b \in Byte /\ Open
    BY <1>0, <1>10, BufferTyped DEF SecondPassInBounds, Open
  <1>11. CASE EnterLabel
    <2>1. CASE buf[i].label \notin bbMap
      <3>1. UNCHANGED passVars /\ phase = "label" /\ phase' = "thrown" /\ code' = code
        BY <1>11, <2>1 DEF EnterLabel, emitVars
      <3> QED BY <1>4, <3>1 DEF Open
    <2>2. CASE buf[i].label \in bbMap
      <3> DEFINE label == buf[i].label
                 e     == IR("fall", <<label>>)
      <3>1. /\ phase = "label" /\ phase' = "generate" /\ InBuffer(i)
            /\ label # NoLabel /\ code' = Append(code, e)
            /\ curBB' = label /\ UNCHANGED passVars /\ i' = i
        BY <1>11, <2>2 DEF EnterLabel
      <3>2. e \in IRCode /\ "fall" \in Operations
        <4>1. label \in Addr
          BY <1>0, <2>2
        <4> QED BY <4>1, EntriesTyped DEF Operations, Terminators
      <3>3. e.bb = curBB /\ e.at = i /\ e.op = "fall" /\ e.dests = <<label>>
        BY DEF IR
      <3>4. Faithful(e)
        BY <3>1, <3>3 DEF Faithful, InBuffer, Straight, Terminators
      <3>5. MayFollow(e, curBB', i') /\ ~EndsCall(e)
        BY <3>1, <3>3 DEF MayFollow, Terminators, InBuffer, EndsCall
      <3>6. Open
        BY <3>1 DEF Open
      <3> HIDE DEF label
      <3> QED BY <1>9, <3>1, <3>2, <3>4, <3>5, <3>6
    <2> QED BY <2>1, <2>2
  <1>12. ASSUME NEW op \in Straight, NEW n \in {0, 1, 2}, phase = "generate",
                EmitStraight(op, n), uuCb[b] \notin Transfers,
                op = (IF IsStandard(b) THEN Operation(b) ELSE uuCb[b]),
                n = (IF IsStandard(b) THEN OperandBytes(b) ELSE 0)
         PROVE  FlowInv'
    <2> DEFINE e == IR(op, <<>>)
    <2>1. /\ code' = Append(code, e) /\ i' = i + 1 + n /\ phase' = "label"
          /\ UNCHANGED passVars /\ curBB' = curBB
      BY <1>12 DEF EmitStraight, Advanced
    <2>2. e \in IRCode /\ op \in Operations
      BY EntriesTyped DEF Straight
    <2>3. e.bb = curBB /\ e.at = i /\ e.op = op
      BY DEF IR
    <2>4. /\ op \notin Terminators /\ op # "prologue" /\ op # "assoc"
          /\ ~EndsCall(e)
      BY <2>3 DEF Straight, Terminators, EndsCall
    <2>5. Faithful(e)
      BY <1>10, <1>12, <2>3, <2>4 DEF Faithful, Terminators
    <2>6. i' = StraightNext(i)
      BY <1>0, <1>12, <2>1 DEF StraightNext
    <2>7. MayFollow(e, curBB', i')
      BY <2>1, <2>3, <2>4, <2>6 DEF MayFollow, NextAt
    <2> HIDE DEF b
    <2> QED BY <1>9, <1>10, <1>12, <2>1, <2>2, <2>4, <2>5, <2>7
  <1>13. CASE Standard
    <2>1. CASE InBuffer(i + OperandBytes(b))
      <3>1. /\ EmitStraight(Operation(b), OperandBytes(b)) /\ phase = "generate"
            /\ IsStandard(b)
        BY <1>13, <2>1 DEF Standard
      <3>2. Operation(b) \in Straight /\ OperandBytes(b) \in {0, 1, 2}
        BY <1>10, <3>1, StraightNames, OperandRange
      <3>3. uuCb[b] \notin Transfers
        BY <3>1 DEF IsStandard, Transfers, NoCb
      <3> HIDE DEF b
      <3> QED BY <1>12, <3>1, <3>2, <3>3
    <2>2. CASE ~InBuffer(i + OperandBytes(b))
      <3>1. /\ UNCHANGED passVars /\ phase = "generate" /\ code' = code
            /\ phase' \in {"thrown", "undefined"}
        BY <1>13, <2>2 DEF Standard, Throw, ReadOutside, emitVars
      <3> QED BY <1>4, <3>1 DEF Open
    <2> QED BY <2>1, <2>2
  <1>14. CASE Implied
    <2>1. /\ EmitStraight(uuCb[b], 0) /\ phase = "generate"
          /\ ~IsStandard(b) /\ uuCb[b] \notin Transfers
      BY <1>14 DEF Implied
    <2>2. uuCb[b] \in Straight
      BY <1>10, <2>1, StraightNames
    <2> HIDE DEF b
    <2> QED BY <1>12, <2>1, <2>2
  <1>15. CASE BadFunctionCall \/ UnsupportedInstruction \/ NonexistantBranch
              \/ TransferUndefined \/ output_bitcode
    <2>1. /\ UNCHANGED passVars /\ code' = code /\ phase # "preprocess"
          /\ phase' \notin {"label", "generate"}
      BY <1>15 DEF BadFunctionCall, UnsupportedInstruction, Throw,
                   NonexistantBranch, TransferUndefined, ReadOutside,
                   output_bitcode, emitVars
    <2> QED BY <1>4, <2>1 DEF Open
  \* The four transfers, which end the block and go on at the next label.
  <1>16. ASSUME NEW cb, NEW ir, Transfer(cb, ir)
         PROVE  /\ phase = "generate" /\ phase' = "label" /\ uuCb[b] = cb
                /\ code' = code \o ir /\ UNCHANGED passVars /\ Open
                /\ After \in 1..Len(buf) /\ i' = After
                /\ nextBB \in Addr /\ nextBB # NoLabel
                /\ curBB' = buf[After].label /\ curBB' = nextBB
                /\ cb # "RTS" => destBB \in Addr /\ destBB # NoLabel
    <2>1. /\ nextBB \in bbMap
          /\ cb # "RTS" => destBB \in bbMap
      BY <1>16 DEF Transfer, BlocksFound
    <2>2. curBB' = buf[After].label
      BY <1>16 DEF Transfer, nextBB
    <2> QED BY <1>0, <1>16, <2>1, <2>2 DEF Transfer, InBuffer, Open
  <1>17. ASSUME NEW cb, NEW ir, Transfer(cb, ir), NEW op \in Terminators, NEW dests
         PROVE  MayFollow(IR(op, dests), curBB', i')
    <2>1. IR(op, dests).op = op
      BY DEF IR
    <2> QED BY <1>16, <1>17, <2>1 DEF MayFollow
  <1>18. ASSUME NEW op, NEW dests, IR(op, dests) \in IRCode
         PROVE  /\ code \o <<IR(op, dests)>> = Append(code, IR(op, dests))
                /\ IR(op, dests).op = op /\ IR(op, dests).at = i
                /\ IR(op, dests).bb = curBB /\ IR(op, dests).dests = dests
    <2> DEFINE e == IR(op, dests)
    <2>1. e.op = op /\ e.at = i /\ e.bb = curBB /\ e.dests = dests
      BY DEF IR
    <2> HIDE DEF e
    <2>2. code \o <<e>> = Append(code, e)
      BY <1>0, <1>18 DEF e
    <2> QED BY <2>1, <2>2 DEF e
  <1>19. CASE _uu_bra
    <2> DEFINE e == IR("condbr", <<destBB, nextBB>>)
    <2>1. Transfer("bra", <<e>>)
      BY <1>19 DEF _uu_bra
    <2>2. e \in IRCode
      BY <1>16, <2>1, EntriesTyped
    <2>3. /\ code \o <<e>> = Append(code, e) /\ e.op = "condbr" /\ e.at = i
          /\ e.dests = <<destBB, nextBB>>
      BY <1>18, <2>2
    <2>4. MayFollow(e, curBB', i')
      BY <1>17, <2>1 DEF Terminators
    <2>5. uuCb[b] = "bra" /\ i + 2 \in 1..Len(buf)
          /\ nextBB = buf[i + 2].label /\ destBB = buf[i].dst
      BY <1>16, <2>1 DEF After, nextBB, destBB
    <2>6. i \in 1..Len(buf)
      BY <1>10, <1>16, <2>1
    <2>7. Faithful(e) /\ ~EndsCall(e)
      BY <1>16, <2>1, <2>3, <2>5, <2>6
         DEF Faithful, Straight, Terminators, EndsCall
    <2>8. /\ Open /\ UNCHANGED passVars /\ phase' = "label" /\ code' = Append(code, e)
          /\ "condbr" \in Operations
      BY <1>16, <2>1, <2>3 DEF Operations, Terminators
    <2> HIDE DEF b
    <2> QED BY <1>9, <2>2, <2>4, <2>7, <2>8
  <1>20. CASE _uu_jump
    <2> DEFINE e == IR("br", <<destBB>>)
    <2>1. Transfer("jump", <<e>>)
      BY <1>20 DEF _uu_jump
    <2>2. e \in IRCode
      BY <1>16, <2>1, EntriesTyped
    <2>3. /\ code \o <<e>> = Append(code, e) /\ e.op = "br" /\ e.at = i
          /\ e.dests = <<destBB>>
      BY <1>18, <2>2
    <2>4. MayFollow(e, curBB', i')
      BY <1>17, <2>1 DEF Terminators
    <2>5. uuCb[b] = "jump" /\ destBB = buf[i].dst /\ i \in 1..Len(buf)
      BY <1>10, <1>16, <2>1 DEF destBB
    <2>6. Faithful(e) /\ ~EndsCall(e)
      BY <1>16, <2>1, <2>3, <2>5 DEF Faithful, Straight, Terminators, EndsCall
    <2>7. /\ Open /\ UNCHANGED passVars /\ phase' = "label" /\ code' = Append(code, e)
          /\ "br" \in Operations
      BY <1>16, <2>1, <2>3 DEF Operations, Terminators
    <2> HIDE DEF b
    <2> QED BY <1>9, <2>2, <2>4, <2>6, <2>7
  <1>21. CASE _uu_RTS
    <2> DEFINE e == IR("indirectbr", indBrDests)
    <2>1. Transfer("RTS", <<e>>)
      BY <1>21 DEF _uu_RTS
    <2>2. e \in IRCode
      BY EntriesTyped
    <2>3. /\ code \o <<e>> = Append(code, e) /\ e.op = "indirectbr" /\ e.at = i
          /\ e.dests = indBrDests
      BY <1>18, <2>2
    <2>4. MayFollow(e, curBB', i')
      BY <1>17, <2>1 DEF Terminators
    <2>5. uuCb[b] = "RTS" /\ i \in 1..Len(buf)
      BY <1>10, <1>16, <2>1
    <2>6. Faithful(e) /\ ~EndsCall(e)
      BY <2>3, <2>5 DEF Faithful, Straight, Terminators, EndsCall
    <2>7. /\ Open /\ UNCHANGED passVars /\ phase' = "label" /\ code' = Append(code, e)
          /\ "indirectbr" \in Operations
      BY <1>16, <2>1, <2>3 DEF Operations, Terminators
    <2> HIDE DEF b
    <2> QED BY <1>9, <2>2, <2>4, <2>6, <2>7
  <1>22. CASE _uu_JSR
    <2> DEFINE a == IR("assoc", <<nextBB>>)
               e == IR("br", <<destBB>>)
               c == Append(code, a)
    <2>1. Transfer("JSR", <<a, e>>)
      BY <1>22 DEF _uu_JSR
    <2>2. a \in IRCode /\ e \in IRCode
      BY <1>16, <2>1, EntriesTyped
    <2>3. /\ a.op = "assoc" /\ a.at = i /\ a.bb = curBB /\ a.dests = <<nextBB>>
          /\ e.op = "br" /\ e.at = i /\ e.bb = curBB /\ e.dests = <<destBB>>
      BY DEF IR
    <2>4. MayFollow(e, curBB', i')
      BY <1>17, <2>1 DEF Terminators
    <2>5. uuCb[b] = "JSR" /\ i \in 1..Len(buf) /\ i + 3 \in 1..Len(buf)
          /\ nextBB = buf[i + 3].label /\ destBB = buf[i].dst
      BY <1>10, <1>16, <2>1 DEF After, nextBB, destBB
    <2>6. Faithful(a) /\ Faithful(e)
      BY <1>16, <2>1, <2>3, <2>5 DEF Faithful, Straight, Terminators
    <2>7. /\ Open /\ UNCHANGED passVars /\ phase' = "label"
          /\ code' = code \o <<a, e>>
      BY <1>16, <2>1
    <2>8. Flow(code) /\ Ready
      BY <1>6, <2>7
    <2>9. Follows(code[Len(code)], a)
      BY <2>3, <2>8 DEF Ready, Follows, EndsCall
    <2>10. Follows(a, e)
      BY <2>3, <2>5 DEF Follows, EndsCall, MayFollow, NextAt, Terminators
    <2> HIDE DEF a, e
    <2>11. code \o <<a, e>> = Append(c, e) /\ c \in Seq(IRCode)
      BY <1>0, <2>2
    <2>12. Flow(c) /\ c[Len(c)] = a
      BY <1>0, <2>2, <2>3, <2>6, <2>8, <2>9, FlowAppended
    <2> HIDE DEF c
    <2>13. Flow(code') /\ code'[Len(code')] = e
      BY <2>2, <2>3, <2>6, <2>7, <2>10, <2>11, <2>12, FlowAppended
    <2>14. e.op \in Terminators
      BY <2>3 DEF Terminators
    <2>15. Ready'
      BY <2>3, <2>4, <2>7, <2>13, <2>14 DEF Ready, MayFollow, passVars
    <2> QED BY <1>5, <2>7, <2>13, <2>15
  <1>23. CASE Finish
    <2> DEFINE e == IR("ret", <<>>)
    <2>1. /\ phase = "label" /\ phase' = "generated" /\ code' = Append(code, e)
          /\ UNCHANGED passVars
      BY <1>23 DEF Finish
    <2>2. e \in IRCode /\ "ret" \in Operations
      BY EntriesTyped DEF Operations, Terminators
    <2>3. Faithful(e) /\ ~EndsCall(e)
      BY DEF IR, Faithful, Straight, Terminators, EndsCall
    <2>4. Open /\ ~Open'
      BY <2>1 DEF Open
    <2> QED BY <1>9, <2>1, <2>2, <2>3, <2>4
  <1> QED BY <1>1, <1>2, <1>7, <1>8, <1>11, <1>13, <1>14, <1>15, <1>19, <1>20,
             <1>21, <1>22, <1>23
          DEF Next, Step, Done, FirstPass, SecondPass, PpStep

(* What holds in every reachable state, and is kept by every step of the   *)
(* translator from a state it holds in.                                    *)
Consistent ==
  /\ TypeOK /\ SecondPassInBounds /\ LabelsInv /\ Layout /\ OpenBlock /\ BlocksInv
  /\ Targets /\ FlowInv /\ ReturnDestsAreContinuations

\* The invariant holds at first.
LEMMA InitConsistent == Init => Consistent
  <1>1. Init => OpenBlock /\ BlocksInv
    BY DEF Init, OpenBlock, BlocksInv, Untouched, PassesDone
  <1>2. Init => FlowInv /\ ReturnDestsAreContinuations
    BY DEF Init, FlowInv, ReturnDestsAreContinuations
  <1> QED BY <1>1, <1>2, InitTypeOK, InitLabelsInv, InitLayout, InitTargets
          DEF Consistent

\* Every step keeps it.
LEMMA NextConsistent == Consistent /\ [Next]_vars => Consistent'
  <1>1. Consistent => Untouched
    BY DEF Consistent, BlocksInv
  <1> QED BY <1>1, NextTypeOK, NextLabelsInv, NextLayout, NextOpenBlock, NextBlocks,
             NextTargets, NextFlow, NextReturnDests
          DEF Consistent

\* So it always holds.
LEMMA FlowInvariant == Spec => []Consistent
  BY InitConsistent, NextConsistent, PTL DEF Spec

------------------------------------------------------------------------------
(* The function that was written for a translatable program.               *)

\* Its blocks are complete.
Complete == Consistent /\ phase = "written" /\ Translatable

\* What a complete translation consists of.
LEMMA CompleteIs ==
  ASSUME Complete
  PROVE  /\ WellFormed /\ Flow(code) /\ Blocks /\ OpenBlocks = {}
         /\ code \in Seq(IRCode) /\ Len(code) \in Nat /\ Len(buf) \in Nat
  <1>1. /\ phase = "written" /\ Translatable /\ WellFormedOutput /\ BlocksInv
        /\ FlowInv /\ TypeOK
    BY OutputIs DEF Complete, Consistent
  <1>2. WellFormed /\ Flow(code) /\ OpenBlocks = {}
    BY <1>1 DEF WellFormedOutput, FlowInv, OpenBlocks, Open
  <1>3. Blocks
    BY <1>1 DEF BlocksInv, PassesDone, Sound, Translatable
  <1> QED BY <1>1, <1>2, <1>3, BufferTyped DEF TypeOK

\* An entry that ends no block goes on with the next one of its block.
LEMMA NextIs ==
  ASSUME Complete, NEW n \in 1..Len(code), code[n].op \notin Terminators
  PROVE  /\ n + 1 \in 1..Len(code) /\ NextOf(n) = n + 1
         /\ code[n + 1].bb = code[n].bb
         /\ Follows(code[n], code[n + 1]) /\ Faithful(code[n + 1])
         /\ code[n + 1].op # "prologue"
  <1>0. WellFormed /\ Flow(code) /\ Len(code) \in Nat
    BY CompleteIs
  <1>1. PICK m \in CodeOf(code[n].bb) : ~(m <= n)
    BY <1>0 DEF WellFormed, IsLastOf
  <1>2. m \in 1..Len(code)
    BY <1>1 DEF CodeOf
  <1>3. n + 1 \in 2..Len(code) /\ n + 1 - 1 = n
    BY <1>0, <1>1, <1>2
  <1>4. /\ Follows(code[n], code[n + 1]) /\ Faithful(code[n + 1])
        /\ code[n + 1].op # "prologue"
    BY <1>0, <1>3 DEF Flow
  <1>5. code[n + 1].bb = code[n].bb
    BY <1>4 DEF Follows, MayFollow
  <1>6. n + 1 \in CodeOf(code[n].bb)
    BY <1>3, <1>5 DEF CodeOf
  <1> DEFINE Next1(m1) == m1 > n /\ \A l \in CodeOf(code[n].bb) : l <= n \/ m1 <= l
  <1>7. \A l \in CodeOf(code[n].bb) : l \in Nat
    BY DEF CodeOf
  <1>8. Next1(n + 1)
    BY <1>7
  <1>9. \A m1 \in CodeOf(code[n].bb) : Next1(m1) => m1 = n + 1
    <2>1. SUFFICES ASSUME NEW m1 \in CodeOf(code[n].bb), Next1(m1) PROVE m1 = n + 1
      OBVIOUS
    <2>2. m1 > n /\ (n + 1 <= n \/ m1 <= n + 1) /\ m1 \in Nat
      BY <1>6, <1>7, <2>1
    <2> QED BY <2>2
  <1>10. NextOf(n) = CHOOSE m1 \in CodeOf(code[n].bb) : Next1(m1)
    BY DEF NextOf
  <1> HIDE DEF Next1
  <1>11. NextOf(n) = n + 1
    BY <1>6, <1>8, <1>9, <1>10
  <1> QED BY <1>3, <1>4, <1>5, <1>11

\* A block has a first entry.
LEMMA HeadExists ==
  ASSUME Complete, NEW bb \in BlockSet
  PROVE  \E h \in CodeOf(bb) : /\ \A n \in CodeOf(bb) : h <= n
                               /\ h = CHOOSE m \in CodeOf(bb) :
                                        \A n \in CodeOf(bb) : m <= n
  <1>1. CodeOf(bb) # {} /\ CodeOf(bb) \in SUBSET (1..Len(code)) /\ Len(code) \in Nat
    BY CompleteIs DEF WellFormed, CodeOf
  <1>2. PICK h \in CodeOf(bb) : \A n \in CodeOf(bb) : h <= n
    BY <1>1, LeastIndex
  <1>3. \A m \in CodeOf(bb) : (\A n \in CodeOf(bb) : m <= n) => m = h
    <2>1. SUFFICES ASSUME NEW m \in CodeOf(bb), \A n \in CodeOf(bb) : m <= n
                   PROVE  m = h
      OBVIOUS
    <2>2. m <= h /\ h <= m /\ m \in Nat /\ h \in Nat
      BY <1>1, <1>2, <2>1
    <2> QED BY <2>2
  <1> QED BY <1>2, <1>3

(* The block of a label begins with the code of the element that has it,   *)
(* after the end of some other block.                                      *)
LEMMA LabelHead ==
  ASSUME Complete, NEW p \in 1..Len(buf), buf[p].label # NoLabel
  PROVE  /\ buf[p].label \in BlockSet /\ buf[p].label = buf[p].addr
         /\ \E h \in 2..Len(code) :
              /\ h = CHOOSE m \in CodeOf(buf[p].label) :
                       \A n \in CodeOf(buf[p].label) : m <= n
              /\ code[h].at = p /\ ~EndsCall(code[h])
  <1> DEFINE bb == buf[p].label
  <1>0. /\ Flow(code) /\ Blocks /\ OpenBlocks = {} /\ Len(buf) \in Nat
        /\ Len(code) \in Nat
    BY CompleteIs
  <1>1. UniqueAddrs /\ buf[1].label = NoLabel /\ p \in starts2
    BY DEF Complete, Translatable
  <1>2. LabelIsAddr /\ FirstIsOrigin
    BY DEF Complete, Consistent, Layout
  <1>3. \A q \in 1..Len(buf) : buf[q].label # NoLabel => buf[q].label = buf[q].addr
    BY <1>2 DEF LabelIsAddr
  <1>4. bb \in BlockSet
    BY <1>0, <1>1 DEF Blocks, Entered
  <1>5. bb # Origin
    <2>1. p # 1 /\ Len(buf) > 1 /\ 1 \in 1..Len(buf)
      BY <1>0, <1>1
    <2>2. buf[1].addr = Origin
      BY <1>2, <2>1 DEF FirstIsOrigin
    <2> QED BY <1>1, <1>3, <2>1, <2>2 DEF UniqueAddrs
  <1>6. PICK h \in CodeOf(bb) : /\ \A n \in CodeOf(bb) : h <= n
                                /\ h = CHOOSE m \in CodeOf(bb) :
                                         \A n \in CodeOf(bb) : m <= n
    BY <1>4, HeadExists
  <1>7. h \in 1..Len(code) /\ code[h].bb = bb
    BY <1>6 DEF CodeOf
  <1>8. h \in 2..Len(code)
    BY <1>0, <1>5, <1>7 DEF Flow
  <1>9. Follows(code[h - 1], code[h]) /\ h - 1 \in 1..Len(code)
    BY <1>0, <1>8 DEF Flow
  <1>10. code[h - 1].op \in Terminators
    <2>1. SUFFICES ASSUME code[h - 1].op \notin Terminators PROVE FALSE
      OBVIOUS
    <2>2. code[h - 1].bb = bb
      BY <1>7, <1>9, <2>1 DEF Follows, MayFollow
    <2>3. h - 1 \in CodeOf(bb)
      BY <1>9, <2>2 DEF CodeOf
    <2> QED BY <1>6, <1>8, <2>3
  <1>11. code[h].at \in 1..Len(buf) /\ buf[code[h].at].label = bb
    BY <1>7, <1>9, <1>10 DEF Follows, MayFollow
  <1>12. code[h].at = p
    BY <1>1, <1>3, <1>11 DEF UniqueAddrs
  <1>13. ~EndsCall(code[h])
    BY <1>9, <1>10 DEF Follows, Terminators
  <1> QED BY <1>3, <1>4, <1>6, <1>8, <1>12, <1>13

\* The entry of the block of a label is the position with the label.
LEMMA EntryIs ==
  ASSUME Complete, NEW p \in 1..Len(buf), buf[p].label # NoLabel
  PROVE  /\ buf[p].label \in BlockSet /\ EntryOf(buf[p].label) = p
         /\ buf[p].label = buf[p].addr
  BY LabelHead DEF EntryOf

\* The block a branch or a jump goes to begins where its operand leads.
LEMMA TargetIs ==
  ASSUME Complete, NEW p \in 1..Len(buf), buf[p].dst # NoLabel
  PROVE  \E t \in 1..Len(buf) : /\ LeadsTo(p, t) /\ EntryOf(buf[p].dst) = t
                                /\ buf[p].dst \in BlockSet
  <1>1. PICK t \in 1..Len(buf) : LeadsTo(p, t)
    BY DEF Complete, Consistent, Targets
  <1>2. /\ EntryOf(buf[t].label) = t /\ buf[t].label = buf[p].dst
        /\ buf[t].label \in BlockSet
    BY <1>1, EntryIs DEF LeadsTo
  <1> QED BY <1>1, <1>2

\* The block after a JSR, a destination of RTS, begins with the next element.
LEMMA ReturnIs ==
  ASSUME Complete, NEW m \in 1..Len(indBrDests)
  PROVE  \E p \in JSRs : /\ p + 3 \in 1..Len(buf)
                         /\ indBrDests[m] = buf[p + 3].addr
                         /\ EntryOf(indBrDests[m]) = p + 3
                         /\ indBrDests[m] \in BlockSet
  <1>1. PICK p \in starts1 : /\ buf[p].byte = \h20 /\ p + 3 <= Len(buf)
                             /\ indBrDests[m] = buf[p + 3].addr
    BY DEF Complete, Consistent, ReturnDestsAreContinuations
  <1>2. ppCb[buf[p].byte] = "mklb2"
    BY <1>1 DEF ppCb, Byte
  <1>3. buf[p + 3].label # NoLabel /\ starts1 \subseteq 1..Len(buf) /\ Len(buf) \in Nat
    BY <1>1, <1>2, BufferTyped DEF Complete, Consistent, LabelsInv, Preprocessed
  <1>4. p + 3 \in 1..Len(buf)
    BY <1>1, <1>3
  <1>5. /\ buf[p + 3].label = buf[p + 3].addr /\ EntryOf(buf[p + 3].label) = p + 3
        /\ buf[p + 3].label \in BlockSet
    BY <1>3, <1>4, EntryIs
  <1> QED BY <1>1, <1>4, <1>5 DEF JSRs

\* Whatever comes after an entry that transfers no control stands at, or
\* enters the block of, the next instruction.
LEMMA StraightOn ==
  ASSUME Complete, NEW n \in 1..Len(code), code[n].op \in Straight
  PROVE  IRSuccessors(n) = {StraightNext(code[n].at)}
  <1>1. code[n].op \notin Terminators /\ code[n].op \notin {"prologue", "assoc"}
    BY DEF Straight
  <1>2. /\ n + 1 \in 1..Len(code) /\ NextOf(n) = n + 1
        /\ Follows(code[n], code[n + 1]) /\ Faithful(code[n + 1])
        /\ code[n + 1].op # "prologue"
    BY <1>1, NextIs
  <1> DEFINE f == code[n + 1]
  <1>3. f.at = StraightNext(code[n].at)
    BY <1>1, <1>2 DEF Follows, MayFollow, NextAt
  <1>4. IRSuccessors(n) = IF f.op = "fall" THEN {EntryOf(d) : d \in DestsOf(n + 1)}
                          ELSE {f.at}
    BY <1>1, <1>2 DEF IRSuccessors
  <1>5. CASE f.op = "fall"
    <2>1. /\ f.at \in 1..Len(buf) /\ buf[f.at].label # NoLabel
          /\ f.dests = <<buf[f.at].label>>
      BY <1>2, <1>5 DEF Faithful
    <2>2. DestsOf(n + 1) = {buf[f.at].label}
      BY <2>1 DEF DestsOf
    <2>3. EntryOf(buf[f.at].label) = f.at
      BY <2>1, EntryIs
    <2> QED BY <1>3, <1>4, <1>5, <2>2, <2>3
  <1> QED BY <1>3, <1>4, <1>5

\* The flag and the value that the code reads off a branch's byte are those
\* of the 6502's instruction.
LEMMA BranchesAgree ==
  ASSUME NEW b \in Byte, uuCb[b] = "bra", NEW set
  PROVE  cond(b, set) <=> Taken(b, set)
  <1>1. ppCb[b] = "mklb1" /\ b \in 0..255
    BY TablesAgree DEF Byte
  <1>2. b % 32 = 16
    BY <1>1 DEF ppCb, Byte, NoCb
  <1>3. b \in {16, 48, 80, 112, 144, 176, 208, 240}
    BY <1>1, <1>2
  <1>4. /\ b \in {16, 48} => toTest(b) = "S"
        /\ b \in {80, 112} => toTest(b) = "V"
        /\ b \in {144, 176} => toTest(b) = "C"
        /\ b \in {208, 240} => toTest(b) = "Z"
    BY DEF toTest
  <1>5. bit(b) = IF b \in {48, 112, 176, 240} THEN 1 ELSE 0
    BY <1>3 DEF bit
  <1> QED BY <1>3, <1>4, <1>5 DEF cond, Taken

(* Whatever the file, the bitcode of a translatable program sends control  *)
(* from each instruction exactly where the guest's goes: along the         *)
(* operands of jumps, and of branches under the same flags, on to the next *)
(* instruction through whatever block it was put in, and from an RTS only  *)
(* to after a JSR.                                                         *)
THEOREM FlowCorrect == Spec => []ControlFlowPreserved
  <1>1. ASSUME Consistent PROVE ControlFlowPreserved
    <2>1. SUFFICES ASSUME phase = "written", Translatable, NEW n \in 1..Len(code),
                          code[n].op \notin {"prologue", "assoc", "fall", "ret"}
                   PROVE  /\ code[n].op # "indirectbr" =>
                               IRSuccessors(n) = GuestSuccessors(code[n].at)
                          /\ code[n].op = "indirectbr" =>
                               IRSuccessors(n) \subseteq GuestSuccessors(code[n].at)
                          /\ code[n].op = "condbr" =>
                               \A set \in SUBSET Flags :
                                 IRBranch(n, set) = GuestBranch(code[n].at, set)
      BY DEF ControlFlowPreserved
    <2> DEFINE op == code[n].op
               p  == code[n].at
               b  == buf[p].byte
    <2>2. Complete
      BY <1>1, <2>1 DEF Complete
    <2>3. Flow(code) /\ code \in Seq(IRCode) /\ Len(code) \in Nat /\ Len(buf) \in Nat
      BY <2>2, CompleteIs
    <2>4. n \in 2..Len(code)
      BY <2>1, <2>3 DEF Flow
    <2>5. Faithful(code[n]) /\ p \in 1..Len(buf)
      BY <2>1, <2>3, <2>4 DEF Flow, Faithful
    <2>6. b \in Byte
      BY <1>1, <2>5, BufferTyped DEF Consistent
    <2>7. op \in Operations
      <3>1. code[n] \in IRCode
        BY <2>3
      <3> QED BY <3>1 DEF IRCode
    <2>8. /\ uuCb[b] = "RTS" <=> ppCb[b] = "mklb0"
          /\ uuCb[b] = "bra" <=> ppCb[b] = "mklb1"
          /\ uuCb[b] \in {"jump", "JSR"} <=> ppCb[b] = "mklb2"
      BY <2>6, TablesAgree
    <2>9. CASE op = "indirectbr"
      <3>1. uuCb[b] = "RTS" /\ code[n].dests = indBrDests
        BY <2>5, <2>9 DEF Faithful
      <3>2. GuestSuccessors(p) = {q + 3 : q \in JSRs}
        BY <3>1 DEF GuestSuccessors
      <3>3. IRSuccessors(n) = {EntryOf(d) : d \in DestsOf(n)}
        BY <2>9 DEF IRSuccessors, Terminators
      <3>4. \A d \in DestsOf(n) : EntryOf(d) \in {q + 3 : q \in JSRs}
        BY <2>2, <3>1, ReturnIs DEF DestsOf
      <3> QED BY <2>9, <3>2, <3>3, <3>4
    <2>10. CASE op = "condbr"
      <3>1. /\ uuCb[b] = "bra" /\ buf[p].dst # NoLabel
            /\ p + 2 \in 1..Len(buf) /\ buf[p + 2].label # NoLabel
            /\ code[n].dests = <<buf[p].dst, buf[p + 2].label>>
        BY <2>5, <2>10 DEF Faithful
      <3>2. PICK t \in 1..Len(buf) : LeadsTo(p, t) /\ EntryOf(buf[p].dst) = t
        BY <2>2, <2>5, <3>1, TargetIs
      <3>3. t = p + 2 + offset(buf[p + 1].byte)
        BY <2>8, <3>1, <3>2 DEF LeadsTo
      <3>4. EntryOf(buf[p + 2].label) = p + 2
        BY <2>2, <3>1, EntryIs
      <3>5. DestsOf(n) = {buf[p].dst, buf[p + 2].label}
        <4>1. /\ Len(code[n].dests) = 2 /\ code[n].dests[1] = buf[p].dst
              /\ code[n].dests[2] = buf[p + 2].label
          BY <3>1
        <4> QED BY <4>1 DEF DestsOf
      <3>6. IRSuccessors(n) = {EntryOf(d) : d \in DestsOf(n)}
        BY <2>10 DEF IRSuccessors, Terminators
      <3>7. IRSuccessors(n) = {p + 2, t}
        BY <3>2, <3>4, <3>5, <3>6
      <3>8. GuestSuccessors(p) = {p + 2, p + 2 + offset(buf[p + 1].byte)}
        BY <3>1 DEF GuestSuccessors
      <3>9. ASSUME NEW set \in SUBSET Flags
            PROVE  IRBranch(n, set) = GuestBranch(p, set)
        <4>1. cond(b, set) <=> Taken(b, set)
          BY <2>6, <3>1, BranchesAgree
        <4>2. IRBranch(n, set) = EntryOf(IF cond(b, set) THEN buf[p].dst
                                         ELSE buf[p + 2].label)
          BY <3>1 DEF IRBranch
        <4> QED BY <3>2, <3>3, <3>4, <4>1, <4>2 DEF GuestBranch
      <3> QED BY <2>10, <3>3, <3>7, <3>8, <3>9
    <2>11. CASE op = "br"
      <3>1. /\ uuCb[b] \in {"jump", "JSR"} /\ buf[p].dst # NoLabel
            /\ code[n].dests = <<buf[p].dst>>
        BY <2>5, <2>11 DEF Faithful
      <3>2. PICK t \in 1..Len(buf) : LeadsTo(p, t) /\ EntryOf(buf[p].dst) = t
        BY <2>2, <2>5, <3>1, TargetIs
      <3>3. buf[t].addr = JumpAddress(p)
        BY <2>8, <3>1, <3>2 DEF LeadsTo
      <3>4. DestsOf(n) = {buf[p].dst}
        BY <3>1 DEF DestsOf
      <3>5. IRSuccessors(n) = {t}
        BY <2>11, <3>2, <3>4 DEF IRSuccessors, Terminators
      <3>6. UniqueAddrs
        BY <2>1 DEF Translatable
      <3>7. {q \in 1..Len(buf) : buf[q].addr = JumpAddress(p)} = {t}
        BY <3>2, <3>3, <3>6 DEF UniqueAddrs
      <3> QED BY <2>11, <3>1, <3>5, <3>7 DEF GuestSuccessors
    <2>12. CASE op \in Straight
      <3>1. uuCb[b] \notin Transfers
        BY <2>5, <2>12 DEF Faithful
      <3>2. GuestSuccessors(p) = {StraightNext(p)}
        BY <3>1 DEF GuestSuccessors, Transfers, StraightNext
      <3>3. IRSuccessors(n) = {StraightNext(p)}
        BY <2>2, <2>12, StraightOn
      <3>4. op \notin {"indirectbr", "condbr"}
        BY <2>12 DEF Straight, Terminators
      <3> QED BY <3>2, <3>3, <3>4
    <2> QED BY <2>1, <2>7, <2>9, <2>10, <2>11, <2>12 DEF Straight, Terminators
  <1> QED BY <1>1, FlowInvariant, PTL
==============================================================================
