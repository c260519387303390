------------------------ MODULE SegmentBuffer_proofs ------------------------
(***************************************************************************)
(* Proofs about SegmentBuffer, and about Laser around it, for every size   *)
(* of the ring, every program and every number of holds, resets, overrides *)
(* and parking motions.                                                    *)
(***************************************************************************)
EXTENDS Laser, SequenceTheorems, TLAPS

\* The block that st_prep_buffer has begun to cut into segments.
InMaking == plb # NoBlock \/ prep.flag.recalculate

\* What makes the types inductive: every slot of st_block_buffer that somebody
\* still refers to has been written.
SlotsWritten ==
  /\ \A i \in Slots : Queued(i) => sblk[seg[i].slot] # NoBlock
  /\ st.loaded => sblk[st.slot] # NoBlock
  /\ InMaking \/ prep.flag.holdPartial => sblk[prep.slot] # NoBlock
  /\ sys.parkCall /\ prep.flag.holdPartial => sblk[prep.lastSlot] # NoBlock

\* Where the two sides are in the ring and in st_prep_buffer.
Positions ==
  /\ st.loaded => tail # head
  /\ pc \in {"seg", "publish"} => plb # NoBlock /\ tail # nhead
  /\ pc = "publish" => seg[head].slot = prep.slot /\ seg[head].owner = plb
  /\ sys.parkCall => prep.flag.parking
  /\ plb # NoBlock => ~prep.flag.recalculate

TypeInv == TypeOK /\ SlotsWritten /\ Positions

-----------------------------------------------------------------------------
\* The successor of a ring index is an index, and no two indices share one.
LEMMA NextSlotRing ==
  /\ \A i \in Slots : NextSlot(i) \in Slots
  /\ \A i, j \in Slots : NextSlot(i) = NextSlot(j) => i = j
  /\ \A i \in Slots : NextSlot(i) # i
BY BufferAssumption DEF BufferAssumption, NextSlot, Slots

\* The same for the indices of st_block_buffer.
LEMMA NextBlkRing == \A i \in BlkSlots : NextBlk(i) \in BlkSlots
BY BufferAssumption DEF BufferAssumption, NextBlk, BlkSlots

\* There are at least two slots for blocks.
LEMMA NextBlkOther == \A i \in BlkSlots : NextBlk(i) # i
BY BufferAssumption DEF BufferAssumption, BlkSlots, NextBlk

LEMMA SlotsType == Slots \subseteq Nat
BY BufferAssumption DEF BufferAssumption, Slots

LEMMA RingZero == 0 \in Slots /\ 0 \in BlkSlots /\ NextSlot(0) = 1
BY BufferAssumption DEF BufferAssumption, Slots, BlkSlots, NextSlot

\* A distance rounds up to a natural number of steps.
LEMMA StepsOfType == \A d \in Nat : StepsOf(d) \in Nat
BY BufferAssumption DEF BufferAssumption, StepsOf

\* Products of natural numbers, which the arithmetic of the prover needs said.
LEMMA ProductType == \A m, n \in Nat : m * n \in Nat
OBVIOUS

LEMMA U16Type == U16 \in Nat /\ U16 > 1
BY DEF U16

LEMMA StepsType ==
  \A b \in Blocks : Steps[b] \in Nat /\ Steps[b] > 0 /\ Steps[b] * STEP_UNITS \in Nat
                    /\ Minor[b] \in Nat
<1> TAKE b \in Blocks
<1>1. Steps \in [Blocks -> 1..U16-1] /\ Minor \in [Blocks -> Nat] /\ STEP_UNITS \in Nat
  BY BufferAssumption DEF BufferAssumption
<1>2. Steps[b] \in 1..U16-1 /\ Minor[b] \in Nat
  BY <1>1
<1>3. Steps[b] \in Nat /\ Steps[b] > 0
  BY <1>2, U16Type
<1> QED BY <1>1, <1>2, <1>3, ProductType

LEMMA BlocksType == NoBlock \notin Blocks /\ Park \in Blocks /\ Planned \subseteq Blocks
BY BufferAssumption DEF BufferAssumption, NoBlock, Blocks, Park, Planned

\* Init establishes the invariant.
LEMMA InitTypeInv == Init => TypeInv
<1> SUFFICES ASSUME Init PROVE TypeInv
  OBVIOUS
<1>1. /\ sys = SysReset /\ prep = PrepReset /\ st = StReset
      /\ tail = 0 /\ head = 0 /\ nhead = 1 /\ pc = "top" /\ plb = NoBlock
  BY DEF Init
<1>2. 0 \in Slots /\ 0 \in BlkSlots /\ NextSlot(0) = 1
  BY BufferAssumption DEF BufferAssumption, Slots, BlkSlots, NextSlot
<1>3. TypeOK
  <2>1. sys \in SysType
    BY <1>1 DEF SysReset, NoControl, SysType, ControlType
  <2>2. prep \in PrepType
    BY <1>1, <1>2 DEF PrepReset, NoFlags, PrepType, FlagType
  <2>3. st \in StType
    BY <1>1, <1>2, U16Type DEF StReset, StType
  <2>4. seg \in [Slots -> SegmentType]
    BY <1>2, U16Type DEF Init, SegmentType
  <2>5. sblk \in [BlkSlots -> Blocks \cup {NoBlock}] /\ plb \in Blocks \cup {NoBlock}
    BY DEF Init
  <2>6. /\ plan \in Seq(Planned) /\ added \in 0..NumBlocks /\ base \in 0..NumBlocks
        /\ mm \in [Blocks -> Nat]
    BY BufferAssumption DEF BufferAssumption, Init
  <2>7. /\ done \in [Blocks -> [major: Nat, minor: Nat]]
        /\ budget \in [holds: Nat, resets: Nat, parks: Nat]
    BY BufferAssumption DEF BufferAssumption, Init
  <2>8. /\ tail \in Slots /\ head \in Slots /\ nhead = NextSlot(head)
        /\ pc \in {"top", "loop", "seg", "publish", "wake"} /\ waking \in BOOLEAN
        /\ timer \in BOOLEAN /\ cycle_stop \in BOOLEAN
    BY <1>1, <1>2 DEF Init
  <2> QED BY <2>1, <2>2, <2>3, <2>4, <2>5, <2>6, <2>7, <2>8 DEF TypeOK, ProtocolTypes, PrepTypes, IsrTypes
<1>4. SlotsWritten
  <2>1. \A i \in Slots : ~Queued(i)
    BY <1>1 DEF Queued, Slots
  <2> QED BY <1>1, <2>1 DEF SlotsWritten, InMaking, SysReset, PrepReset, NoFlags, StReset
<1>5. Positions
  BY <1>1 DEF Positions, SysReset, PrepReset, NoFlags, StReset
<1> QED BY <1>3, <1>4, <1>5 DEF TypeInv

-----------------------------------------------------------------------------
(* What the parts of the actions do.                                       *)

\* st_update_plan_block_parameters changes one flag of the prep record.
LEMMA UpdatedPrepEffect ==
  ASSUME PrepTypes
  PROVE  /\ UpdatedPrep \in PrepType
         /\ UpdatedPrep.slot = prep.slot /\ UpdatedPrep.lastSlot = prep.lastSlot
         /\ UpdatedPrep.flag.holdPartial = prep.flag.holdPartial
         /\ UpdatedPrep.flag.parking = prep.flag.parking
         /\ UpdatedPrep.flag.recalculate => InMaking
         /\ InMaking => UpdatedPrep.flag.recalculate
BY DEF PrepTypes, PrepType, FlagType, UpdatedPrep, InMaking

\* The end of a hold inside a block changes one flag of the prep record.
LEMMA HoldPartialEffect ==
  ASSUME NEW p \in PrepType
  PROVE  /\ HoldPartial(p) \in PrepType
         /\ HoldPartial(p).slot = p.slot /\ HoldPartial(p).lastSlot = p.lastSlot
         /\ HoldPartial(p).flag.recalculate = p.flag.recalculate
         /\ HoldPartial(p).flag.parking = p.flag.parking
         /\ p.flag.parking => HoldPartial(p).flag.holdPartial = p.flag.holdPartial
BY DEF PrepType, FlagType, HoldPartial

\* Publishing a segment changes the steps that remain.
LEMMA CutEffect ==
  ASSUME PrepTypes
  PROVE  /\ Cut \in PrepType
         /\ Cut.slot = prep.slot /\ Cut.lastSlot = prep.lastSlot /\ Cut.flag = prep.flag
BY StepsOfType DEF PrepTypes, PrepType, Cut

LEMMA RestoredEffect ==
  ASSUME PrepTypes
  PROVE  /\ Restored \in PrepType
         /\ prep.flag.holdPartial => Restored.slot = prep.lastSlot
         /\ ~prep.flag.holdPartial => ~Restored.flag.recalculate /\ ~Restored.flag.holdPartial
BY DEF PrepTypes, PrepType, FlagType, NoFlags, Restored

LEMMA EndMotionEffect ==
  ASSUME ProtocolTypes, EndMotion
  PROVE  sys' \in SysType /\ sys'.parkCall = sys.parkCall
BY DEF ProtocolTypes, SysType, ControlType, EndMotion

\* Steps that leave both rings and the prep record alone keep the two parts of
\* the invariant about them.
LEMMA RestStable ==
  ASSUME SlotsWritten, Positions, UNCHANGED <<plb, prep, sblk, seg, tail, head, nhead, st>>,
         pc' \in {"seg", "publish"} => pc' = pc,
         sys'.parkCall => sys.parkCall
  PROVE  SlotsWritten' /\ Positions'
BY DEF SlotsWritten, Positions, InMaking, Queued

\* So do the handlers that call st_update_plan_block_parameters.
LEMMA UpdateStable ==
  ASSUME PrepTypes, SlotsWritten, Positions, StUpdate,
         UNCHANGED <<sblk, seg, tail, head, nhead, st>>,
         pc' \notin {"seg", "publish"},
         sys'.parkCall => sys.parkCall
  PROVE  prep' \in PrepType /\ plb' = NoBlock /\ SlotsWritten' /\ Positions'
<1>1. prep' = UpdatedPrep /\ plb' = NoBlock
  BY DEF StUpdate
<1>2. SlotsWritten'
  BY <1>1, UpdatedPrepEffect DEF SlotsWritten, InMaking, Queued
<1>3. Positions'
  BY <1>1, UpdatedPrepEffect DEF Positions
<1> QED BY <1>1, <1>2, <1>3, UpdatedPrepEffect

-----------------------------------------------------------------------------
(* st_prep_buffer.                                                         *)

\* The actions that only move the main task through st_prep_buffer.
LEMMA PrepMovesTypeInv ==
  ASSUME TypeInv, PrepEnter \/ PrepReturn \/ PrepKeep \/ WakeUp
  PROVE  TypeInv'
<1>1. ProtocolTypes /\ PrepTypes /\ IsrTypes /\ SlotsWritten /\ Positions
  BY DEF TypeInv, TypeOK
<1>2. UNCHANGED <<protocolVars, mm, plb, prep, sblk, seg, head, nhead, tail, st, cycle_stop>>
  BY DEF PrepEnter, PrepReturn, PrepKeep, WakeUp, isrVars
<1>3. /\ pc' \in {"top", "loop", "seg", "wake"} /\ waking' \in BOOLEAN /\ timer' \in BOOLEAN
      /\ pc' = "seg" => plb # NoBlock /\ tail # nhead
  BY <1>1 DEF PrepEnter, PrepReturn, PrepKeep, WakeUp, Caller, isrVars, PrepTypes, IsrTypes
<1>4. ProtocolTypes' /\ PrepTypes' /\ IsrTypes'
  BY <1>1, <1>2, <1>3 DEF ProtocolTypes, PrepTypes, IsrTypes, protocolVars
<1>5. SlotsWritten'
  BY <1>1, <1>2 DEF SlotsWritten, InMaking, Queued, protocolVars
<1>6. Positions'
  BY <1>1, <1>2, <1>3 DEF Positions, protocolVars
<1> QED BY <1>4, <1>5, <1>6 DEF TypeInv, TypeOK

LEMMA PrepLoadTypeInv ==
  ASSUME TypeInv, PrepLoadNew \/ PrepLoadSame
  PROVE  TypeInv'
<1>1. ProtocolTypes /\ PrepTypes /\ IsrTypes /\ SlotsWritten /\ Positions
  BY DEF TypeInv, TypeOK
<1>2. QueryBlock \in Blocks /\ QueryBlock # NoBlock
  <2>1. QueryBlock # NoBlock
    BY DEF PrepLoadNew, PrepLoadSame
  <2>2. CurrentBlock # NoBlock => CurrentBlock \in Planned
    BY <1>1 DEF ProtocolTypes, CurrentBlock
  <2> QED BY <2>1, <2>2, BlocksType DEF QueryBlock
<1>3. mm[QueryBlock] \in Nat /\ Steps[QueryBlock] \in Nat
  BY <1>1, <1>2, StepsType DEF PrepTypes
<1>4. \A fromRest \in BOOLEAN : \A q \in Profiles(QueryBlock, fromRest) :
        q.complete \in Nat /\ q.stop \in BOOLEAN
  <2> TAKE fromRest \in BOOLEAN
  <2>1. CASE sys.ctl.executeHold /\ fromRest
    <3>1. Profiles(QueryBlock, fromRest) = {[complete |-> mm[QueryBlock], stop |-> TRUE]}
      BY <2>1, Zenon DEF Profiles
    <3>2. \A q \in Profiles(QueryBlock, fromRest) :
            q.complete = mm[QueryBlock] /\ q.stop = TRUE
      BY <3>1
    <3> QED BY <1>3, <3>2
  <2>2. CASE sys.ctl.executeHold /\ ~fromRest
    <3>1. \A q \in [complete: 0..mm[QueryBlock], stop: BOOLEAN] :
            q.complete \in Nat /\ q.stop \in BOOLEAN
      BY <1>3
    <3> QED BY <2>2, <3>1 DEF Profiles
  <2>3. CASE ~sys.ctl.executeHold
    BY <1>3, <2>3 DEF Profiles
  <2> QED BY <2>1, <2>2, <2>3
<1>5. /\ UNCHANGED <<protocolVars, isrVars, mm, seg, head, nhead, waking>>
      /\ pc' = "seg" /\ plb' = QueryBlock /\ tail # nhead
  BY DEF PrepLoadNew, PrepLoadSame
<1>6. ProtocolTypes' /\ IsrTypes'
  BY <1>1, <1>5 DEF ProtocolTypes, IsrTypes, protocolVars, isrVars
<1>7. CASE PrepLoadNew
  <2>1. sblk' = [sblk EXCEPT ![NextBlk(prep.slot)] = QueryBlock]
    BY <1>7 DEF PrepLoadNew
  <2>2. PICK q \in Profiles(QueryBlock, prep.stop) :
          prep' = [prep EXCEPT !.slot = NextBlk(@), !.steps = Steps[QueryBlock],
                               !.complete = q.complete, !.stop = q.stop]
    BY <1>7 DEF PrepLoadNew
  <2>3. /\ prep' \in PrepType /\ prep'.slot = NextBlk(prep.slot) /\ prep'.flag = prep.flag
        /\ prep'.lastSlot = prep.lastSlot
    <3>1. prep.stop \in BOOLEAN
      BY <1>1 DEF PrepTypes, PrepType
    <3>2. q.complete \in Nat /\ q.stop \in BOOLEAN
      BY <1>4, <2>2, <3>1
    <3> QED BY <1>1, <1>3, <2>2, <3>2, NextBlkRing DEF PrepTypes, PrepType
  <2>4. sblk' \in [BlkSlots -> Blocks \cup {NoBlock}] /\ sblk'[prep'.slot] # NoBlock
    BY <1>1, <1>2, <2>1, <2>3, NextBlkRing DEF PrepTypes, PrepType
  <2>5. \A i \in BlkSlots : sblk[i] # NoBlock => sblk'[i] # NoBlock
    BY <1>1, <1>2, <2>1 DEF PrepTypes
  <2>6. PrepTypes'
    BY <1>1, <1>2, <1>5, <2>3, <2>4 DEF PrepTypes
  <2>7. SlotsWritten'
    <3>1. \A i \in Slots : seg[i].slot \in BlkSlots
      BY <1>1 DEF PrepTypes, SegmentType
    <3>2. st.slot \in BlkSlots /\ prep.lastSlot \in BlkSlots
      BY <1>1 DEF IsrTypes, StType, PrepTypes, PrepType
    <3> QED BY <1>1, <1>5, <2>3, <2>4, <2>5, <3>1, <3>2
            DEF SlotsWritten, InMaking, Queued, isrVars, protocolVars
  <2>8. ~prep'.flag.recalculate
    BY <1>7, <2>3 DEF PrepLoadNew
  <2>9. Positions'
    BY <1>1, <1>2, <1>5, <2>3, <2>8 DEF Positions, isrVars, protocolVars
  <2> QED BY <1>6, <2>6, <2>7, <2>9 DEF TypeInv, TypeOK
<1>8. CASE PrepLoadSame
  <2>1. PICK q \in Profiles(QueryBlock, FALSE) :
          prep' = [prep EXCEPT !.complete = q.complete, !.stop = q.stop,
                               !.flag = IF @.parking THEN [@ EXCEPT !.recalculate = FALSE]
                                                     ELSE NoFlags]
    BY <1>8 DEF PrepLoadSame
  <2>2. /\ prep' \in PrepType /\ prep'.slot = prep.slot /\ prep'.lastSlot = prep.lastSlot
        /\ ~prep'.flag.recalculate
        /\ prep.flag.parking => prep'.flag.parking
        /\ prep'.flag.holdPartial => prep.flag.holdPartial
    BY <1>1, <1>4, <2>1 DEF PrepTypes, PrepType, FlagType, NoFlags
  <2>3. sblk' = sblk /\ prep.flag.recalculate
    BY <1>8 DEF PrepLoadSame
  <2>4. PrepTypes'
    BY <1>1, <1>2, <1>5, <2>2, <2>3 DEF PrepTypes
  <2>5. SlotsWritten'
    BY <1>1, <1>5, <2>2, <2>3 DEF SlotsWritten, InMaking, Queued, isrVars, protocolVars
  <2>6. Positions'
    BY <1>1, <1>2, <1>5, <2>2 DEF Positions, isrVars, protocolVars
  <2> QED BY <1>6, <2>4, <2>5, <2>6 DEF TypeInv, TypeOK
<1> QED BY <1>7, <1>8

LEMMA PrepSegmentTypeInv ==
  ASSUME TypeInv, PrepSegment
  PROVE  TypeInv'
<1>1. ProtocolTypes /\ PrepTypes /\ IsrTypes /\ SlotsWritten /\ Positions
  BY DEF TypeInv, TypeOK
<1>2. /\ pc = "seg"
      /\ UNCHANGED <<plan, added, done, base, budget, mm, plb, sblk, head, nhead, waking,
                     isrVars>>
  BY DEF PrepSegment
<1>3. PICK d \in SegmentEnds(plb) :
        LET n == (prep.steps - StepsOf(d)) % U16 IN
        /\ seg' = [seg EXCEPT ![head] = [slot |-> prep.slot, n |-> n, owner |-> plb]]
        /\ \/ EndMotion /\ prep' = HoldPartial(prep) /\ pc' = Caller
           \/ prep' = [prep EXCEPT !.rem = d] /\ pc' = "publish" /\ UNCHANGED sys
  BY DEF PrepSegment
<1>4. d \in Nat
  BY <1>1 DEF SegmentEnds, PrepTypes, PrepType
<1>5. (prep.steps - StepsOf(d)) % U16 \in 0..U16-1
  <2>1. prep.steps \in Nat /\ StepsOf(d) \in Nat
    BY <1>1, <1>4, StepsOfType DEF PrepTypes, PrepType
  <2> QED BY <2>1, U16Type
<1>6. seg' \in [Slots -> SegmentType]
  BY <1>1, <1>3, <1>5 DEF PrepTypes, PrepType, SegmentType
<1>7. head \in Slots /\ seg'[head].slot = prep.slot /\ seg'[head].owner = plb
  BY <1>1, <1>3 DEF PrepTypes
<1>8. \A i \in Slots : i # head => seg'[i] = seg[i]
  BY <1>1, <1>3 DEF PrepTypes
<1>9. /\ prep' \in PrepType /\ prep'.slot = prep.slot /\ prep'.lastSlot = prep.lastSlot
      /\ prep'.flag.recalculate = prep.flag.recalculate
      /\ prep'.flag.parking = prep.flag.parking
      /\ prep.flag.parking => prep'.flag.holdPartial = prep.flag.holdPartial
  <2>1. CASE prep' = HoldPartial(prep)
    BY <1>1, <2>1, HoldPartialEffect DEF PrepTypes
  <2>2. CASE prep' = [prep EXCEPT !.rem = d]
    BY <1>1, <1>4, <2>2 DEF PrepTypes, PrepType, FlagType
  <2> QED BY <1>3, <2>1, <2>2
<1>10. sys' \in SysType /\ sys'.parkCall = sys.parkCall
  BY <1>1, <1>3, EndMotionEffect DEF ProtocolTypes
<1>11. pc' \in {"top", "wake", "publish"}
  BY <1>3 DEF Caller
<1>12. ProtocolTypes' /\ IsrTypes'
  BY <1>1, <1>2, <1>10 DEF ProtocolTypes, IsrTypes, isrVars
<1>13. PrepTypes'
  BY <1>1, <1>2, <1>6, <1>9, <1>11 DEF PrepTypes
<1>14. ~Queued(head)
  BY <1>1, SlotsType DEF PrepTypes, IsrTypes, Queued
<1>15. SlotsWritten'
  <2>1. \A i \in Slots : Queued(i)' => sblk[seg'[i].slot] # NoBlock
    BY <1>1, <1>2, <1>8, <1>14 DEF SlotsWritten, Queued, isrVars
  <2>2. plb # NoBlock
    BY <1>1, <1>2 DEF Positions
  <2> QED BY <1>1, <1>2, <1>9, <1>10, <2>1, <2>2
          DEF SlotsWritten, Positions, InMaking, isrVars
<1>16. Positions'
  BY <1>1, <1>2, <1>7, <1>9, <1>10, <1>11 DEF Positions, isrVars
<1> QED BY <1>12, <1>13, <1>15, <1>16 DEF TypeInv, TypeOK

\* A published segment joins the queue at the head, and nothing else does.
LEMMA PublishQueue ==
  ASSUME TypeInv, Publish, UNCHANGED tail
  PROVE  /\ head' \in Slots /\ head' = nhead /\ nhead' = NextSlot(head') /\ tail # head'
         /\ \A i \in Slots : Queued(i)' => i = head \/ Queued(i)
<1>1. head \in Slots /\ tail \in Slots /\ nhead = NextSlot(head) /\ tail # nhead
  BY DEF TypeInv, TypeOK, PrepTypes, IsrTypes, Positions, Publish
<1>2. head' = nhead /\ nhead' = NextSlot(nhead)
  BY DEF Publish
<1>3. \A i \in Slots : Queued(i)' => i = head \/ Queued(i)
  BY <1>1, <1>2, BufferAssumption DEF BufferAssumption, Queued, Slots, NextSlot
<1> QED BY <1>1, <1>2, <1>3, NextSlotRing

LEMMA PublishTypeInv ==
  ASSUME TypeInv, PublishMore \/ PublishLast \/ PublishBlockEnd
  PROVE  TypeInv'
<1>1. ProtocolTypes /\ PrepTypes /\ IsrTypes /\ SlotsWritten /\ Positions
  BY DEF TypeInv, TypeOK
<1>2. /\ Publish /\ pc = "publish"
      /\ UNCHANGED <<added, done, base, budget, sblk, seg, waking, isrVars>>
      /\ mm' = [mm EXCEPT ![plb] = prep.rem]
  BY DEF PublishMore, PublishLast, PublishBlockEnd, Publish
<1>3. /\ head' \in Slots /\ head' = nhead /\ nhead' = NextSlot(head') /\ tail # head'
      /\ \A i \in Slots : Queued(i)' => i = head \/ Queued(i)
  BY <1>2, PublishQueue DEF isrVars
<1>4. prep' = Cut \/ prep' = HoldPartial(Cut)
  BY DEF PublishMore, PublishLast, PublishBlockEnd
<1>5. /\ prep' \in PrepType /\ prep'.slot = prep.slot /\ prep'.lastSlot = prep.lastSlot
      /\ prep'.flag.recalculate = prep.flag.recalculate
      /\ prep'.flag.parking = prep.flag.parking
      /\ prep.flag.parking => prep'.flag.holdPartial = prep.flag.holdPartial
  BY <1>1, <1>4, CutEffect, HoldPartialEffect
<1>6. plb' = plb \/ plb' = NoBlock
  BY DEF PublishMore, PublishLast, PublishBlockEnd
<1>7. sys' = sys \/ EndMotion
  BY DEF PublishMore, PublishLast, PublishBlockEnd
<1>8. sys' \in SysType /\ sys'.parkCall = sys.parkCall
  BY <1>1, <1>7, EndMotionEffect DEF ProtocolTypes
<1>9. plan' \in Seq(Planned)
  <2>1. plan' = plan \/ (plan # <<>> /\ plan' = Tail(plan))
    BY DEF PublishMore, PublishLast, PublishBlockEnd
  <2>2. plan \in Seq(Planned)
    BY <1>1 DEF ProtocolTypes
  <2>3. plan # <<>> => Tail(plan) \in Seq(Planned)
    BY <2>2, HeadTailProperties
  <2> QED BY <2>1, <2>2, <2>3
<1>10. pc' \in {"top", "loop", "wake"}
  BY DEF PublishMore, PublishLast, PublishBlockEnd, Caller
<1>11. mm' \in [Blocks -> Nat]
  BY <1>1, <1>2 DEF PrepTypes, PrepType
<1>12. ProtocolTypes' /\ IsrTypes'
  BY <1>1, <1>2, <1>8, <1>9 DEF ProtocolTypes, IsrTypes, isrVars
<1>13. PrepTypes'
  BY <1>1, <1>2, <1>3, <1>5, <1>6, <1>10, <1>11 DEF PrepTypes
<1>14. plb # NoBlock /\ seg[head].slot = prep.slot
  BY <1>1, <1>2 DEF Positions
<1>15. sblk[prep.slot] # NoBlock
  BY <1>1, <1>14 DEF SlotsWritten, InMaking
<1>16. SlotsWritten'
  <2>1. \A i \in Slots : Queued(i)' => sblk[seg[i].slot] # NoBlock
    BY <1>1, <1>3, <1>14, <1>15 DEF SlotsWritten
  <2> QED BY <1>1, <1>2, <1>5, <1>8, <1>15, <2>1 DEF SlotsWritten, Positions, InMaking, isrVars
<1>17. Positions'
  BY <1>1, <1>2, <1>3, <1>5, <1>6, <1>8, <1>10 DEF Positions, isrVars
<1> QED BY <1>12, <1>13, <1>16, <1>17 DEF TypeInv, TypeOK

-----------------------------------------------------------------------------
(* The handlers of the main task.                                          *)

LEMMA BufferLineTypeInv ==
  ASSUME TypeInv, BufferLine
  PROVE  TypeInv'
<1>1. ProtocolTypes /\ PrepTypes /\ IsrTypes /\ SlotsWritten /\ Positions
  BY DEF TypeInv, TypeOK
<1>2. /\ pc = "top" /\ added < NumBlocks /\ added' = added + 1
      /\ plan' = Append(plan, added + 1)
      /\ mm' = [mm EXCEPT ![added + 1] = Steps[added + 1] * STEP_UNITS]
      /\ UNCHANGED <<sys, done, base, budget, sblk, seg, head, nhead, pc, waking, isrVars>>
      /\ UNCHANGED <<prep, plb>> \/ StUpdate
  BY DEF BufferLine
<1>3. added + 1 \in Planned /\ added' \in 0..NumBlocks
  BY <1>1, <1>2, BufferAssumption DEF BufferAssumption, ProtocolTypes, Planned
<1>4. plan' \in Seq(Planned)
  BY <1>1, <1>2, <1>3 DEF ProtocolTypes
<1>5. ProtocolTypes' /\ IsrTypes'
  BY <1>1, <1>2, <1>3, <1>4 DEF ProtocolTypes, IsrTypes, isrVars
<1>6. mm' \in [Blocks -> Nat]
  BY <1>1, <1>2, <1>3, StepsType, BlocksType DEF PrepTypes
<1>7. CASE UNCHANGED <<prep, plb>>
  <2>1. PrepTypes'
    BY <1>1, <1>2, <1>6, <1>7 DEF PrepTypes
  <2>2. SlotsWritten' /\ Positions'
    BY <1>1, <1>2, <1>7, RestStable DEF isrVars
  <2> QED BY <1>5, <2>1, <2>2 DEF TypeInv, TypeOK
<1>8. CASE StUpdate
  <2>1. prep' \in PrepType /\ plb' = NoBlock /\ SlotsWritten' /\ Positions'
    BY <1>1, <1>2, <1>8, UpdateStable DEF isrVars
  <2>2. PrepTypes'
    BY <1>1, <1>2, <1>6, <2>1 DEF PrepTypes
  <2> QED BY <1>5, <2>1, <2>2 DEF TypeInv, TypeOK
<1> QED BY <1>2, <1>7, <1>8

LEMMA StartTypeInv ==
  ASSUME TypeInv, CycleStart \/ DoorResume
  PROVE  TypeInv'
<1>1. ProtocolTypes /\ PrepTypes /\ IsrTypes /\ SlotsWritten /\ Positions
  BY DEF TypeInv, TypeOK
<1>2. Start(sys)
  BY DEF CycleStart, DoorResume
<1>3. /\ UNCHANGED <<plan, added, done, base, budget, mm, plb, prep, sblk, seg, head, nhead,
                     isrVars>>
      /\ pc' \in {"top", "loop"} /\ waking' \in BOOLEAN
  BY <1>2 DEF Start
<1>4. sys' \in SysType /\ sys'.parkCall = sys.parkCall
  BY <1>1, <1>2 DEF Start, ProtocolTypes, SysType, ControlType, NoControl
<1>5. ProtocolTypes' /\ PrepTypes' /\ IsrTypes'
  BY <1>1, <1>3, <1>4 DEF ProtocolTypes, PrepTypes, IsrTypes, isrVars
<1>6. SlotsWritten' /\ Positions'
  BY <1>1, <1>3, <1>4, RestStable DEF isrVars
<1> QED BY <1>5, <1>6 DEF TypeInv, TypeOK

LEMMA SuspendTypeInv ==
  ASSUME TypeInv, FeedHold \/ SafetyDoor
  PROVE  TypeInv'
<1>1. ProtocolTypes /\ PrepTypes /\ IsrTypes /\ SlotsWritten /\ Positions
  BY DEF TypeInv, TypeOK
<1>2. /\ pc = "top" /\ budget.holds > 0
      /\ UNCHANGED <<plan, added, done, base, mm, sblk, seg, head, nhead, pc, waking, isrVars>>
      /\ budget' = [budget EXCEPT !.holds = @ - 1]
      /\ UNCHANGED <<prep, plb>> \/ StUpdate
  BY DEF FeedHold, SafetyDoor, Suspend
<1>3. PICK state \in {"Hold", "SafetyDoor"} :
        sys' = [sys EXCEPT !.state = state,
                           !.holdComplete = @ \/ sys.state = "Idle",
                           !.ctl = IF sys.state = "Cycle"
                                   THEN [NoControl EXCEPT !.executeHold = TRUE] ELSE @]
  BY DEF FeedHold, SafetyDoor, Suspend
<1>4. sys' \in SysType /\ sys'.parkCall = sys.parkCall
  BY <1>1, <1>3 DEF ProtocolTypes, SysType, ControlType, NoControl
<1>5. budget' \in [holds: Nat, resets: Nat, parks: Nat]
  BY <1>1, <1>2 DEF ProtocolTypes
<1>6. ProtocolTypes' /\ IsrTypes'
  BY <1>1, <1>2, <1>4, <1>5 DEF ProtocolTypes, IsrTypes, isrVars
<1>7. CASE UNCHANGED <<prep, plb>>
  <2>1. PrepTypes'
    BY <1>1, <1>2, <1>7 DEF PrepTypes
  <2>2. SlotsWritten' /\ Positions'
    BY <1>1, <1>2, <1>4, <1>7, RestStable DEF isrVars
  <2> QED BY <1>6, <2>1, <2>2 DEF TypeInv, TypeOK
<1>8. CASE StUpdate
  <2>1. prep' \in PrepType /\ plb' = NoBlock /\ SlotsWritten' /\ Positions'
    BY <1>1, <1>2, <1>4, <1>8, UpdateStable DEF isrVars
  <2>2. PrepTypes'
    BY <1>1, <1>2, <2>1 DEF PrepTypes
  <2> QED BY <1>6, <2>1, <2>2 DEF TypeInv, TypeOK
<1> QED BY <1>2, <1>7, <1>8

LEMMA HandleCycleStopTypeInv ==
  ASSUME TypeInv, HandleCycleStop
  PROVE  TypeInv'
<1>1. ProtocolTypes /\ PrepTypes /\ IsrTypes /\ SlotsWritten /\ Positions
  BY DEF TypeInv, TypeOK
<1>2. /\ pc = "top" /\ cycle_stop' = FALSE
      /\ UNCHANGED <<plan, added, done, base, budget, mm, sblk, seg, head, nhead, pc, waking,
                     tail, st, timer>>
  BY DEF HandleCycleStop
<1>3. \/ StUpdate /\ sys' = Stopped
      \/ UNCHANGED <<prep, plb>> /\ sys' = [sys EXCEPT !.state = "Idle", !.holdComplete = FALSE]
  BY DEF HandleCycleStop
<1>4. sys' \in SysType /\ sys'.parkCall = sys.parkCall
  <2>1. sys \in SysType
    BY <1>1 DEF ProtocolTypes
  <2>2. CASE sys' = Stopped
    BY <2>1, <2>2 DEF Stopped, SysType, ControlType
  <2>3. CASE sys' = [sys EXCEPT !.state = "Idle", !.holdComplete = FALSE]
    BY <2>1, <2>3 DEF SysType
  <2> QED BY <1>3, <2>2, <2>3
<1>5. ProtocolTypes' /\ IsrTypes'
  BY <1>1, <1>2, <1>4 DEF ProtocolTypes, IsrTypes
<1>6. CASE UNCHANGED <<prep, plb>>
  <2>1. PrepTypes'
    BY <1>1, <1>2, <1>6 DEF PrepTypes
  <2>2. SlotsWritten' /\ Positions'
    BY <1>1, <1>2, <1>4, <1>6, RestStable
  <2> QED BY <1>5, <2>1, <2>2 DEF TypeInv, TypeOK
<1>7. CASE StUpdate
  <2>1. prep' \in PrepType /\ plb' = NoBlock /\ SlotsWritten' /\ Positions'
    BY <1>1, <1>2, <1>4, <1>7, UpdateStable
  <2>2. PrepTypes'
    BY <1>1, <1>2, <2>1 DEF PrepTypes
  <2> QED BY <1>5, <2>1, <2>2 DEF TypeInv, TypeOK
<1> QED BY <1>3, <1>6, <1>7

LEMMA ParkMotionTypeInv ==
  ASSUME TypeInv, ParkMotion
  PROVE  TypeInv'
<1>1. ProtocolTypes /\ PrepTypes /\ IsrTypes /\ SlotsWritten /\ Positions
  BY DEF TypeInv, TypeOK
<1>2. /\ budget.parks > 0 /\ budget' = [budget EXCEPT !.parks = @ - 1]
      /\ mm' = [mm EXCEPT ![Park] = Steps[Park] * STEP_UNITS]
      /\ plb' = NoBlock /\ pc' = "loop" /\ waking' = TRUE
      /\ UNCHANGED <<plan, added, done, base, sblk, seg, head, nhead, isrVars>>
  BY DEF ParkMotion
<1>3. sys' = [sys EXCEPT !.ctl.executeSysMotion = TRUE, !.ctl.endMotion = FALSE,
                         !.parkCall = TRUE]
  BY DEF ParkMotion
<1>4. PICK p : /\ p = IF prep.flag.holdPartial
                      THEN [prep EXCEPT !.lastSlot = prep.slot, !.lastSteps = prep.steps]
                      ELSE prep
               /\ prep' = [p EXCEPT !.flag.parking = TRUE, !.flag.recalculate = FALSE]
  BY DEF ParkMotion
<1>5. /\ p \in PrepType /\ p.slot = prep.slot /\ p.flag = prep.flag
      /\ prep.flag.holdPartial => p.lastSlot = prep.slot
  BY <1>1, <1>4 DEF PrepTypes, PrepType
<1>6. /\ prep' \in PrepType /\ prep'.slot = p.slot /\ prep'.lastSlot = p.lastSlot
      /\ prep'.flag.parking /\ ~prep'.flag.recalculate
      /\ prep'.flag.holdPartial = p.flag.holdPartial
  BY <1>4, <1>5 DEF PrepType, FlagType
<1>7. ProtocolTypes' /\ IsrTypes'
  <2>1. sys' \in SysType
    BY <1>1, <1>3 DEF ProtocolTypes, SysType, ControlType
  <2>2. budget' \in [holds: Nat, resets: Nat, parks: Nat]
    BY <1>1, <1>2 DEF ProtocolTypes
  <2> QED BY <1>1, <1>2, <2>1, <2>2 DEF ProtocolTypes, IsrTypes, isrVars
<1>8. mm' \in [Blocks -> Nat]
  BY <1>1, <1>2, StepsType, BlocksType DEF PrepTypes
<1>9. PrepTypes'
  BY <1>1, <1>2, <1>6, <1>8 DEF PrepTypes
<1>10. SlotsWritten'
  BY <1>1, <1>2, <1>5, <1>6 DEF SlotsWritten, InMaking, Queued, isrVars
<1>11. Positions'
  BY <1>1, <1>2, <1>6 DEF Positions, isrVars
<1> QED BY <1>7, <1>9, <1>10, <1>11 DEF TypeInv, TypeOK

LEMMA ParkRestoreTypeInv ==
  ASSUME TypeInv, ParkRestore
  PROVE  TypeInv'
<1>1. ProtocolTypes /\ PrepTypes /\ IsrTypes /\ SlotsWritten /\ Positions
  BY DEF TypeInv, TypeOK
<1>2. /\ pc = "top" /\ sys.parkCall /\ sys' = [sys EXCEPT !.parkCall = FALSE]
      /\ prep' = Restored /\ plb' = NoBlock
      /\ UNCHANGED <<plan, added, done, base, budget, mm, sblk, seg, head, nhead, pc, waking,
                     isrVars>>
  BY DEF ParkRestore
<1>3. sys' \in SysType /\ ~sys'.parkCall
  BY <1>1, <1>2 DEF ProtocolTypes, SysType
<1>4. ProtocolTypes' /\ PrepTypes' /\ IsrTypes'
  BY <1>1, <1>2, <1>3, RestoredEffect DEF ProtocolTypes, PrepTypes, IsrTypes, isrVars
<1>5. prep'.flag.recalculate \/ prep'.flag.holdPartial => sblk[prep'.slot] # NoBlock
  BY <1>1, <1>2, RestoredEffect DEF SlotsWritten
<1>6. SlotsWritten'
  BY <1>1, <1>2, <1>3, <1>5 DEF SlotsWritten, InMaking, Queued, isrVars
<1>7. Positions'
  BY <1>1, <1>2, <1>3 DEF Positions, isrVars
<1> QED BY <1>4, <1>6, <1>7 DEF TypeInv, TypeOK

LEMMA StartRestoreTypeInv ==
  ASSUME TypeInv, StartRestore
  PROVE  TypeInv'
<1>1. ProtocolTypes /\ PrepTypes /\ IsrTypes /\ SlotsWritten /\ Positions
  BY DEF TypeInv, TypeOK
<1>2. /\ sys' = [sys EXCEPT !.restoring = TRUE]
      /\ UNCHANGED <<plan, added, done, base, budget, prepVars, isrVars>>
  BY DEF StartRestore
<1>3. sys' \in SysType /\ sys'.parkCall = sys.parkCall
  BY <1>1, <1>2 DEF ProtocolTypes, SysType
<1>4. ProtocolTypes' /\ PrepTypes' /\ IsrTypes'
  BY <1>1, <1>2, <1>3 DEF ProtocolTypes, PrepTypes, IsrTypes, prepVars, isrVars
<1>5. SlotsWritten' /\ Positions'
  BY <1>1, <1>2, <1>3, RestStable DEF prepVars, isrVars
<1> QED BY <1>4, <1>5 DEF TypeInv, TypeOK

LEMMA DoorReopenedTypeInv ==
  ASSUME TypeInv, DoorReopened
  PROVE  TypeInv'
<1>1. ProtocolTypes /\ PrepTypes /\ IsrTypes /\ SlotsWritten /\ Positions
  BY DEF TypeInv, TypeOK
<1>2. /\ pc = "top" /\ budget.holds > 0 /\ budget' = [budget EXCEPT !.holds = @ - 1]
      /\ sys' = [sys EXCEPT !.ctl = [executeHold |-> TRUE, endMotion |-> FALSE,
                                     executeSysMotion |-> TRUE],
                            !.holdComplete = FALSE, !.restoring = FALSE]
      /\ UNCHANGED <<plan, added, done, base, mm, sblk, seg, head, nhead, pc, waking, isrVars>>
      /\ StUpdate
  BY DEF DoorReopened
<1>3. sys' \in SysType /\ sys'.parkCall = sys.parkCall
  BY <1>1, <1>2 DEF ProtocolTypes, SysType, ControlType
<1>4. budget' \in [holds: Nat, resets: Nat, parks: Nat]
  BY <1>1, <1>2 DEF ProtocolTypes
<1>5. prep' \in PrepType /\ plb' = NoBlock /\ SlotsWritten' /\ Positions'
  BY <1>1, <1>2, <1>3, UpdateStable DEF isrVars
<1>6. ProtocolTypes' /\ PrepTypes' /\ IsrTypes'
  BY <1>1, <1>2, <1>3, <1>4, <1>5 DEF ProtocolTypes, PrepTypes, IsrTypes, isrVars
<1> QED BY <1>5, <1>6 DEF TypeInv, TypeOK

LEMMA ResetTypeInv ==
  ASSUME TypeInv, Reset
  PROVE  TypeInv'
<1>1. ProtocolTypes /\ PrepTypes /\ IsrTypes /\ SlotsWritten /\ Positions
  BY DEF TypeInv, TypeOK
<1>2. /\ pc = "top" /\ budget.resets > 0 /\ budget' = [budget EXCEPT !.resets = @ - 1]
      /\ sys' = SysReset /\ plan' = <<>> /\ base' = added
      /\ plb' = NoBlock /\ prep' = PrepReset
      /\ head' = 0 /\ nhead' = 1 /\ tail' = 0
      /\ st' = StReset /\ timer' = FALSE /\ cycle_stop' = FALSE
      /\ UNCHANGED <<added, done, mm, sblk, seg, pc, waking>>
  BY DEF Reset
<1>3. SysReset \in SysType /\ ~SysReset.parkCall
  BY DEF SysReset, SysType, ControlType, NoControl
<1>4. PrepReset \in PrepType /\ ~PrepReset.flag.recalculate /\ ~PrepReset.flag.holdPartial
  BY RingZero DEF PrepReset, PrepType, NoFlags, FlagType
<1>5. StReset \in StType /\ ~StReset.loaded
  BY RingZero, U16Type DEF StReset, StType
<1>6. budget' \in [holds: Nat, resets: Nat, parks: Nat]
  BY <1>1, <1>2 DEF ProtocolTypes
<1>7. ProtocolTypes'
  BY <1>1, <1>2, <1>3, <1>6 DEF ProtocolTypes
<1>8. PrepTypes' /\ IsrTypes'
  BY <1>1, <1>2, <1>4, <1>5, RingZero DEF PrepTypes, IsrTypes
<1>9. \A i \in Slots : ~Queued(i)'
  BY <1>2, SlotsType DEF Queued
<1>10. SlotsWritten'
  BY <1>2, <1>3, <1>4, <1>5, <1>9 DEF SlotsWritten, InMaking
<1>11. Positions'
  BY <1>1, <1>2, <1>3, <1>5 DEF Positions
<1> QED BY <1>7, <1>8, <1>10, <1>11 DEF TypeInv, TypeOK

-----------------------------------------------------------------------------
(* The interrupt.                                                          *)

\* A segment taken from the queue leaves it at the tail.
LEMMA ConsumeQueue ==
  ASSUME TypeInv, tail # head, tail' = NextSlot(tail), UNCHANGED head
  PROVE  /\ tail' \in Slots /\ Queued(tail) /\ tail' # NextSlot(head)
         /\ \A i \in Slots : Queued(i)' => Queued(i)
<1>1. tail \in Slots /\ head \in Slots
  BY DEF TypeInv, TypeOK, PrepTypes, IsrTypes
<1>2. Queued(tail)
  BY <1>1, SlotsType DEF Queued
<1>3. \A i \in Slots : Queued(i)' => Queued(i)
  BY <1>1, BufferAssumption DEF BufferAssumption, Queued, Slots, NextSlot
<1> QED BY <1>1, <1>2, <1>3, NextSlotRing

LEMMA IsrStepTypeInv ==
  ASSUME TypeInv, IsrStep
  PROVE  TypeInv'
<1>1. ProtocolTypes /\ PrepTypes /\ IsrTypes /\ SlotsWritten /\ Positions
  BY DEF TypeInv, TypeOK
<1>2. tail # head
  BY <1>1 DEF IsrStep, Positions
<1>3. UNCHANGED <<sys, plan, added, base, budget, prepVars, timer, cycle_stop>>
  BY DEF IsrStep
<1>4. /\ Loaded.slot \in BlkSlots /\ Loaded.count \in 0..U16-1 /\ Loaded.counter \in Nat
      /\ sblk[Loaded.slot] \in Blocks
  <2>1. Queued(tail) /\ tail \in Slots
    BY <1>1, <1>2, SlotsType DEF Queued, PrepTypes, IsrTypes
  <2>2. /\ seg[tail].slot \in BlkSlots /\ seg[tail].n \in 0..U16-1
        /\ sblk[seg[tail].slot] \in Blocks
    BY <1>1, <2>1 DEF PrepTypes, SegmentType, SlotsWritten
  <2>3. Steps[sblk[seg[tail].slot]] \in Nat
    BY <2>2, StepsType
  <2>4. st.slot \in BlkSlots /\ st.count \in 0..U16-1 /\ st.counter \in Nat
    BY <1>1 DEF IsrTypes, StType
  <2>5. CASE st.loaded
    BY <1>1, <2>4, <2>5 DEF Loaded, SlotsWritten, PrepTypes
  <2>6. CASE ~st.loaded
    BY <2>2, <2>3, <2>4, <2>6 DEF Loaded
  <2> QED BY <2>5, <2>6
<1> DEFINE data  == sblk[Loaded.slot]
           sum   == Loaded.counter + 2 * Minor[data]
           steps == sum > 2 * Steps[data]
           count == (Loaded.count - 1) % U16
           owner == seg[tail].owner
<1>5. /\ st' = [Loaded EXCEPT !.count = count, !.loaded = (count # 0),
                              !.counter = IF steps THEN sum - 2 * Steps[data] ELSE sum]
      /\ tail' = IF count = 0 THEN NextSlot(tail) ELSE tail
      /\ done' = [done EXCEPT ![owner] =
                     [major |-> @.major + 1, minor |-> @.minor + IF steps THEN 1 ELSE 0]]
  BY DEF IsrStep
<1>6. count \in 0..U16-1
  BY <1>4, U16Type
<1>7. (IF steps THEN sum - 2 * Steps[data] ELSE sum) \in Nat
  <2>1. Minor[data] \in Nat /\ Steps[data] \in Nat
    BY <1>4, StepsType
  <2> QED BY <1>4, <2>1
<1>8. DOMAIN Loaded = {"loaded", "slot", "count", "counter"}
  BY <1>1 DEF Loaded, IsrTypes, StType
<1>9. st' \in StType /\ st'.slot = Loaded.slot /\ st'.loaded = (count # 0)
  <2> HIDE DEF data, sum, steps, count
  <2>1. Loaded = [loaded |-> Loaded.loaded, slot |-> Loaded.slot, count |-> Loaded.count,
                  counter |-> Loaded.counter]
    BY <1>1 DEF Loaded, IsrTypes, StType
  <2> QED BY <1>4, <1>5, <1>6, <1>7, <2>1 DEF StType
<1>10. /\ tail' \in Slots /\ Queued(tail) /\ (st'.loaded => tail' # head)
       /\ tail # NextSlot(head) => tail' # NextSlot(head)
       /\ \A i \in Slots : Queued(i)' => Queued(i)
  <2> HIDE DEF data, sum, steps, count
  <2>1. tail \in Slots /\ Queued(tail)
    BY <1>1, <1>2, SlotsType DEF Queued, PrepTypes, IsrTypes
  <2>2. CASE count = 0
    BY <1>2, <1>3, <1>5, <1>9, <2>1, <2>2, ConsumeQueue DEF prepVars
  <2>3. CASE count # 0
    BY <1>2, <1>3, <1>5, <2>1, <2>3 DEF prepVars, Queued
  <2> QED BY <2>2, <2>3
<1>11. done' \in [Blocks -> [major: Nat, minor: Nat]]
  <2> HIDE DEF data, sum, steps, count, owner
  <2>1. done \in [Blocks -> [major: Nat, minor: Nat]]
    BY <1>1 DEF ProtocolTypes
  <2>2. PICK m \in {0, 1} :
          done' = [done EXCEPT ![owner] = [major |-> @.major + 1, minor |-> @.minor + m]]
    BY <1>5
  <2>3. owner \in Blocks => done[owner].major \in Nat /\ done[owner].minor \in Nat
    BY <2>1
  <2>4. owner \in Blocks =>
          [major |-> done[owner].major + 1, minor |-> done[owner].minor + m]
            \in [major: Nat, minor: Nat]
    BY <2>3
  <2> QED BY <2>1, <2>2, <2>4
<1> HIDE DEF data, sum, steps, count, owner
<1>12. ProtocolTypes' /\ PrepTypes' /\ IsrTypes'
  BY <1>1, <1>3, <1>9, <1>10, <1>11 DEF ProtocolTypes, PrepTypes, IsrTypes, prepVars
<1>13. SlotsWritten'
  BY <1>1, <1>3, <1>4, <1>9, <1>10, BlocksType DEF SlotsWritten, InMaking, prepVars
<1>14. Positions'
  BY <1>1, <1>3, <1>9, <1>10 DEF Positions, PrepTypes, prepVars
<1> QED BY <1>12, <1>13, <1>14 DEF TypeInv, TypeOK

LEMMA IsrEmptyTypeInv ==
  ASSUME TypeInv, IsrEmpty
  PROVE  TypeInv'
<1>1. ProtocolTypes /\ PrepTypes /\ IsrTypes /\ SlotsWritten /\ Positions
  BY DEF TypeInv, TypeOK
<1>2. /\ timer' = FALSE /\ cycle_stop' = TRUE
      /\ UNCHANGED <<protocolVars, prepVars, tail, st>>
  BY DEF IsrEmpty
<1>3. ProtocolTypes' /\ PrepTypes' /\ IsrTypes'
  BY <1>1, <1>2 DEF ProtocolTypes, PrepTypes, IsrTypes, protocolVars, prepVars
<1>4. SlotsWritten' /\ Positions'
  BY <1>1, <1>2, RestStable DEF protocolVars, prepVars
<1> QED BY <1>3, <1>4 DEF TypeInv, TypeOK

-----------------------------------------------------------------------------
\* Every step of the specification keeps the invariant.
LEMMA NextTypeInv == TypeInv /\ [Next]_vars => TypeInv'
<1> SUFFICES ASSUME TypeInv, [Next]_vars PROVE TypeInv'
  OBVIOUS
<1>1. CASE UNCHANGED vars
  BY <1>1 DEF vars, protocolVars, prepVars, isrVars, TypeInv, TypeOK, ProtocolTypes,
              PrepTypes, IsrTypes, SlotsWritten, Positions, InMaking, Queued
<1>2. CASE Prep
  BY <1>2, PrepMovesTypeInv, PrepLoadTypeInv, PrepSegmentTypeInv, PublishTypeInv DEF Prep
<1>3. CASE Protocol
  BY <1>3, BufferLineTypeInv, StartTypeInv, SuspendTypeInv, HandleCycleStopTypeInv,
     ParkMotionTypeInv, ParkRestoreTypeInv, StartRestoreTypeInv, DoorReopenedTypeInv,
     ResetTypeInv DEF Protocol, Handlers, Parking
<1>4. CASE Interrupt
  BY <1>4, IsrStepTypeInv, IsrEmptyTypeInv DEF Interrupt
<1> QED BY <1>1, <1>2, <1>3, <1>4 DEF Next

\* The indices of both rings stay in range, and the step counts of st_prep_buffer
\* and of the interrupt stay natural numbers, whatever the size of the ring, the
\* program, and the holds, parking motions and resets in it.
THEOREM TypeCorrect == Spec => []TypeOK
<1>1. Spec => []TypeInv
  BY InitTypeInv, NextTypeInv, PTL DEF Spec
<1>2. TypeInv => TypeOK
  BY DEF TypeInv
<1> QED BY <1>1, <1>2, PTL

-----------------------------------------------------------------------------
(***************************************************************************)
(* Why st_prep_buffer may take slot after slot of st_block_buffer without  *)
(* looking.  Going back from the head of the segment ring, every segment   *)
(* is one slot further away, but st_block_buffer moves on only once per    *)
(* planner block, and every block has at least one segment.  So the block  *)
(* slot of a queued segment is never further behind than the segment       *)
(* itself; and a new block is taken up only while the segment ring, one    *)
(* slot larger, is not full.  Parking motions break the argument (they     *)
(* jump back to an older slot): it is made for programs without them.      *)
(***************************************************************************)

\* How far slot b of st_block_buffer is ahead of slot a.
BlkDist(a, b) == IF a <= b THEN b - a ELSE b - a + (SEGMENT_BUFFER_SIZE - 1)

\* How far the head is ahead of the queued segment i.
SegDist(i) == IF i < head THEN head - i ELSE head - i + SEGMENT_BUFFER_SIZE

NotParking == budget.parks = 0 /\ ~sys.ctl.executeSysMotion /\ ~sys.parkCall

\* The block in the making is the first of the planner, and its data is at prep.slot.
MakingInv ==
  /\ InMaking => plan # <<>> /\ sblk[prep.slot] = Head(plan)
  /\ plb # NoBlock => plb = Head(plan)

DistInv == \A i \in Slots : Queued(i) =>
             BlkDist(seg[i].slot, prep.slot) <= IF InMaking THEN SegDist(i) ELSE SegDist(i) - 1

DataInv == TypeInv /\ NotParking /\ MakingInv /\ DistInv /\ BlockDataIntact

\* Arithmetic of the block ring: short of a full turn the next slot is a free one.
LEMMA BlkDistNext ==
  ASSUME NEW a \in BlkSlots, NEW b \in BlkSlots, BlkDist(a, b) <= SEGMENT_BUFFER_SIZE - 3
  PROVE  NextBlk(b) # a /\ BlkDist(a, NextBlk(b)) = BlkDist(a, b) + 1
BY BufferAssumption DEF BufferAssumption, BlkSlots, BlkDist, NextBlk

LEMMA BlkDistZero == \A a \in BlkSlots : BlkDist(a, a) = 0 /\ BlkDist(a, a) \in Int
BY BufferAssumption DEF BufferAssumption, BlkSlots, BlkDist

LEMMA BlkDistType == \A a, b \in BlkSlots : BlkDist(a, b) \in Nat
BY BufferAssumption DEF BufferAssumption, BlkSlots, BlkDist

\* Arithmetic of the segment ring: with a slot to spare no segment is further
\* behind than SEGMENT_BUFFER_SIZE - 2, and publishing moves the head by one.
LEMMA SegDistBound ==
  ASSUME TypeInv, tail # nhead, NEW i \in Slots, Queued(i)
  PROVE  SegDist(i) \in Nat /\ SegDist(i) <= SEGMENT_BUFFER_SIZE - 2
<1>1. head \in Slots /\ tail \in Slots /\ nhead = NextSlot(head)
  BY DEF TypeInv, TypeOK, PrepTypes, IsrTypes
<1> QED BY <1>1, BufferAssumption DEF BufferAssumption, Slots, NextSlot, Queued, SegDist

LEMMA SegDistPublish ==
  ASSUME TypeInv, Publish, UNCHANGED tail
  PROVE  /\ \A i \in Slots : i = head => SegDist(i)' = 1
         /\ \A i \in Slots : Queued(i) => SegDist(i)' = SegDist(i) + 1 /\ SegDist(i) \in Nat
<1>1. head \in Slots /\ tail \in Slots /\ nhead = NextSlot(head) /\ tail # nhead /\ head' = nhead
  BY DEF TypeInv, TypeOK, PrepTypes, IsrTypes, Positions, Publish
<1>2. \A i \in Slots : i = head => SegDist(i)' = 1
  BY <1>1, BufferAssumption DEF BufferAssumption, Slots, NextSlot, SegDist
<1>3. \A i \in Slots : Queued(i) => SegDist(i)' = SegDist(i) + 1 /\ SegDist(i) \in Nat
  BY <1>1, BufferAssumption DEF BufferAssumption, Slots, NextSlot, Queued, SegDist
<1> QED BY <1>2, <1>3

LEMMA DataInit == ASSUME MaxParks = 0 PROVE Init => DataInv
<1> SUFFICES ASSUME Init PROVE DataInv
  OBVIOUS
<1>1. TypeInv
  BY InitTypeInv
<1>2. NotParking /\ MakingInv
  BY DEF Init, NotParking, MakingInv, InMaking, SysReset, NoControl, PrepReset, NoFlags
<1>3. \A i \in Slots : ~Queued(i)
  BY SlotsType DEF Init, Queued
<1> QED BY <1>1, <1>2, <1>3 DEF DataInv, DistInv, BlockDataIntact

\* Steps that leave the prep record's slot, the rings' contents and the head alone,
\* take up no block and drop none, and queue no segment.
LEMMA DataStable ==
  ASSUME MakingInv, DistInv, BlockDataIntact,
         UNCHANGED <<sblk, seg, head>>, prep'.slot = prep.slot,
         InMaking' <=> InMaking, plb' = plb \/ plb' = NoBlock,
         plan # <<>> => plan' # <<>> /\ Head(plan') = Head(plan),
         plb # NoBlock => plan # <<>>,
         \A i \in Slots : Queued(i)' => Queued(i)
  PROVE  MakingInv' /\ DistInv' /\ BlockDataIntact'
<1>1. MakingInv'
  BY DEF MakingInv, InMaking
<1>2. \A i \in Slots : SegDist(i)' = SegDist(i) /\ BlkDist(seg[i].slot, prep.slot)' = BlkDist(seg[i].slot, prep.slot)
  BY DEF SegDist, BlkDist
<1>3. DistInv'
  BY <1>2 DEF DistInv
<1>4. BlockDataIntact'
  BY DEF BlockDataIntact
<1> QED BY <1>1, <1>3, <1>4

LEMMA UpdatedMaking ==
  ASSUME PrepTypes, StUpdate
  PROVE  prep'.slot = prep.slot /\ plb' = NoBlock /\ (InMaking' <=> InMaking)
<1>1. prep' = UpdatedPrep /\ plb' = NoBlock
  BY DEF StUpdate
<1>2. InMaking' <=> prep'.flag.recalculate
  BY <1>1 DEF InMaking
<1> QED BY <1>1, <1>2, UpdatedPrepEffect

LEMMA DataLoadNew ==
  ASSUME DataInv, PrepLoadNew
  PROVE  MakingInv' /\ DistInv' /\ BlockDataIntact'
<1>1. /\ TypeInv /\ PrepTypes /\ ProtocolTypes /\ NotParking /\ MakingInv /\ DistInv
      /\ BlockDataIntact
  BY DEF DataInv, TypeInv, TypeOK
<1>2. /\ tail # nhead /\ plb = NoBlock /\ ~prep.flag.recalculate
      /\ plb' = QueryBlock /\ QueryBlock # NoBlock
      /\ sblk' = [sblk EXCEPT ![NextBlk(prep.slot)] = QueryBlock]
      /\ UNCHANGED <<plan, seg, head, tail>>
  BY DEF PrepLoadNew, protocolVars, isrVars
<1>3. prep'.slot = NextBlk(prep.slot)
  BY <1>1 DEF PrepLoadNew, PrepTypes, PrepType
<1>4. prep.slot \in BlkSlots /\ NextBlk(prep.slot) \in BlkSlots
  BY <1>1, NextBlkRing DEF PrepTypes, PrepType
<1>5. plan # <<>> /\ QueryBlock = Head(plan)
  BY <1>1, <1>2 DEF NotParking, QueryBlock, CurrentBlock
<1>6. sblk'[prep'.slot] = QueryBlock
  BY <1>1, <1>2, <1>3, <1>4 DEF PrepTypes
<1>7. ASSUME NEW i \in Slots, Queued(i)
      PROVE  /\ sblk'[seg[i].slot] = sblk[seg[i].slot]
             /\ BlkDist(seg[i].slot, NextBlk(prep.slot)) <= SegDist(i)
  <2>1. seg[i].slot \in BlkSlots
    BY <1>1 DEF PrepTypes, SegmentType
  <2>2. BlkDist(seg[i].slot, prep.slot) <= SegDist(i) - 1
    BY <1>1, <1>2, <1>7 DEF DistInv, InMaking
  <2>3. SegDist(i) \in Nat /\ SegDist(i) <= SEGMENT_BUFFER_SIZE - 2
    BY <1>1, <1>2, <1>7, SegDistBound
  <2>4. BlkDist(seg[i].slot, prep.slot) \in Nat
    BY <1>4, <2>1, BlkDistType
  <2>5. BlkDist(seg[i].slot, prep.slot) <= SEGMENT_BUFFER_SIZE - 3
    BY <2>2, <2>3, <2>4, BufferAssumption DEF BufferAssumption
  <2>6. /\ NextBlk(prep.slot) # seg[i].slot
        /\ BlkDist(seg[i].slot, NextBlk(prep.slot)) = BlkDist(seg[i].slot, prep.slot) + 1
    BY <1>4, <2>1, <2>5, BlkDistNext
  <2>7. sblk'[seg[i].slot] = sblk[seg[i].slot]
    BY <1>1, <1>2, <2>1, <2>6 DEF PrepTypes
  <2> QED BY <2>2, <2>3, <2>4, <2>6, <2>7
<1>8. MakingInv'
  BY <1>2, <1>5, <1>6 DEF MakingInv
<1>9. \A i \in Slots : Queued(i)' => Queued(i) /\ SegDist(i)' = SegDist(i)
  BY <1>2 DEF Queued, SegDist
<1>10. DistInv'
  <2>1. InMaking'
    BY <1>2 DEF InMaking
  <2>2. \A i \in Slots : Queued(i)' => BlkDist(seg[i].slot, NextBlk(prep.slot)) <= SegDist(i)'
    BY <1>7, <1>9
  <2>3. \A i \in Slots : BlkDist(seg[i].slot, prep.slot)' = BlkDist(seg[i].slot, NextBlk(prep.slot))
    BY <1>2, <1>3 DEF BlkDist
  <2> QED BY <2>1, <2>2, <2>3 DEF DistInv
<1>11. BlockDataIntact'
  BY <1>1, <1>2, <1>7, <1>9 DEF BlockDataIntact
<1> QED BY <1>8, <1>10, <1>11

LEMMA DataLoadSame ==
  ASSUME DataInv, PrepLoadSame
  PROVE  MakingInv' /\ DistInv' /\ BlockDataIntact'
<1>1. PrepTypes /\ NotParking /\ MakingInv /\ DistInv /\ BlockDataIntact
  BY DEF DataInv, TypeInv, TypeOK
<1>2. /\ plb = NoBlock /\ prep.flag.recalculate /\ plb' = QueryBlock /\ QueryBlock # NoBlock
      /\ UNCHANGED <<sblk, seg, head, tail, plan>>
  BY DEF PrepLoadSame, protocolVars, isrVars
<1>3. prep'.slot = prep.slot
  BY <1>1 DEF PrepLoadSame, PrepTypes, PrepType
<1>4. plan # <<>> /\ QueryBlock = Head(plan)
  BY <1>1, <1>2 DEF NotParking, QueryBlock, CurrentBlock
<1>5. MakingInv'
  BY <1>1, <1>2, <1>3, <1>4 DEF MakingInv, InMaking
<1>6. InMaking /\ InMaking'
  BY <1>2 DEF InMaking
<1>7. DistInv'
  BY <1>1, <1>2, <1>3, <1>6 DEF DistInv, SegDist, BlkDist, Queued
<1>8. BlockDataIntact'
  BY <1>1, <1>2 DEF BlockDataIntact, Queued
<1> QED BY <1>5, <1>7, <1>8

LEMMA DataSegment ==
  ASSUME DataInv, PrepSegment
  PROVE  MakingInv' /\ DistInv' /\ BlockDataIntact'
<1>1. PrepTypes /\ IsrTypes /\ MakingInv /\ DistInv /\ BlockDataIntact
  BY DEF DataInv, TypeInv, TypeOK
<1>2. UNCHANGED <<plan, plb, sblk, head, tail>>
  BY DEF PrepSegment, isrVars
<1>3. \A i \in Slots : i # head => seg'[i] = seg[i]
  BY <1>1 DEF PrepSegment, PrepTypes
<1>4. \A i \in Slots : Queued(i)' => Queued(i) /\ i # head
  BY <1>1, <1>2, SlotsType DEF PrepTypes, IsrTypes, Queued
<1>5. prep'.slot = prep.slot /\ prep'.flag.recalculate = prep.flag.recalculate
  <2>1. \/ prep' = HoldPartial(prep)
        \/ \E d : prep' = [prep EXCEPT !.rem = d]
    BY DEF PrepSegment
  <2>2. prep \in PrepType
    BY <1>1 DEF PrepTypes
  <2> QED BY <2>1, <2>2, HoldPartialEffect DEF PrepType
<1>6. InMaking' <=> InMaking
  BY <1>2, <1>5 DEF InMaking
<1>7. MakingInv'
  BY <1>1, <1>2, <1>5, <1>6 DEF MakingInv
<1>8. DistInv'
  BY <1>1, <1>2, <1>3, <1>4, <1>5, <1>6 DEF DistInv, SegDist, BlkDist
<1>9. BlockDataIntact'
  BY <1>1, <1>2, <1>3, <1>4 DEF BlockDataIntact
<1> QED BY <1>7, <1>8, <1>9

LEMMA DataPublish ==
  ASSUME DataInv, PublishMore \/ PublishLast \/ PublishBlockEnd
  PROVE  MakingInv' /\ DistInv' /\ BlockDataIntact'
<1>1. /\ TypeInv /\ PrepTypes /\ ProtocolTypes /\ Positions /\ NotParking /\ MakingInv
      /\ DistInv /\ BlockDataIntact
  BY DEF DataInv, TypeInv, TypeOK
<1>2. Publish /\ pc = "publish" /\ UNCHANGED <<sblk, seg, tail>>
  BY DEF PublishMore, PublishLast, PublishBlockEnd, Publish, isrVars
<1>3. /\ plb # NoBlock /\ ~prep.flag.recalculate
      /\ seg[head].slot = prep.slot /\ seg[head].owner = plb /\ head \in Slots
  BY <1>1, <1>2 DEF Positions, PrepTypes
<1>4. InMaking /\ plan # <<>> /\ plb = Head(plan) /\ sblk[prep.slot] = plb
  BY <1>1, <1>3 DEF MakingInv, InMaking
<1>5. prep' = Cut \/ prep' = HoldPartial(Cut)
  BY DEF PublishMore, PublishLast, PublishBlockEnd
<1>6. prep'.slot = prep.slot /\ ~prep'.flag.recalculate
  BY <1>1, <1>3, <1>5, CutEffect, HoldPartialEffect
<1>7. UNCHANGED <<plb, plan>> \/ plb' = NoBlock
  BY DEF PublishMore, PublishLast, PublishBlockEnd
<1>8. MakingInv'
  BY <1>2, <1>4, <1>6, <1>7 DEF MakingInv, InMaking
<1>9. \A i \in Slots : Queued(i)' => i = head \/ Queued(i)
  BY <1>1, <1>2, PublishQueue
<1>10. /\ \A i \in Slots : i = head => SegDist(i)' = 1
       /\ \A i \in Slots : Queued(i) => SegDist(i)' = SegDist(i) + 1 /\ SegDist(i) \in Nat
  BY <1>1, <1>2, SegDistPublish
<1>11. DistInv'
  <2> SUFFICES ASSUME NEW i \in Slots, Queued(i)'
               PROVE  /\ BlkDist(seg[i].slot, prep.slot)' <= SegDist(i)'
                      /\ BlkDist(seg[i].slot, prep.slot)' <= SegDist(i)' - 1
    BY DEF DistInv
  <2>1. seg[i].slot \in BlkSlots /\ prep.slot \in BlkSlots
    BY <1>1 DEF PrepTypes, PrepType, SegmentType
  <2>2. BlkDist(seg[i].slot, prep.slot)' = BlkDist(seg[i].slot, prep.slot)
    BY <1>2, <1>6 DEF BlkDist
  <2>3. CASE i = head
    BY <1>3, <1>10, <2>1, <2>2, <2>3, BlkDistZero
  <2>4. CASE Queued(i)
    <3>1. BlkDist(seg[i].slot, prep.slot) <= SegDist(i)
      BY <1>1, <1>4, <2>4 DEF DistInv
    <3> QED BY <1>10, <2>1, <2>2, <2>4, <3>1, BlkDistType
  <2> QED BY <1>9, <2>3, <2>4
<1>12. BlockDataIntact'
  BY <1>1, <1>2, <1>3, <1>4, <1>9 DEF BlockDataIntact
<1> QED BY <1>8, <1>11, <1>12

\* Without a parking motion there is no system motion to hold or to restore.
LEMMA NotParkingStep ==
  ASSUME DataInv, Next
  PROVE  NotParking'
<1>1. ProtocolTypes /\ NotParking
  BY DEF DataInv, TypeInv, TypeOK
<1>2. budget \in [holds: Nat, resets: Nat, parks: Nat] /\ sys \in SysType
  BY <1>1 DEF ProtocolTypes
<1>3. CASE UNCHANGED <<sys, budget>>
  BY <1>1, <1>3 DEF NotParking
<1>4. CASE EndMotion /\ UNCHANGED budget
  BY <1>1, <1>2, <1>4 DEF NotParking, EndMotion, SysType, ControlType
<1>5. CASE CycleStart \/ DoorResume
  <2>1. Start(sys)
    BY <1>5 DEF CycleStart, DoorResume
  <2>2. UNCHANGED budget /\ sys'.ctl = NoControl /\ sys'.parkCall = sys.parkCall
    BY <1>2, <2>1 DEF Start, SysType
  <2> QED BY <1>1, <2>2 DEF NotParking, NoControl
<1>6. CASE FeedHold \/ SafetyDoor
  <2>1. \E state : Suspend(state)
    BY <1>6 DEF FeedHold, SafetyDoor
  <2>2. sys'.ctl \in {sys.ctl, [NoControl EXCEPT !.executeHold = TRUE]}
    BY <1>2, <2>1 DEF Suspend, SysType
  <2>3. ~sys'.ctl.executeSysMotion
    BY <1>1, <2>2 DEF NotParking, NoControl
  <2>4. budget'.parks = budget.parks /\ sys'.parkCall = sys.parkCall
    BY <1>2, <2>1 DEF Suspend, SysType
  <2> QED BY <1>1, <2>3, <2>4 DEF NotParking
<1>7. CASE HandleCycleStop
  <2>1. /\ UNCHANGED budget
        /\ \/ sys' = Stopped
           \/ sys' = [sys EXCEPT !.state = "Idle", !.holdComplete = FALSE]
    BY <1>7 DEF HandleCycleStop
  <2>2. CASE sys' = Stopped
    <3>1. ~sys'.ctl.executeSysMotion /\ sys'.parkCall = sys.parkCall
      BY <1>2, <2>2 DEF Stopped, SysType, ControlType
    <3> QED BY <1>1, <2>1, <3>1 DEF NotParking
  <2>3. CASE sys' = [sys EXCEPT !.state = "Idle", !.holdComplete = FALSE]
    <3>1. sys'.ctl = sys.ctl /\ sys'.parkCall = sys.parkCall
      BY <1>2, <2>3 DEF SysType
    <3> QED BY <1>1, <2>1, <3>1 DEF NotParking
  <2> QED BY <2>1, <2>2, <2>3
<1>8. CASE StartRestore
  BY <1>1, <1>2, <1>8 DEF NotParking, StartRestore, SysType
<1>9. CASE Reset
  BY <1>1, <1>2, <1>9 DEF NotParking, Reset, SysReset, NoControl
<1>10. ~ParkMotion /\ ~ParkRestore /\ ~DoorReopened
  BY <1>1 DEF NotParking, ParkMotion, ParkRestore, DoorReopened
<1>11. CASE Prep
  <2>1. UNCHANGED budget /\ (UNCHANGED sys \/ EndMotion)
    BY <1>11 DEF Prep, PrepEnter, PrepReturn, PrepLoadNew, PrepLoadSame, PrepKeep, PrepSegment,
       PublishMore, PublishLast, PublishBlockEnd, Publish, WakeUp, protocolVars
  <2> QED BY <1>3, <1>4, <2>1
<1>12. CASE Interrupt \/ BufferLine
  <2>1. UNCHANGED <<sys, budget>>
    BY <1>12 DEF Interrupt, IsrStep, IsrEmpty, BufferLine, protocolVars
  <2> QED BY <1>3, <2>1
<1> QED BY <1>5, <1>6, <1>7, <1>8, <1>9, <1>10, <1>11, <1>12 DEF Next, Protocol, Handlers, Parking

LEMMA DataProtocol ==
  ASSUME DataInv, Protocol
  PROVE  MakingInv' /\ DistInv' /\ BlockDataIntact'
<1>1. PrepTypes /\ ProtocolTypes /\ NotParking /\ MakingInv /\ DistInv /\ BlockDataIntact
  BY DEF DataInv, TypeInv, TypeOK
<1>2. plb # NoBlock => plan # <<>>
  BY <1>1 DEF MakingInv, InMaking
<1>3. CASE /\ UNCHANGED <<sblk, seg, head, tail, plan>>
           /\ UNCHANGED <<prep, plb>> \/ StUpdate
  <2>1. prep'.slot = prep.slot /\ (InMaking' <=> InMaking) /\ (plb' = plb \/ plb' = NoBlock)
    BY <1>1, <1>3, UpdatedMaking DEF InMaking
  <2>2. \A i \in Slots : Queued(i)' => Queued(i)
    BY <1>3 DEF Queued
  <2> QED BY <1>1, <1>2, <1>3, <2>1, <2>2, DataStable
<1>4. CASE BufferLine
  <2>1. /\ UNCHANGED <<sblk, seg, head, tail>> /\ plan' = Append(plan, added + 1)
        /\ UNCHANGED <<prep, plb>> \/ StUpdate
    BY <1>4 DEF BufferLine, isrVars
  <2>2. prep'.slot = prep.slot /\ (InMaking' <=> InMaking) /\ (plb' = plb \/ plb' = NoBlock)
    BY <1>1, <2>1, UpdatedMaking DEF InMaking
  <2>3. added + 1 \in Planned
    BY <1>1, <1>4, BufferAssumption DEF BufferAssumption, ProtocolTypes, Planned, BufferLine
  <2>4. plan # <<>> => plan' # <<>> /\ Head(plan') = Head(plan)
    BY <1>1, <2>1, <2>3 DEF ProtocolTypes
  <2>5. \A i \in Slots : Queued(i)' => Queued(i)
    BY <2>1 DEF Queued
  <2> QED BY <1>1, <1>2, <2>1, <2>2, <2>4, <2>5, DataStable
<1>5. CASE Reset
  <2>1. /\ plb' = NoBlock /\ prep' = PrepReset /\ head' = 0 /\ tail' = 0
    BY <1>5 DEF Reset
  <2>2. \A i \in Slots : ~Queued(i)'
    BY <2>1, SlotsType DEF Queued
  <2> QED BY <2>1, <2>2 DEF MakingInv, InMaking, DistInv, BlockDataIntact, PrepReset, NoFlags
<1>6. ~ParkMotion /\ ~ParkRestore /\ ~DoorReopened
  BY <1>1 DEF NotParking, ParkMotion, ParkRestore, DoorReopened
<1>7. CASE CycleStart \/ DoorResume
  BY <1>3, <1>7 DEF CycleStart, DoorResume, Start, isrVars
<1>8. CASE FeedHold \/ SafetyDoor
  BY <1>3, <1>8 DEF FeedHold, SafetyDoor, Suspend, isrVars
<1>9. CASE HandleCycleStop
  BY <1>3, <1>9 DEF HandleCycleStop
<1>10. CASE StartRestore
  BY <1>3, <1>10 DEF StartRestore, prepVars, isrVars
<1> QED BY <1>4, <1>5, <1>6, <1>7, <1>8, <1>9, <1>10 DEF Protocol, Handlers, Parking

LEMMA DataInterrupt ==
  ASSUME DataInv, Interrupt
  PROVE  MakingInv' /\ DistInv' /\ BlockDataIntact'
<1>1. TypeInv /\ Positions /\ MakingInv /\ DistInv /\ BlockDataIntact
  BY DEF DataInv, TypeInv
<1>2. UNCHANGED <<plan, prepVars>>
  BY DEF Interrupt, IsrStep, IsrEmpty, protocolVars
<1>3. \A i \in Slots : Queued(i)' => Queued(i)
  <2>1. CASE UNCHANGED tail
    BY <1>2, <2>1 DEF prepVars, Queued
  <2>2. CASE tail # head /\ tail' = NextSlot(tail)
    BY <1>1, <1>2, <2>2, ConsumeQueue DEF prepVars
  <2>3. IsrStep => tail # head
    BY <1>1 DEF IsrStep, Positions
  <2> QED BY <2>1, <2>2, <2>3 DEF Interrupt, IsrStep, IsrEmpty
<1>4. (InMaking' <=> InMaking) /\ (plb # NoBlock => plan # <<>>)
  BY <1>1, <1>2 DEF InMaking, MakingInv, prepVars
<1> QED BY <1>1, <1>2, <1>3, <1>4, DataStable DEF prepVars

LEMMA DataNext == DataInv /\ [Next]_vars => DataInv'
<1> SUFFICES ASSUME DataInv, [Next]_vars PROVE DataInv'
  OBVIOUS
<1>1. TypeInv'
  BY NextTypeInv DEF DataInv
<1>2. CASE UNCHANGED vars
  BY <1>1, <1>2 DEF vars, protocolVars, prepVars, isrVars, DataInv, NotParking, MakingInv,
     DistInv, BlockDataIntact, InMaking, BlkDist, SegDist, Queued
<1>3. CASE Next
  <2>1. NotParking'
    BY <1>3, NotParkingStep
  <2>2. MakingInv' /\ DistInv' /\ BlockDataIntact'
    <3>1. CASE PrepEnter \/ PrepReturn \/ PrepKeep \/ WakeUp
      <4>1. UNCHANGED <<plan, plb, prep, sblk, seg, head, tail>>
        BY <3>1 DEF PrepEnter, PrepReturn, PrepKeep, WakeUp, protocolVars, isrVars
      <4> QED BY <4>1 DEF DataInv, MakingInv, DistInv, BlockDataIntact, InMaking, BlkDist,
              SegDist, Queued
    <3> QED BY <1>3, <3>1, DataLoadNew, DataLoadSame, DataSegment, DataPublish, DataProtocol,
            DataInterrupt DEF Next, Prep
  <2> QED BY <1>1, <2>1, <2>2 DEF DataInv
<1> QED BY <1>2, <1>3

\* Without parking motions the interrupt never steps a segment with the data of
\* another block: a segment ring one slot larger than st_block_buffer is all the
\* protection the unguarded slots of st_block_buffer need, for every size of the
\* rings, every program, and every sequence of holds, doors, resumes and resets.
THEOREM DataIntact == ASSUME MaxParks = 0 PROVE Spec => []BlockDataIntact
<1>1. Init => DataInv
  BY DataInit
<1>2. DataInv => BlockDataIntact
  BY DEF DataInv
<1> QED BY <1>1, <1>2, DataNext, PTL DEF Spec

-----------------------------------------------------------------------------
(***************************************************************************)
(* Why the steps are exact, without parking motions.  Read from the tail   *)
(* of the segment ring to the place where st_prep_buffer cuts, every       *)
(* segment begins where the one before it ends: in the middle of the same  *)
(* block, or at the first step of the next.  So an execution of the ring   *)
(* in its order makes each block's steps once, and st_block_buffer changes *)
(* its slot exactly where a block begins, which is where the interrupt     *)
(* restarts the counter of the minor axis.                                 *)
(***************************************************************************)

\* The last block that is cut to its end or was thrown away; the planner holds the next
\* ones in their order.
Out == added - Len(plan)
InOrder ==
  /\ base <= Out
  /\ \A i \in 1..Len(plan) : plan[i] = Out + i

\* A deceleration that ends inside a block is that of a hold under way.
HoldRight ==
  /\ sys.state = "Cycle" => ~sys.holdComplete
  /\ sys.restoring => sys.state = "SafetyDoor" /\ sys.holdComplete
  /\ sys.ctl.executeHold => sys.state \in {"Hold", "SafetyDoor"} /\ ~sys.holdComplete
  /\ plb # NoBlock /\ prep.complete > 0 => sys.ctl.executeHold

\* steps_remaining are the steps of the distance that remains; a segment in the making
\* has some of them.
CutRight ==
  /\ \A i \in 1..Len(plan) : i > 1 \/ ~InMaking => mm[plan[i]] = Steps[plan[i]] * STEP_UNITS
  /\ InMaking => /\ 0 < mm[Out + 1] /\ mm[Out + 1] <= Steps[Out + 1] * STEP_UNITS
                 /\ prep.steps = StepsOf(mm[Out + 1])
  /\ plb # NoBlock => prep.complete <= mm[Out + 1]
  /\ pc = "publish" =>
       /\ prep.complete <= prep.rem /\ prep.rem <= mm[Out + 1]
       /\ seg[head].n > 0 /\ seg[head].n = prep.steps - StepsOf(prep.rem)

\* The steps of the first planned block that no segment has yet.
Uncut == IF InMaking THEN prep.steps ELSE Steps[Out + 1]

\* The block a segment slot is or will be of, and its slot of st_block_buffer; before[i]
\* are the block's steps left before the queued segment i.
Own(i) == IF i = head THEN Out + 1 ELSE seg[i].owner
DataSlot(i) == IF i = head THEN prep.slot ELSE seg[i].slot
LeftAt(before, i) == IF i = head THEN Uncut ELSE before[i]

\* Where block o has r steps left, l steps of block p come next.
Follows(o, r, p, l) == IF r > 0 THEN p = o /\ l = r
                       ELSE p = o + 1 /\ (p \in Planned => l = Steps[p])

\* After slot s of st_block_buffer, segment i names another one if it begins a block.
SlotTurns(before, s, i) ==
  IF i = head /\ ~InMaking THEN s = prep.slot
  ELSE (DataSlot(i) = s) <=> (LeftAt(before, i) # Steps[Own(i)])

Chain(before) ==
  \A i \in Slots : Queued(i) =>
    /\ base < seg[i].owner /\ seg[i].owner <= Out + 1 /\ seg[i].owner <= added
    /\ 0 < seg[i].n /\ seg[i].n <= before[i] /\ before[i] <= Steps[seg[i].owner]
    /\ Follows(seg[i].owner, before[i] - seg[i].n,
               Own(NextSlot(i)), LeftAt(before, NextSlot(i)))
    /\ SlotTurns(before, seg[i].slot, NextSlot(i))

\* No block between those of the tail and of the head is missing.
Covered == \A b \in Own(tail)..Out : \E i \in Slots : Queued(i) /\ seg[i].owner = b

\* What the interrupt has made: all of the blocks before the tail's, nothing of those
\* behind it, and the rest of the tail's is in the ring.
MadeBefore == \A b \in Planned : base < b /\ b < Own(tail) =>
                done[b] = [major |-> Steps[b], minor |-> Minor[b]]
MadeBehind == \A b \in Planned : Own(tail) < b => done[b] = [major |-> 0, minor |-> 0]
Loading(before) ==
  IF st.loaded THEN /\ st.slot = seg[tail].slot
                    /\ 0 < st.count /\ st.count < seg[tail].n
  ELSE SlotTurns(before, st.slot, tail)
\* The Bresenham counter stands where a line of the block's slope has it.
MadeAtTail(before) ==
  LET o == Own(tail) IN
  o \in Planned =>
    /\ done[o].major = Steps[o] - LeftAt(before, tail)
                         + IF st.loaded THEN seg[tail].n - st.count ELSE 0
    /\ done[o].major = 0 => done[o].minor = 0
    /\ done[o].major > 0 =>
         /\ st.counter = Steps[o] + 2 * (Minor[o] * done[o].major) - 2 * (Steps[o] * done[o].minor)
         /\ 0 < st.counter /\ st.counter <= 2 * Steps[o]

RingRight == \E before \in [Slots -> Nat] :
               Chain(before) /\ MadeBefore /\ MadeBehind /\ Loading(before) /\ MadeAtTail(before)

StepsInv == DataInv /\ InOrder /\ HoldRight /\ CutRight /\ Covered /\ RingRight

\* The numbers the invariant speaks of, and the first planned block.
LEMMA PlanShape ==
  ASSUME DataInv, InOrder
  PROVE  /\ added \in Nat /\ base \in Nat /\ Len(plan) \in Nat /\ Out \in Nat
         /\ NumBlocks \in Nat /\ added <= NumBlocks /\ base <= Out /\ Out <= added
         /\ plan # <<>> => Head(plan) = Out + 1 /\ Out + 1 <= added
         /\ InMaking => plan # <<>>
         /\ plb # NoBlock => plb = Out + 1 /\ plan # <<>>
<1>1. plan \in Seq(Planned) /\ added \in 0..NumBlocks /\ base \in 0..NumBlocks /\ MakingInv
  BY DEF DataInv, TypeInv, TypeOK, ProtocolTypes
<1>2. NumBlocks \in Nat
  BY BufferAssumption DEF BufferAssumption
<1>3. Len(plan) \in Nat /\ (plan # <<>> => Len(plan) > 0 /\ Head(plan) = plan[1])
  BY <1>1
<1>4. base <= Out /\ (plan # <<>> => Head(plan) = Out + 1)
  BY <1>3 DEF InOrder
<1>5. InMaking => plan # <<>>
  BY <1>1 DEF MakingInv
<1>6. plb # NoBlock => plb = Out + 1 /\ plan # <<>>
  BY <1>1, <1>4, <1>5 DEF MakingInv, InMaking
<1> QED BY <1>1, <1>2, <1>3, <1>4, <1>5, <1>6 DEF Out

\* A block that is on its way to the interrupt has a number and steps.
LEMMA NumberPlanned ==
  ASSUME NEW b \in Int, 0 < b, b <= NumBlocks
  PROVE  /\ b \in Planned /\ b \in Blocks
         /\ Steps[b] \in Nat /\ Steps[b] > 0 /\ Steps[b] < U16
         /\ Minor[b] \in Nat /\ Minor[b] <= Steps[b] /\ Steps[b] * STEP_UNITS \in Nat
<1>1. NumBlocks \in Nat /\ Steps \in [Blocks -> 1..U16-1] /\ \A c \in Blocks : Minor[c] <= Steps[c]
  BY BufferAssumption DEF BufferAssumption
<1>2. b \in Planned /\ b \in Blocks
  BY <1>1 DEF Planned, Blocks
<1> QED BY <1>1, <1>2, StepsType, U16Type

\* A segment slot after a queued one is queued, or the head.
LEMMA QueuedNext ==
  ASSUME TypeInv
  PROVE  /\ \A i \in Slots : Queued(i) => i # head /\ (NextSlot(i) = head \/ Queued(NextSlot(i)))
         /\ tail # head => Queued(tail)
         /\ tail \in Slots /\ head \in Slots
<1>1. tail \in Slots /\ head \in Slots
  BY DEF TypeInv, TypeOK, PrepTypes, IsrTypes
<1>2. \A i \in Slots : Queued(i) => i # head /\ (NextSlot(i) = head \/ Queued(NextSlot(i)))
  BY <1>1, BufferAssumption DEF BufferAssumption, Slots, Queued, NextSlot
<1>3. tail # head => Queued(tail)
  BY <1>1, SlotsType DEF Queued
<1> QED BY <1>1, <1>2, <1>3

\* Rounding up: nothing left is no step, something is at least one, and no more than
\* the block has; a full step less is a step less.
LEMMA StepsOfBounds ==
  /\ StepsOf(0) = 0
  /\ \A d \in Nat : d > 0 => StepsOf(d) > 0
  /\ \A d, e \in Nat : d <= e => StepsOf(d) <= StepsOf(e)
  /\ \A d, e \in Nat : d <= e - REQ_INCREMENT => StepsOf(d) < StepsOf(e)
  /\ \A s \in Nat : StepsOf(s * STEP_UNITS) = s
<1> DEFINE u == STEP_UNITS
<1>1. u \in Nat /\ u > 0 /\ REQ_INCREMENT \in Nat /\ REQ_INCREMENT >= u
  BY BufferAssumption DEF BufferAssumption
<1> HIDE DEF u
<1>2. \A d \in Nat : /\ StepsOf(d) \in Nat
                     /\ u * StepsOf(d) <= d + u - 1 /\ d + u - 1 < u * StepsOf(d) + u
  <2> TAKE d \in Nat
  <2>1. StepsOf(d) = (d + u - 1) \div u
    BY DEF StepsOf, u
  <2>2. d + u - 1 \in Nat
    BY <1>1
  <2>3. \A m \in Nat : (m \div u) \in Nat /\ u * (m \div u) <= m /\ m < u * (m \div u) + u
    BY <1>1
  <2> QED BY <2>1, <2>2, <2>3
<1>3. \A a, b \in Nat : u * a < u * b + u => a <= b
  BY <1>1
<1>4. \A a, b \in Nat : a <= b => u * a <= u * b
  BY <1>1
<1>5. \A a \in Nat : u * a \in Nat /\ u * a = a * u
  BY <1>1
<1>6. \A a, b \in Nat : u * a < u * b => a < b
  BY <1>1
<1>7. StepsOf(0) = 0
  <2>1. u * StepsOf(0) < u * 0 + u
    BY <1>1, <1>2
  <2> QED BY <1>2, <1>3, <2>1
<1>8. \A d \in Nat : d > 0 => StepsOf(d) > 0
  <2> SUFFICES ASSUME NEW d \in Nat, d > 0 PROVE StepsOf(d) # 0
    BY <1>2
  <2>1. u * 0 = 0
    BY <1>1
  <2> QED BY <1>1, <1>2, <2>1
<1>9. \A d, e \in Nat : d <= e => StepsOf(d) <= StepsOf(e)
  <2> SUFFICES ASSUME NEW d \in Nat, NEW e \in Nat, d <= e PROVE StepsOf(d) <= StepsOf(e)
    OBVIOUS
  <2>1. u * StepsOf(d) < u * StepsOf(e) + u
    <3>1. u * StepsOf(d) \in Nat /\ u * StepsOf(e) \in Nat
      BY <1>2, <1>5
    <3>2. u * StepsOf(d) <= d + u - 1 /\ e + u - 1 < u * StepsOf(e) + u
      BY <1>2
    <3> QED BY <1>1, <3>1, <3>2
  <2> QED BY <1>2, <1>3, <2>1
<1>10. \A d, e \in Nat : d <= e - REQ_INCREMENT => StepsOf(d) < StepsOf(e)
  <2> SUFFICES ASSUME NEW d \in Nat, NEW e \in Nat, d <= e - REQ_INCREMENT
               PROVE StepsOf(d) < StepsOf(e)
    OBVIOUS
  <2>1. u * StepsOf(d) < u * StepsOf(e)
    BY <1>1, <1>2, <1>5
  <2> QED BY <1>2, <1>6, <2>1
<1>11. \A s \in Nat : StepsOf(s * u) = s
  <2> TAKE s \in Nat
  <2>1. s * u \in Nat
    BY <1>5
  <2>2. u * StepsOf(s * u) < u * s + u /\ u * s < u * StepsOf(s * u) + u
    <3>1. u * StepsOf(s * u) \in Nat /\ u * s \in Nat /\ u * s = s * u
      BY <1>2, <1>5, <2>1
    <3>2. u * StepsOf(s * u) <= s * u + u - 1 /\ s * u + u - 1 < u * StepsOf(s * u) + u
      BY <1>2, <2>1
    <3> QED BY <1>1, <2>1, <3>1, <3>2
  <2>3. StepsOf(s * u) <= s /\ s <= StepsOf(s * u)
    BY <1>2, <1>3, <2>1, <2>2
  <2> QED BY <1>2, <2>1, <2>3
<1> QED BY <1>7, <1>8, <1>9, <1>10, <1>11 DEF u

\* Steps that move neither the interrupt nor the place where st_prep_buffer cuts leave the
\* chain alone.
LEMMA RingStable ==
  ASSUME TypeInv, Covered, RingRight,
         UNCHANGED <<tail, head, st, done, base>>, Out' = Out, Uncut' = Uncut,
         InMaking' <=> InMaking, prep'.slot = prep.slot, added \in Nat, added' \in Nat,
         added <= added',
         \A i \in Slots : Queued(i) => seg'[i] = seg[i]
  PROVE  Covered' /\ RingRight'
<1>1. PICK before \in [Slots -> Nat] :
        Chain(before) /\ MadeBefore /\ MadeBehind /\ Loading(before) /\ MadeAtTail(before)
  BY DEF RingRight
<1>2. \A i \in Slots : Queued(i)' <=> Queued(i)
  BY DEF Queued
<1>3. \A i \in Slots : i = head \/ Queued(i) =>
        /\ Own(i)' = Own(i) /\ DataSlot(i)' = DataSlot(i)
        /\ LeftAt(before, i)' = LeftAt(before, i)
  BY DEF Own, DataSlot, LeftAt
<1>4. \A i \in Slots : i = head \/ Queued(i) =>
        \A s \in BlkSlots : SlotTurns(before, s, i)' <=> SlotTurns(before, s, i)
  BY <1>3 DEF SlotTurns
<1>5. /\ \A i \in Slots : Queued(i) => i # head /\ (NextSlot(i) = head \/ Queued(NextSlot(i)))
      /\ \A i \in Slots : NextSlot(i) \in Slots
      /\ tail \in Slots /\ (tail = head \/ Queued(tail))
  BY QueuedNext, NextSlotRing
<1>6. /\ seg \in [Slots -> SegmentType] /\ st.slot \in BlkSlots /\ (st.loaded => tail # head)
  BY DEF TypeInv, TypeOK, PrepTypes, IsrTypes, StType, Positions
<1>7. \A i \in Slots : seg[i].slot \in BlkSlots /\ seg[i].owner \in Int
  BY <1>6 DEF SegmentType, Blocks, Planned, Park, NoBlock
<1>8. Covered'
  BY <1>2, <1>3, <1>5 DEF Covered
<1>9. Chain(before)'
  <2> SUFFICES ASSUME NEW i \in Slots, Queued(i)'
               PROVE  /\ base' < seg'[i].owner /\ seg'[i].owner <= Out' + 1
                      /\ seg'[i].owner <= added'
                      /\ 0 < seg'[i].n /\ seg'[i].n <= before[i]
                      /\ before[i] <= Steps[seg'[i].owner]
                      /\ Follows(seg[i].owner, before[i] - seg[i].n,
                                 Own(NextSlot(i)), LeftAt(before, NextSlot(i)))'
                      /\ SlotTurns(before, seg[i].slot, NextSlot(i))'
    BY DEF Chain
  <2>1. Queued(i) /\ seg'[i] = seg[i] /\ NextSlot(i) \in Slots
    BY <1>2, <1>5
  <2>2. /\ base < seg[i].owner /\ seg[i].owner <= Out + 1 /\ seg[i].owner <= added
        /\ 0 < seg[i].n /\ seg[i].n <= before[i] /\ before[i] <= Steps[seg[i].owner]
        /\ Follows(seg[i].owner, before[i] - seg[i].n,
                   Own(NextSlot(i)), LeftAt(before, NextSlot(i)))
        /\ SlotTurns(before, seg[i].slot, NextSlot(i))
    BY <1>1, <2>1 DEF Chain
  <2>3. /\ Own(NextSlot(i))' = Own(NextSlot(i))
        /\ LeftAt(before, NextSlot(i))' = LeftAt(before, NextSlot(i))
    BY <1>3, <1>5, <2>1
  <2>4. Follows(seg[i].owner, before[i] - seg[i].n,
                Own(NextSlot(i)), LeftAt(before, NextSlot(i)))'
    BY <2>1, <2>2, <2>3 DEF Follows
  <2>5. SlotTurns(before, seg[i].slot, NextSlot(i))'
    BY <1>3, <1>5, <1>7, <2>1, <2>2 DEF SlotTurns
  <2>6. seg'[i].owner <= added'
    BY <1>7, <2>1, <2>2
  <2> QED BY <2>1, <2>2, <2>4, <2>5, <2>6
<1>10. MadeBefore' /\ MadeBehind'
  BY <1>1, <1>3, <1>5 DEF MadeBefore, MadeBehind
<1>11. Loading(before)'
  <2>1. st.loaded => seg'[tail] = seg[tail]
    BY <1>5, <1>6
  <2>2. SlotTurns(before, st.slot, tail)' <=> SlotTurns(before, st.slot, tail)
    BY <1>3, <1>5 DEF SlotTurns
  <2> QED BY <1>1, <2>1, <2>2 DEF Loading
<1>12. MadeAtTail(before)'
  <2>1. Own(tail)' = Own(tail) /\ LeftAt(before, tail)' = LeftAt(before, tail)
    BY <1>3, <1>5
  <2>2. st.loaded => seg'[tail] = seg[tail]
    BY <1>5, <1>6
  <2> QED BY <1>1, <2>1, <2>2 DEF MadeAtTail
<1> QED BY <1>1, <1>8, <1>9, <1>10, <1>11, <1>12 DEF RingRight

\* st_update_plan_block_parameters moves no such place.
LEMMA UpdatedUncut ==
  ASSUME PrepTypes, UNCHANGED <<prep, plb>> \/ StUpdate, Out' = Out
  PROVE  /\ InMaking' <=> InMaking
         /\ Uncut' = Uncut /\ prep'.slot = prep.slot /\ prep'.steps = prep.steps
         /\ plb' = plb \/ plb' = NoBlock
         /\ plb' # NoBlock => prep'.complete = prep.complete
<1>1. CASE UNCHANGED <<prep, plb>>
  BY <1>1 DEF InMaking, Uncut
<1>2. CASE StUpdate
  <2>1. prep' = UpdatedPrep /\ plb' = NoBlock
    BY <1>2 DEF StUpdate
  <2>2. UpdatedPrep.steps = prep.steps
    BY DEF UpdatedPrep, PrepTypes, PrepType
  <2>3. InMaking' <=> InMaking
    BY <1>2, UpdatedMaking
  <2>4. prep'.slot = prep.slot
    BY <1>2, UpdatedMaking
  <2> QED BY <2>1, <2>2, <2>3, <2>4 DEF Uncut
<1> QED BY <1>1, <1>2

\* Steps that leave the planner and the cutting alone keep what is said of them.
LEMMA CutStable ==
  ASSUME DataInv, InOrder, CutRight,
         UNCHANGED <<plan, added, base, mm, seg, head>>,
         InMaking' <=> InMaking, prep'.steps = prep.steps,
         plb' # NoBlock => plb # NoBlock /\ prep'.complete = prep.complete,
         pc' # "publish"
  PROVE  InOrder' /\ CutRight' /\ Out' = Out
<1>1. Out' = Out
  BY DEF Out
<1>2. InOrder'
  BY <1>1 DEF InOrder
<1>3. CutRight'
  BY <1>1 DEF CutRight
<1> QED BY <1>1, <1>2, <1>3

\* The moves of the main task through st_prep_buffer.
LEMMA StepsPrepMoves ==
  ASSUME StepsInv, PrepEnter \/ PrepReturn \/ PrepKeep \/ WakeUp
  PROVE  InOrder' /\ HoldRight' /\ CutRight' /\ Covered' /\ RingRight'
<1>1. /\ DataInv /\ InOrder /\ HoldRight /\ CutRight /\ Covered /\ RingRight /\ TypeInv
  BY DEF StepsInv, DataInv
<1>2. /\ UNCHANGED <<sys, plan, added, done, base, mm, plb, prep, seg, head, tail, st>>
      /\ pc' # "publish"
  BY DEF PrepEnter, PrepReturn, PrepKeep, WakeUp, protocolVars, isrVars, Caller
<1>3. InMaking' <=> InMaking
  BY <1>2 DEF InMaking
<1>4. InOrder' /\ CutRight' /\ Out' = Out
  BY <1>1, <1>2, <1>3, CutStable
<1>5. HoldRight'
  BY <1>1, <1>2 DEF HoldRight
<1>6. Covered' /\ RingRight'
  BY <1>1, <1>2, <1>3, <1>4, PlanShape, RingStable DEF Uncut
<1> QED BY <1>4, <1>5, <1>6

\* A block taken up again is cut where it was left.
LEMMA StepsLoadSame ==
  ASSUME StepsInv, PrepLoadSame
  PROVE  InOrder' /\ HoldRight' /\ CutRight' /\ Covered' /\ RingRight'
<1>1. /\ DataInv /\ InOrder /\ HoldRight /\ CutRight /\ Covered /\ RingRight /\ TypeInv
      /\ PrepTypes /\ NotParking
  BY DEF StepsInv, DataInv, TypeInv, TypeOK
<1>2. /\ UNCHANGED <<sys, plan, added, done, base, mm, seg, head, tail, st>>
      /\ plb = NoBlock /\ prep.flag.recalculate /\ plb' = QueryBlock /\ QueryBlock # NoBlock
      /\ pc' = "seg"
  BY DEF PrepLoadSame, protocolVars, isrVars
<1>3. PICK q \in Profiles(QueryBlock, FALSE) :
        prep' = [prep EXCEPT !.complete = q.complete, !.stop = q.stop,
                             !.flag = IF @.parking THEN [@ EXCEPT !.recalculate = FALSE]
                                                   ELSE NoFlags]
  BY DEF PrepLoadSame
<1>4. /\ prep'.slot = prep.slot /\ prep'.steps = prep.steps /\ prep'.complete = q.complete
      /\ InMaking /\ InMaking'
  BY <1>1, <1>2, <1>3 DEF PrepTypes, PrepType, InMaking
<1>5. QueryBlock = Out + 1 /\ Out' = Out
  BY <1>1, <1>2, <1>4, PlanShape DEF QueryBlock, CurrentBlock, NotParking, Out
<1>6. q.complete \in 0..mm[Out + 1] /\ (q.complete > 0 => sys.ctl.executeHold)
  <2>1. 0 < mm[Out + 1] /\ mm[Out + 1] \in Nat
    <3>1. Out + 1 \in Blocks
      BY <1>1, <1>4, PlanShape, NumberPlanned
    <3> QED BY <1>1, <1>4, <3>1 DEF CutRight, PrepTypes
  <2> QED BY <1>3, <1>5, <2>1 DEF Profiles
<1>7. InOrder' /\ CutRight'
  BY <1>1, <1>2, <1>4, <1>5, <1>6 DEF InOrder, CutRight
<1>8. HoldRight'
  BY <1>1, <1>2, <1>4, <1>6 DEF HoldRight
<1>9. Covered' /\ RingRight'
  BY <1>1, <1>2, <1>4, <1>5, PlanShape, RingStable DEF Uncut
<1> QED BY <1>7, <1>8, <1>9

\* A new block is cut from its first step on, into the next slot of st_block_buffer.
LEMMA StepsLoadNew ==
  ASSUME StepsInv, PrepLoadNew
  PROVE  InOrder' /\ HoldRight' /\ CutRight' /\ Covered' /\ RingRight'
<1>1. /\ DataInv /\ InOrder /\ HoldRight /\ CutRight /\ Covered /\ RingRight /\ TypeInv
      /\ PrepTypes /\ NotParking
  BY DEF StepsInv, DataInv, TypeInv, TypeOK
<1>2. /\ UNCHANGED <<sys, plan, added, done, base, mm, seg, head, tail, st>>
      /\ plb = NoBlock /\ ~prep.flag.recalculate /\ plb' = QueryBlock /\ QueryBlock # NoBlock
      /\ pc' = "seg"
  BY DEF PrepLoadNew, protocolVars, isrVars
<1>3. PICK q \in Profiles(QueryBlock, prep.stop) :
        prep' = [prep EXCEPT !.slot = NextBlk(@), !.steps = Steps[QueryBlock],
                             !.complete = q.complete, !.stop = q.stop]
  BY DEF PrepLoadNew
<1>4. /\ prep'.slot = NextBlk(prep.slot) /\ prep'.steps = Steps[QueryBlock]
      /\ prep'.complete = q.complete /\ ~InMaking /\ InMaking'
  BY <1>1, <1>2, <1>3 DEF PrepTypes, PrepType, InMaking
<1>5. /\ plan # <<>> /\ QueryBlock = Out + 1 /\ Out' = Out /\ Out + 1 <= added
      /\ Out \in Nat
  BY <1>1, <1>2, PlanShape DEF QueryBlock, CurrentBlock, NotParking, Out
<1>6. /\ Out + 1 \in Blocks /\ Steps[Out + 1] \in Nat /\ Steps[Out + 1] > 0
      /\ Steps[Out + 1] * STEP_UNITS \in Nat
  BY <1>1, <1>5, PlanShape, NumberPlanned
<1>7. mm[Out + 1] = Steps[Out + 1] * STEP_UNITS /\ 0 < mm[Out + 1]
  <2>1. 1 \in 1..Len(plan) /\ plan[1] = Out + 1
    BY <1>1, <1>5, PlanShape DEF InOrder
  <2>2. mm[Out + 1] = Steps[Out + 1] * STEP_UNITS
    BY <1>1, <1>4, <2>1 DEF CutRight
  <2>3. Steps[Out + 1] * STEP_UNITS # 0
    BY <1>6, BufferAssumption DEF BufferAssumption
  <2> QED BY <1>6, <2>2, <2>3
<1>8. q.complete \in 0..mm[Out + 1] /\ (q.complete > 0 => sys.ctl.executeHold)
  BY <1>3, <1>5, <1>6, <1>7 DEF Profiles
<1>9. InOrder'
  BY <1>1, <1>2, <1>5 DEF InOrder
<1>10. CutRight'
  BY <1>1, <1>2, <1>4, <1>5, <1>6, <1>7, <1>8, StepsOfBounds DEF CutRight
<1>11. HoldRight'
  BY <1>1, <1>2, <1>4, <1>8 DEF HoldRight
<1>12. Uncut' = Uncut /\ Uncut = Steps[Out + 1]
  BY <1>4, <1>5 DEF Uncut
<1>13. PICK before \in [Slots -> Nat] :
        Chain(before) /\ MadeBefore /\ MadeBehind /\ Loading(before) /\ MadeAtTail(before)
  BY <1>1 DEF RingRight
<1>14. \A i \in Slots : /\ Queued(i)' <=> Queued(i)
                        /\ Own(i)' = Own(i) /\ LeftAt(before, i)' = LeftAt(before, i)
  BY <1>2, <1>5, <1>12 DEF Queued, Own, LeftAt
<1>15. /\ \A i \in Slots : Queued(i) => i # head /\ NextSlot(i) \in Slots
       /\ tail \in Slots /\ head \in Slots
  BY <1>1, QueuedNext, NextSlotRing
<1>16. \A i \in Slots : \A s \in BlkSlots : SlotTurns(before, s, i) => SlotTurns(before, s, i)'
  <2> SUFFICES ASSUME NEW i \in Slots, NEW s \in BlkSlots, SlotTurns(before, s, i)
               PROVE  SlotTurns(before, s, i)'
    OBVIOUS
  <2>1. CASE i = head
    <3>1. s = prep.slot
      BY <1>4, <2>1 DEF SlotTurns
    <3>2. NextBlk(prep.slot) # prep.slot
      <4>1. prep.slot \in BlkSlots
        BY <1>1 DEF PrepTypes, PrepType
      <4> QED BY <4>1, NextBlkOther
    <3>3. DataSlot(i)' # s
      BY <1>2, <1>4, <2>1, <3>1, <3>2 DEF DataSlot
    <3>4. LeftAt(before, i)' = Steps[Own(i)']
      BY <1>2, <1>5, <1>12, <2>1 DEF LeftAt, Own
    <3> QED BY <1>4, <3>3, <3>4 DEF SlotTurns
  <2>2. CASE i # head
    BY <1>2, <1>14, <2>2 DEF SlotTurns, DataSlot
  <2> QED BY <2>1, <2>2
<1>17. Covered'
  BY <1>1, <1>2, <1>5, <1>14, <1>15 DEF Covered
<1>18. Chain(before)'
  <2>1. \A i \in Slots : seg[i].slot \in BlkSlots
    BY <1>1 DEF PrepTypes, SegmentType
  <2>2. ASSUME NEW i \in Slots, Queued(i)
        PROVE  /\ Follows(seg[i].owner, before[i] - seg[i].n,
                          Own(NextSlot(i)), LeftAt(before, NextSlot(i)))'
               /\ SlotTurns(before, seg[i].slot, NextSlot(i))'
    <3>1. /\ Follows(seg[i].owner, before[i] - seg[i].n,
                     Own(NextSlot(i)), LeftAt(before, NextSlot(i)))
          /\ SlotTurns(before, seg[i].slot, NextSlot(i)) /\ NextSlot(i) \in Slots
      BY <1>13, <1>15, <2>2 DEF Chain
    <3>2. Follows(seg[i].owner, before[i] - seg[i].n,
                  Own(NextSlot(i)), LeftAt(before, NextSlot(i)))'
      BY <1>2, <1>14, <3>1 DEF Follows
    <3>3. SlotTurns(before, seg[i].slot, NextSlot(i))'
      BY <1>2, <1>4, <1>16, <2>1, <3>1 DEF SlotTurns
    <3> QED BY <3>2, <3>3
  <2> QED BY <1>2, <1>5, <1>13, <1>14, <2>2 DEF Chain
<1>19. MadeBefore' /\ MadeBehind'
  BY <1>2, <1>13, <1>14, <1>15 DEF MadeBefore, MadeBehind
<1>20. Loading(before)'
  <2>1. st.slot \in BlkSlots
    BY <1>1 DEF TypeInv, TypeOK, IsrTypes, StType
  <2>2. ~st.loaded => SlotTurns(before, st.slot, tail)'
    BY <1>2, <1>13, <1>15, <1>16, <2>1 DEF Loading, SlotTurns
  <2> QED BY <1>2, <1>4, <1>13, <2>2 DEF Loading, SlotTurns
<1>21. MadeAtTail(before)'
  BY <1>2, <1>13, <1>14, <1>15 DEF MadeAtTail
<1> QED BY <1>9, <1>10, <1>11, <1>13, <1>17, <1>18, <1>19, <1>20, <1>21 DEF RingRight

\* A segment in the making has steps, of those that remain, unless a hold ends at once.
LEMMA StepsSegment ==
  ASSUME StepsInv, PrepSegment
  PROVE  InOrder' /\ HoldRight' /\ CutRight' /\ Covered' /\ RingRight'
<1>1. /\ DataInv /\ InOrder /\ HoldRight /\ CutRight /\ Covered /\ RingRight /\ TypeInv
      /\ PrepTypes /\ ProtocolTypes /\ Positions
  BY DEF StepsInv, DataInv, TypeInv, TypeOK
<1>2. /\ UNCHANGED <<plan, added, done, base, mm, plb, head, tail, st>> /\ pc = "seg"
  BY DEF PrepSegment, isrVars
<1>3. PICK d \in SegmentEnds(plb) :
        LET n == (prep.steps - StepsOf(d)) % U16 IN
        /\ seg' = [seg EXCEPT ![head] = [slot |-> prep.slot, n |-> n, owner |-> plb]]
        /\ IF n = 0 /\ sys.ctl.executeHold
           THEN EndMotion /\ prep' = HoldPartial(prep) /\ pc' = Caller
           ELSE prep' = [prep EXCEPT !.rem = d] /\ pc' = "publish" /\ UNCHANGED sys
  BY DEF PrepSegment
<1>4. /\ plb # NoBlock /\ plb = Out + 1 /\ InMaking /\ plan # <<>>
      /\ Out + 1 \in Blocks /\ Steps[Out + 1] \in Nat /\ Steps[Out + 1] < U16
  BY <1>1, <1>2, PlanShape, NumberPlanned DEF Positions, InMaking
<1>5. /\ mm[Out + 1] \in Nat /\ 0 < mm[Out + 1] /\ mm[Out + 1] <= Steps[Out + 1] * STEP_UNITS
      /\ prep.steps = StepsOf(mm[Out + 1])
      /\ prep.complete \in Nat /\ prep.complete <= mm[Out + 1]
  BY <1>1, <1>4 DEF CutRight, PrepTypes, PrepType
<1>6. d \in Nat /\ prep.complete <= d /\ d <= mm[Out + 1]
      /\ (d = prep.complete \/ d <= mm[Out + 1] - REQ_INCREMENT)
  BY <1>3, <1>4, <1>5 DEF SegmentEnds
<1>7. StepsOf(d) \in Nat /\ prep.steps \in Nat /\ StepsOf(d) <= prep.steps /\ prep.steps <= Steps[Out + 1]
  <2>1. Steps[Out + 1] * STEP_UNITS \in Nat
    BY <1>4, StepsType
  <2>2. prep.steps <= StepsOf(Steps[Out + 1] * STEP_UNITS)
    BY <1>5, <2>1, StepsOfBounds
  <2> QED BY <1>4, <1>5, <1>6, <2>2, StepsOfBounds, StepsOfType
<1>8. (prep.steps - StepsOf(d)) % U16 = prep.steps - StepsOf(d)
  BY <1>4, <1>7, U16Type
<1>9. sys.ctl.executeHold \/ prep.steps - StepsOf(d) > 0
  <2> SUFFICES ASSUME ~sys.ctl.executeHold PROVE StepsOf(d) < prep.steps
    BY <1>7
  <2>1. prep.complete = 0
    BY <1>1, <1>4, <1>5 DEF HoldRight
  <2>2. CASE d = 0
    BY <1>5, <2>2, StepsOfBounds
  <2>3. CASE d <= mm[Out + 1] - REQ_INCREMENT
    BY <1>5, <1>6, <2>3, StepsOfBounds
  <2> QED BY <1>6, <2>1, <2>2, <2>3
<1>10. seg' = [seg EXCEPT ![head] = [slot |-> prep.slot, n |-> prep.steps - StepsOf(d), owner |-> plb]]
  BY <1>3, <1>8
<1>11. CASE prep.steps - StepsOf(d) = 0 /\ sys.ctl.executeHold
  <2>1. EndMotion /\ prep' = HoldPartial(prep) /\ pc' = Caller
    BY <1>3, <1>8, <1>11
  <2>2. /\ prep'.slot = prep.slot /\ prep'.steps = prep.steps /\ prep'.complete = prep.complete
        /\ prep'.flag.recalculate = prep.flag.recalculate
    BY <1>1, <2>1 DEF PrepTypes, PrepType, FlagType, HoldPartial
  <2>3. /\ sys'.ctl.executeHold = sys.ctl.executeHold /\ sys'.state = sys.state
        /\ sys'.holdComplete = sys.holdComplete /\ sys'.restoring = sys.restoring
    BY <1>1, <2>1 DEF EndMotion, ProtocolTypes, SysType, ControlType
  <2>4. (InMaking' <=> InMaking) /\ Out' = Out /\ pc' # "publish"
    BY <1>2, <2>1, <2>2 DEF InMaking, Out, Caller
  <2>5. InOrder' /\ CutRight'
    BY <1>1, <1>2, <2>2, <2>4 DEF InOrder, CutRight
  <2>6. HoldRight'
    BY <1>1, <1>2, <2>2, <2>3 DEF HoldRight
  <2> QED BY <1>1, <1>2, <1>10, <2>2, <2>4, <2>5, <2>6, PlanShape, QueuedNext, RingStable
          DEF Uncut, PrepTypes
<1>12. CASE prep.steps - StepsOf(d) > 0
  <2>1. prep' = [prep EXCEPT !.rem = d] /\ pc' = "publish" /\ UNCHANGED sys
    BY <1>3, <1>7, <1>8, <1>12
  <2>2. /\ prep'.slot = prep.slot /\ prep'.steps = prep.steps /\ prep'.complete = prep.complete
        /\ prep'.flag = prep.flag /\ prep'.rem = d
    BY <1>1, <2>1 DEF PrepTypes, PrepType
  <2>3. (InMaking' <=> InMaking) /\ Out' = Out
    BY <1>2, <2>2 DEF InMaking, Out
  <2>4. seg'[head].n = prep.steps - StepsOf(d)
    BY <1>1, <1>10 DEF PrepTypes
  <2>5. InOrder' /\ CutRight'
    BY <1>1, <1>2, <1>6, <1>12, <2>1, <2>2, <2>3, <2>4 DEF InOrder, CutRight
  <2>6. HoldRight'
    BY <1>1, <1>2, <2>1, <2>2 DEF HoldRight
  <2> QED BY <1>1, <1>2, <1>10, <2>2, <2>3, <2>5, <2>6, PlanShape, QueuedNext, RingStable
          DEF Uncut, PrepTypes
<1> QED BY <1>7, <1>9, <1>11, <1>12

\* The queue after a segment is published.
LEMMA PublishedQueue ==
  ASSUME TypeInv, TypeInv', Publish, UNCHANGED tail
  PROVE  /\ \A i \in Slots : Queued(i)' <=> i = head \/ Queued(i)
         /\ \A i \in Slots : i = head \/ Queued(i) => i # head'
         /\ head \in Slots /\ head' = NextSlot(head)
<1>1. head \in Slots /\ tail \in Slots /\ nhead = NextSlot(head) /\ tail # nhead /\ head' = nhead
  BY DEF TypeInv, TypeOK, PrepTypes, IsrTypes, Positions, Publish
<1>2. \A i \in Slots : Queued(i)' <=> i = head \/ Queued(i)
  BY <1>1, BufferAssumption DEF BufferAssumption, Queued, Slots, NextSlot
<1>3. \A i \in Slots : Queued(i)' => i # head'
  BY <1>1, BufferAssumption DEF BufferAssumption, Queued, Slots, NextSlot
<1> QED BY <1>1, <1>2, <1>3

\* Publishing hands the steps of the segment from st_prep_buffer to the ring.
LEMMA StepsPublish ==
  ASSUME StepsInv, TypeInv', PublishMore \/ PublishLast \/ PublishBlockEnd
  PROVE  InOrder' /\ HoldRight' /\ CutRight' /\ Covered' /\ RingRight'
<1>1. /\ DataInv /\ InOrder /\ HoldRight /\ CutRight /\ Covered /\ RingRight /\ TypeInv
      /\ PrepTypes /\ ProtocolTypes /\ Positions /\ NotParking
  BY DEF StepsInv, DataInv, TypeInv, TypeOK
<1>2. /\ Publish /\ pc = "publish" /\ UNCHANGED <<added, done, base, seg, tail, st>>
      /\ mm' = [mm EXCEPT ![plb] = prep.rem] /\ pc' # "publish"
  BY DEF PublishMore, PublishLast, PublishBlockEnd, Publish, isrVars, Caller
<1>3. /\ plb = Out + 1 /\ plan # <<>> /\ InMaking /\ ~prep.flag.recalculate
      /\ seg[head].slot = prep.slot /\ seg[head].owner = plb
      /\ Out \in Nat /\ Out + 1 <= added /\ Len(plan) \in Nat /\ Len(plan) > 0 /\ base <= Out
      /\ added \in Nat /\ base \in Nat /\ added <= NumBlocks /\ NumBlocks \in Nat
  BY <1>1, <1>2, PlanShape DEF Positions, InMaking, ProtocolTypes
<1>4. /\ Out + 1 \in Blocks /\ Steps[Out + 1] \in Nat /\ Steps[Out + 1] * STEP_UNITS \in Nat
  BY <1>3, NumberPlanned
<1>5. /\ prep.rem \in Nat /\ prep.complete \in Nat /\ mm[Out + 1] \in Nat
      /\ prep.complete <= prep.rem /\ prep.rem <= mm[Out + 1]
      /\ mm[Out + 1] <= Steps[Out + 1] * STEP_UNITS
      /\ prep.steps = StepsOf(mm[Out + 1]) /\ seg[head].n > 0
      /\ seg[head].n = prep.steps - StepsOf(prep.rem) /\ StepsOf(prep.rem) \in Nat
      /\ prep.steps \in Nat
  BY <1>1, <1>2, <1>3, <1>4, StepsOfType DEF CutRight, PrepTypes, PrepType
<1>6. prep.steps <= Steps[Out + 1]
  BY <1>4, <1>5, StepsOfBounds
<1>7. /\ prep'.slot = prep.slot /\ prep'.steps = StepsOf(prep.rem)
      /\ prep'.complete = prep.complete /\ ~prep'.flag.recalculate
  <2>1. prep' = Cut \/ prep' = HoldPartial(Cut)
    BY DEF PublishMore, PublishLast, PublishBlockEnd
  <2>2. /\ Cut \in PrepType /\ Cut.slot = prep.slot /\ Cut.steps = StepsOf(prep.rem)
        /\ Cut.complete = prep.complete /\ Cut.flag = prep.flag
    BY <1>1, <1>5 DEF PrepTypes, PrepType, Cut
  <2>3. /\ HoldPartial(Cut).slot = Cut.slot /\ HoldPartial(Cut).steps = Cut.steps
        /\ HoldPartial(Cut).complete = Cut.complete
        /\ HoldPartial(Cut).flag.recalculate = Cut.flag.recalculate
    BY <2>2 DEF PrepType, FlagType, HoldPartial
  <2> QED BY <1>3, <2>1, <2>2, <2>3
<1>8. \/ UNCHANGED <<plan, plb>> /\ prep.rem > 0
      \/ plan' = Tail(plan) /\ plb' = NoBlock /\ prep.rem = 0
  BY <1>1, <1>3, <1>5 DEF PublishMore, PublishLast, PublishBlockEnd, NotParking
<1>9. HoldRight'
  <2>1. /\ sys'.ctl.executeHold = sys.ctl.executeHold /\ sys'.state = sys.state
        /\ sys'.holdComplete = sys.holdComplete /\ sys'.restoring = sys.restoring
    BY <1>1 DEF PublishMore, PublishLast, PublishBlockEnd, EndMotion, ProtocolTypes, SysType,
                ControlType
  <2> QED BY <1>1, <1>3, <1>7, <2>1, BlocksType, <1>4 DEF HoldRight
<1>10. /\ InOrder' /\ CutRight' /\ (Out' = Out \/ Out' = Out + 1)
       /\ Follows(Out + 1, StepsOf(prep.rem), Out' + 1, Uncut')
       /\ IF InMaking' THEN Uncut' # Steps[Out' + 1] ELSE Out' = Out + 1
  <2>1. CASE UNCHANGED <<plan, plb>> /\ prep.rem > 0
    <3>1. Out' = Out /\ InMaking' /\ Uncut' = StepsOf(prep.rem)
      BY <1>2, <1>3, <1>4, <1>7, <2>1, BlocksType DEF Out, InMaking, Uncut
    <3>2. InOrder'
      BY <1>1, <1>2, <2>1, <3>1 DEF InOrder
    <3>3. StepsOf(prep.rem) > 0
      BY <1>5, <2>1, StepsOfBounds
    <3>4. mm'[Out + 1] = prep.rem
      BY <1>1, <1>2, <1>3, <1>4 DEF PrepTypes
    <3>5. \A i \in 1..Len(plan) : i > 1 => mm'[plan[i]] = Steps[plan[i]] * STEP_UNITS
      <4> SUFFICES ASSUME NEW i \in 1..Len(plan), i > 1
                   PROVE  mm'[plan[i]] = Steps[plan[i]] * STEP_UNITS
        OBVIOUS
      <4>1. plan[i] = Out + i /\ plan[i] # plb
        BY <1>1, <1>3 DEF InOrder
      <4> QED BY <1>1, <1>2, <4>1 DEF CutRight, PrepTypes
    <3>6. CutRight'
      BY <1>2, <1>3, <1>4, <1>5, <1>7, <2>1, <3>1, <3>4, <3>5 DEF CutRight
    <3> QED BY <1>3, <1>5, <1>6, <3>1, <3>2, <3>3, <3>6 DEF Follows
  <2>2. CASE plan' = Tail(plan) /\ plb' = NoBlock /\ prep.rem = 0
    <3>1. Len(plan') = Len(plan) - 1 /\ \A i \in 1..Len(plan') : plan'[i] = plan[i + 1]
      BY <1>1, <1>3, <2>2 DEF ProtocolTypes
    <3>2. Out' = Out + 1 /\ ~InMaking'
      BY <1>2, <1>3, <1>7, <2>2, <3>1 DEF Out, InMaking
    <3>3. Uncut' = Steps[Out' + 1]
      BY <3>2 DEF Uncut
    <3>4. InOrder'
      BY <1>1, <1>2, <1>3, <3>1, <3>2 DEF InOrder
    <3>5. \A i \in 1..Len(plan') : mm'[plan'[i]] = Steps[plan'[i]] * STEP_UNITS
      <4> SUFFICES ASSUME NEW i \in 1..Len(plan')
                   PROVE  mm'[plan'[i]] = Steps[plan'[i]] * STEP_UNITS
        OBVIOUS
      <4>1. i + 1 \in 1..Len(plan) /\ i + 1 > 1 /\ plan'[i] = plan[i + 1]
        BY <1>3, <3>1
      <4>2. plan[i + 1] = Out + (i + 1) /\ plan[i + 1] # plb
        BY <1>1, <1>3, <4>1 DEF InOrder
      <4>3. mm[plan[i + 1]] = Steps[plan[i + 1]] * STEP_UNITS
        BY <1>1, <4>1 DEF CutRight
      <4> QED BY <1>1, <1>2, <4>1, <4>2, <4>3 DEF PrepTypes
    <3>6. CutRight'
      BY <1>2, <2>2, <3>2, <3>5 DEF CutRight
    <3>7. StepsOf(prep.rem) = 0
      BY <2>2, StepsOfBounds
    <3> QED BY <1>3, <3>2, <3>3, <3>4, <3>6, <3>7 DEF Follows
  <2> QED BY <1>8, <2>1, <2>2
<1>11. /\ \A i \in Slots : Queued(i)' <=> i = head \/ Queued(i)
       /\ \A i \in Slots : i = head \/ Queued(i) => i # head'
       /\ head \in Slots /\ head' = NextSlot(head)
  BY <1>1, <1>2, PublishedQueue
<1>12. /\ \A i \in Slots : Queued(i) => i # head /\ (NextSlot(i) = head \/ Queued(NextSlot(i)))
       /\ \A i \in Slots : NextSlot(i) \in Slots
       /\ tail \in Slots /\ (tail = head \/ Queued(tail))
  BY <1>1, QueuedNext, NextSlotRing
<1>13. PICK old \in [Slots -> Nat] :
        Chain(old) /\ MadeBefore /\ MadeBehind /\ Loading(old) /\ MadeAtTail(old)
  BY <1>1 DEF RingRight
<1>14. PICK new \in [Slots -> Nat] :
         new[head] = prep.steps /\ \A i \in Slots : i # head => new[i] = old[i]
  <2>1. [old EXCEPT ![head] = prep.steps] \in [Slots -> Nat]
    BY <1>5, <1>11, <1>13
  <2> QED BY <1>11, <1>13, <2>1
<1>15. \A i \in Slots : i = head \/ Queued(i) =>
        /\ Own(i)' = Own(i) /\ DataSlot(i)' = DataSlot(i)
        /\ LeftAt(new, i)' = LeftAt(old, i)
  <2> SUFFICES ASSUME NEW i \in Slots, i = head \/ Queued(i)
               PROVE  /\ Own(i)' = Own(i) /\ DataSlot(i)' = DataSlot(i)
                      /\ LeftAt(new, i)' = LeftAt(old, i)
    OBVIOUS
  <2>1. i # head'
    BY <1>11
  <2>2. CASE i = head
    BY <1>2, <1>3, <1>14, <2>1, <2>2 DEF Own, DataSlot, LeftAt, Uncut
  <2>3. CASE i # head
    BY <1>2, <1>14, <2>1, <2>3 DEF Own, DataSlot, LeftAt
  <2> QED BY <2>2, <2>3
<1>16. \A i \in Slots : i = head \/ Queued(i) =>
         \A s \in BlkSlots : SlotTurns(old, s, i) => SlotTurns(new, s, i)'
  BY <1>3, <1>11, <1>15 DEF SlotTurns
<1>17. Covered'
  <2> SUFFICES ASSUME NEW b \in (Own(tail)')..(Out')
               PROVE  \E i \in Slots : Queued(i)' /\ seg'[i].owner = b
    BY <1>2 DEF Covered
  <2>1. Own(tail)' = Own(tail)
    BY <1>2, <1>12, <1>15
  <2>2. CASE b = Out + 1
    BY <1>2, <1>3, <1>11, <2>2
  <2>3. CASE b # Out + 1
    <3>1. b \in Own(tail)..Out
      BY <1>3, <1>10, <2>1, <2>3
    <3> QED BY <1>1, <1>2, <1>11, <3>1 DEF Covered
  <2> QED BY <2>2, <2>3
<1>19. seg \in [Slots -> SegmentType] /\ prep.slot \in BlkSlots
  BY <1>1 DEF PrepTypes, PrepType
<1>20. Chain(new)'
  <2> SUFFICES ASSUME NEW i \in Slots, Queued(i)'
               PROVE  /\ base < seg[i].owner /\ seg[i].owner <= Out' + 1
                      /\ seg[i].owner <= added
                      /\ 0 < seg[i].n /\ seg[i].n <= new[i] /\ new[i] <= Steps[seg[i].owner]
                      /\ Follows(seg[i].owner, new[i] - seg[i].n,
                                 Own(NextSlot(i))', LeftAt(new, NextSlot(i))')
                      /\ SlotTurns(new, seg[i].slot, NextSlot(i))'
    BY <1>2 DEF Chain, Follows
  <2>1. CASE i = head
    <3>1. /\ base < seg[i].owner /\ seg[i].owner <= Out' + 1 /\ seg[i].owner <= added
      BY <1>3, <1>10, <2>1
    <3>2. 0 < seg[i].n /\ seg[i].n <= new[i] /\ new[i] <= Steps[seg[i].owner]
      BY <1>3, <1>5, <1>6, <1>14, <2>1
    <3>3. new[i] - seg[i].n = StepsOf(prep.rem)
      BY <1>5, <1>14, <2>1
    <3>4. NextSlot(i) = head' /\ Own(NextSlot(i))' = Out' + 1 /\ LeftAt(new, NextSlot(i))' = Uncut'
      BY <1>11, <2>1 DEF Own, LeftAt
    <3>5. Follows(seg[i].owner, new[i] - seg[i].n, Own(NextSlot(i))', LeftAt(new, NextSlot(i))')
      BY <1>3, <1>10, <2>1, <3>3, <3>4
    <3>6. SlotTurns(new, seg[i].slot, NextSlot(i))'
      BY <1>2, <1>3, <1>7, <1>10, <2>1, <3>4 DEF SlotTurns, DataSlot
    <3> QED BY <3>1, <3>2, <3>5, <3>6
  <2>2. CASE i # head
    <3>1. Queued(i) /\ new[i] = old[i]
      BY <1>11, <1>14, <2>2
    <3>2. /\ base < seg[i].owner /\ seg[i].owner <= Out + 1 /\ seg[i].owner <= added
          /\ 0 < seg[i].n /\ seg[i].n <= old[i] /\ old[i] <= Steps[seg[i].owner]
          /\ Follows(seg[i].owner, old[i] - seg[i].n, Own(NextSlot(i)), LeftAt(old, NextSlot(i)))
          /\ SlotTurns(old, seg[i].slot, NextSlot(i))
      BY <1>13, <3>1 DEF Chain
    <3>3. NextSlot(i) \in Slots /\ (NextSlot(i) = head \/ Queued(NextSlot(i)))
      BY <1>12, <3>1
    <3>4. Own(NextSlot(i))' = Own(NextSlot(i)) /\ LeftAt(new, NextSlot(i))' = LeftAt(old, NextSlot(i))
      BY <1>15, <3>3
    <3>5. seg[i].slot \in BlkSlots /\ seg[i].owner \in Int
      BY <1>19 DEF SegmentType, Blocks, Planned, Park, NoBlock
    <3>6. SlotTurns(new, seg[i].slot, NextSlot(i))'
      BY <1>2, <1>3, <1>11, <1>15, <3>2, <3>3, <3>5 DEF SlotTurns
    <3>7. seg[i].owner <= Out' + 1
      BY <1>3, <1>10, <3>2, <3>5
    <3> QED BY <3>1, <3>2, <3>4, <3>6, <3>7
  <2> QED BY <2>1, <2>2
<1>21. Own(tail)' = Own(tail) /\ LeftAt(new, tail)' = LeftAt(old, tail)
  BY <1>2, <1>12, <1>15 DEF Own, LeftAt
<1>22. MadeBefore' /\ MadeBehind'
  BY <1>2, <1>13, <1>21 DEF MadeBefore, MadeBehind
<1>23. Loading(new)'
  <2>1. st.slot \in BlkSlots
    BY <1>1 DEF TypeInv, TypeOK, IsrTypes, StType
  <2>2. ~st.loaded => SlotTurns(new, st.slot, tail)'
    BY <1>2, <1>3, <1>11, <1>12, <1>13, <1>15, <2>1 DEF Loading, SlotTurns
  <2> QED BY <1>2, <1>13, <2>2 DEF Loading
<1>24. MadeAtTail(new)'
  BY <1>2, <1>13, <1>21 DEF MadeAtTail
<1> QED BY <1>9, <1>10, <1>14, <1>17, <1>20, <1>22, <1>23, <1>24 DEF RingRight

\* A line goes to the end of the planner's queue.
LEMMA StepsBufferLine ==
  ASSUME StepsInv, BufferLine
  PROVE  InOrder' /\ HoldRight' /\ CutRight' /\ Covered' /\ RingRight'
<1>1. /\ DataInv /\ InOrder /\ HoldRight /\ CutRight /\ Covered /\ RingRight /\ TypeInv
      /\ PrepTypes /\ ProtocolTypes
  BY DEF StepsInv, DataInv, TypeInv, TypeOK
<1>2. /\ UNCHANGED <<sys, done, base, seg, head, tail, st, pc>> /\ pc = "top"
      /\ added' = added + 1 /\ plan' = Append(plan, added + 1) /\ added < NumBlocks
      /\ mm' = [mm EXCEPT ![added + 1] = Steps[added + 1] * STEP_UNITS]
      /\ UNCHANGED <<prep, plb>> \/ StUpdate
  BY DEF BufferLine, isrVars
<1>3. /\ added \in Nat /\ base \in Nat /\ Out \in Nat /\ Len(plan) \in Nat /\ Out <= added
      /\ base <= Out /\ NumBlocks \in Nat
      /\ InMaking => plan # <<>> /\ Out + 1 <= added
      /\ plb # NoBlock => InMaking
  BY <1>1, PlanShape DEF InMaking
<1>4. added + 1 \in Planned /\ added + 1 \in Blocks
  BY <1>2, <1>3, NumberPlanned
<1>5. /\ Len(plan') = Len(plan) + 1 /\ plan' # <<>> /\ plan'[Len(plan) + 1] = added + 1
      /\ \A i \in 1..Len(plan) : plan'[i] = plan[i]
  BY <1>1, <1>2, <1>4 DEF ProtocolTypes
<1>6. Out' = Out
  BY <1>2, <1>3, <1>5 DEF Out
<1>7. /\ InMaking' <=> InMaking
      /\ Uncut' = Uncut /\ prep'.slot = prep.slot /\ prep'.steps = prep.steps
      /\ plb' = plb \/ plb' = NoBlock
      /\ plb' # NoBlock => prep'.complete = prep.complete
  BY <1>1, <1>2, <1>6, UpdatedUncut
<1>8. Len(plan) = added - Out
  BY <1>3 DEF Out
<1>9. InOrder'
  <2>1. ASSUME NEW i \in 1..Len(plan')
        PROVE  plan'[i] = Out + i
    <3>1. CASE i = Len(plan) + 1
      BY <1>3, <1>5, <1>8, <3>1
    <3>2. CASE i # Len(plan) + 1
      <4>1. i \in 1..Len(plan)
        BY <1>3, <1>5, <3>2
      <4> QED BY <1>1, <1>5, <4>1 DEF InOrder
    <3> QED BY <3>1, <3>2
  <2> QED BY <1>1, <1>2, <1>6, <2>1 DEF InOrder
<1>10. CutRight'
  <2>1. ASSUME NEW i \in 1..Len(plan'), i > 1 \/ ~InMaking'
        PROVE  mm'[plan'[i]] = Steps[plan'[i]] * STEP_UNITS
    <3>1. CASE i = Len(plan) + 1
      BY <1>1, <1>2, <1>4, <1>5, <3>1 DEF PrepTypes
    <3>2. CASE i # Len(plan) + 1
      <4>1. i \in 1..Len(plan) /\ plan'[i] = plan[i]
        BY <1>3, <1>5, <3>2
      <4>2. plan[i] = Out + i /\ plan[i] # added + 1
        BY <1>1, <1>3, <1>8, <4>1 DEF InOrder
      <4>3. mm[plan[i]] = Steps[plan[i]] * STEP_UNITS
        BY <1>1, <1>7, <2>1, <4>1 DEF CutRight
      <4> QED BY <1>1, <1>2, <4>1, <4>2, <4>3 DEF PrepTypes
    <3> QED BY <3>1, <3>2
  <2>2. InMaking => mm'[Out + 1] = mm[Out + 1]
    <3>1. InMaking => Out + 1 # added + 1
      BY <1>3
    <3> QED BY <1>1, <1>2, <3>1 DEF PrepTypes
  <2> QED BY <1>1, <1>2, <1>3, <1>5, <1>6, <1>7, <2>1, <2>2 DEF CutRight
<1>11. HoldRight'
  BY <1>1, <1>2, <1>7 DEF HoldRight
<1>12. Covered' /\ RingRight'
  BY <1>1, <1>2, <1>3, <1>6, <1>7, RingStable
<1> QED BY <1>9, <1>10, <1>11, <1>12

\* Holds, resumes and cycle stops change the profile of the block in the making at most.
LEMMA StepsHandlers ==
  ASSUME StepsInv, CycleStart \/ DoorResume \/ FeedHold \/ SafetyDoor \/ HandleCycleStop
                   \/ StartRestore
  PROVE  InOrder' /\ HoldRight' /\ CutRight' /\ Covered' /\ RingRight'
<1>1. /\ DataInv /\ InOrder /\ HoldRight /\ CutRight /\ Covered /\ RingRight /\ TypeInv
      /\ PrepTypes /\ ProtocolTypes /\ sys \in SysType
  BY DEF StepsInv, DataInv, TypeInv, TypeOK, ProtocolTypes
<1>2. /\ UNCHANGED <<plan, added, done, base, mm, seg, head, tail, st>> /\ pc' # "publish"
      /\ UNCHANGED <<prep, plb>> \/ StUpdate
  BY DEF CycleStart, DoorResume, FeedHold, SafetyDoor, HandleCycleStop, StartRestore, Start,
         Suspend, isrVars, prepVars
<1>3. Out' = Out
  BY <1>2 DEF Out
<1>4. /\ InMaking' <=> InMaking
      /\ Uncut' = Uncut /\ prep'.slot = prep.slot /\ prep'.steps = prep.steps
      /\ plb' = plb \/ plb' = NoBlock
      /\ plb' # NoBlock => prep'.complete = prep.complete
  BY <1>1, <1>2, <1>3, UpdatedUncut
<1>5. InOrder' /\ CutRight'
  BY <1>1, <1>2, <1>4, CutStable
<1>6. Covered' /\ RingRight'
  BY <1>1, <1>2, <1>3, <1>4, PlanShape, RingStable
<1>7. HoldRight'
  <2>1. CASE CycleStart \/ DoorResume
    <3>1. /\ sys'.ctl = NoControl /\ ~sys'.holdComplete /\ ~sys'.restoring
          /\ UNCHANGED <<prep, plb>> /\ ~sys.ctl.executeHold
      <4>1. Start(sys)
        BY <2>1 DEF CycleStart, DoorResume
      <4>2. /\ sys'.ctl = NoControl /\ ~sys'.holdComplete /\ ~sys'.restoring
            /\ UNCHANGED <<prep, plb>>
        BY <1>1, <4>1 DEF Start, SysType
      <4>3. CASE CycleStart
        BY <1>1, <4>2, <4>3 DEF CycleStart, HoldRight
      <4>4. CASE DoorResume
        BY <1>1, <4>2, <4>4 DEF DoorResume, HoldRight
      <4> QED BY <2>1, <4>3, <4>4
    <3> QED BY <1>1, <3>1 DEF HoldRight, NoControl
  <2>2. CASE FeedHold \/ SafetyDoor
    <3>1. PICK s \in {"Hold", "SafetyDoor"} : Suspend(s)
      BY <2>2 DEF FeedHold, SafetyDoor
    <3>2. sys.state \in {"Cycle", "Idle"} \/ (sys.state = "Hold" /\ s = "SafetyDoor")
      <4>1. CASE FeedHold
        BY <4>1 DEF FeedHold, Suspendable
      <4>2. CASE SafetyDoor /\ s = "SafetyDoor"
        BY <4>2 DEF SafetyDoor, Suspendable
      <4>3. sys'.state = s
        BY <1>1, <3>1 DEF Suspend, SysType
      <4>4. SafetyDoor => s = "SafetyDoor"
        BY <1>1, <4>3 DEF SafetyDoor, Suspend, SysType
      <4> QED BY <2>2, <4>1, <4>2, <4>4
    <3>3. /\ sys'.state = s /\ sys'.restoring = sys.restoring
          /\ sys'.holdComplete = (sys.holdComplete \/ sys.state = "Idle")
          /\ sys.state = "Cycle" => sys'.ctl.executeHold /\ plb' = NoBlock
          /\ sys.state # "Cycle" => sys'.ctl = sys.ctl /\ UNCHANGED <<prep, plb>>
      BY <1>1, <3>1 DEF Suspend, SysType, NoControl, StUpdate
    <3>4. ~sys.restoring /\ (sys.state = "Idle" => ~sys.ctl.executeHold)
      BY <1>1, <3>2 DEF HoldRight
    <3> QED BY <1>1, <3>2, <3>3, <3>4 DEF HoldRight
  <2>3. CASE HandleCycleStop
    <3>1. CASE sys.state \in {"Hold", "SafetyDoor"}
      <4>1. plb' = NoBlock /\ sys' = Stopped
        BY <2>3, <3>1 DEF HandleCycleStop, StUpdate
      <4>2. /\ ~sys'.ctl.executeHold /\ sys'.state = sys.state /\ sys'.restoring = sys.restoring
            /\ sys.holdComplete => sys'.holdComplete
        BY <1>1, <4>1 DEF Stopped, SysType, ControlType
      <4> QED BY <1>1, <3>1, <4>1, <4>2 DEF HoldRight
    <3>2. CASE sys.state \notin {"Hold", "SafetyDoor"}
      <4>1. sys' = [sys EXCEPT !.state = "Idle", !.holdComplete = FALSE] /\ UNCHANGED <<prep, plb>>
        BY <2>3, <3>2 DEF HandleCycleStop
      <4>2. sys'.ctl = sys.ctl /\ sys'.state = "Idle" /\ sys'.restoring = sys.restoring
        BY <1>1, <4>1 DEF SysType
      <4> QED BY <1>1, <3>2, <4>1, <4>2 DEF HoldRight
    <3> QED BY <3>1, <3>2
  <2>4. CASE StartRestore
    BY <1>1, <1>2, <2>4 DEF HoldRight, StartRestore, SysType, prepVars
  <2> QED BY <2>1, <2>2, <2>3, <2>4
<1> QED BY <1>5, <1>6, <1>7

\* An abort empties the ring: the next block is the first of a new program.
LEMMA StepsReset ==
  ASSUME StepsInv, Reset
  PROVE  InOrder' /\ HoldRight' /\ CutRight' /\ Covered' /\ RingRight'
<1>1. /\ DataInv /\ InOrder /\ CutRight /\ Covered /\ RingRight /\ TypeInv
      /\ PrepTypes /\ ProtocolTypes
  BY DEF StepsInv, DataInv, TypeInv, TypeOK
<1>2. /\ sys' = SysReset /\ plan' = <<>> /\ base' = added /\ UNCHANGED <<added, done>>
      /\ plb' = NoBlock /\ prep' = PrepReset /\ head' = 0 /\ tail' = 0 /\ st' = StReset
      /\ pc' = "top"
  BY DEF Reset
<1>3. /\ added \in Nat /\ Out \in Nat /\ Out <= added /\ NumBlocks \in Nat
  BY <1>1, PlanShape
<1>4. Out' = added /\ ~InMaking'
  BY <1>2, <1>3 DEF Out, InMaking, PrepReset, NoFlags
<1>5. InOrder'
  BY <1>2, <1>3, <1>4 DEF InOrder
<1>6. CutRight'
  BY <1>2, <1>4 DEF CutRight
<1>7. HoldRight'
  BY <1>2 DEF HoldRight, SysReset, NoControl
<1>8. /\ \A i \in Slots : ~Queued(i)'
      /\ Own(tail)' = added + 1
  <2>1. \A i \in Slots : ~Queued(i)'
    BY <1>2, SlotsType DEF Queued
  <2>2. Own(tail)' = added + 1
    BY <1>2, <1>4 DEF Own
  <2> QED BY <2>1, <2>2
<1>9. Covered'
  BY <1>3, <1>4, <1>8 DEF Covered
<1>10. PICK old \in [Slots -> Nat] :
        Chain(old) /\ MadeBefore /\ MadeBehind /\ Loading(old) /\ MadeAtTail(old)
  BY <1>1 DEF RingRight
<1>11. PICK new \in [Slots -> Nat] : TRUE
  BY <1>10
<1>12. Chain(new)'
  BY <1>8 DEF Chain
<1>13. Own(tail) \in Int /\ Own(tail) <= added + 1
  <2>1. CASE tail = head
    BY <1>3, <2>1 DEF Own
  <2>2. CASE tail # head
    <3>1. tail \in Slots /\ Queued(tail)
      BY <1>1, <2>2, QueuedNext
    <3>2. seg[tail].owner \in Int /\ seg[tail].owner <= added
      BY <1>1, <1>10, <3>1 DEF Chain, PrepTypes, SegmentType, Blocks, Planned, Park, NoBlock
    <3> QED BY <1>3, <2>2, <3>2 DEF Own
  <2> QED BY <2>1, <2>2
<1>14. MadeBefore'
  BY <1>2, <1>8, <1>3 DEF MadeBefore, Planned
<1>15. MadeBehind'
  <2> SUFFICES ASSUME NEW b \in Planned, added + 1 < b
               PROVE  done[b] = [major |-> 0, minor |-> 0]
    BY <1>2, <1>8 DEF MadeBehind
  <2>1. Own(tail) < b
    BY <1>3, <1>13 DEF Planned
  <2> QED BY <1>10, <2>1 DEF MadeBehind
<1>16. Loading(new)'
  BY <1>2, <1>4 DEF Loading, StReset, SlotTurns, PrepReset
<1>17. added + 1 \in Planned => done[added + 1].major = 0 /\ done[added + 1].minor = 0
  <2> SUFFICES ASSUME added + 1 \in Planned
               PROVE  done[added + 1].major = 0 /\ done[added + 1].minor = 0
    OBVIOUS
  <2>1. CASE Own(tail) < added + 1
    BY <1>10, <2>1 DEF MadeBehind
  <2>2. CASE Own(tail) = added + 1
    <3>1. tail = head /\ Out = added
      <4>1. tail # head => Own(tail) <= added
        <5> SUFFICES ASSUME tail # head PROVE seg[tail].owner <= added
          BY DEF Own
        <5>1. tail \in Slots /\ Queued(tail)
          BY <1>1, QueuedNext
        <5> QED BY <1>10, <5>1 DEF Chain
      <4> QED BY <1>3, <1>13, <2>2, <4>1 DEF Own
    <3>2. ~InMaking
      BY <1>1, <1>3, <3>1, PlanShape DEF Out
    <3>3. LeftAt(old, tail) = Steps[added + 1] /\ ~st.loaded
      BY <1>1, <3>1, <3>2 DEF LeftAt, Uncut, TypeInv, Positions
    <3>4. Steps[added + 1] \in Nat
      BY <1>3, NumberPlanned DEF Planned
    <3> QED BY <1>10, <2>2, <3>3, <3>4 DEF MadeAtTail
  <2> QED BY <1>3, <1>13, <2>1, <2>2
<1>18. MadeAtTail(new)'
  <2>1. LeftAt(new, tail)' = Steps[added + 1]
    BY <1>2, <1>4 DEF LeftAt, Uncut
  <2>2. ~st'.loaded
    BY <1>2 DEF StReset
  <2>3. added + 1 \in Planned => Steps[added + 1] \in Nat
    BY <1>3, NumberPlanned DEF Planned
  <2> QED BY <1>2, <1>8, <1>17, <2>1, <2>2, <2>3 DEF MadeAtTail
<1> QED BY <1>5, <1>6, <1>7, <1>9, <1>11, <1>12, <1>14, <1>15, <1>16, <1>18 DEF RingRight

\* The Bresenham counter after k steps of the longest axis, with m of the minor one, is on
\* the line of slope M / S; the step event that follows keeps it there.
LEMMA SlopeNext ==
  ASSUME NEW S \in Nat, NEW M \in Nat, NEW k \in Nat, NEW m \in Nat, NEW c \in Nat,
         M <= S, c = S + 2 * (M * k) - 2 * (S * m), 0 < c, c <= 2 * S
  PROVE  IF c + 2 * M > 2 * S
         THEN /\ c + 2 * M - 2 * S = S + 2 * (M * (k + 1)) - 2 * (S * (m + 1))
              /\ 0 < c + 2 * M - 2 * S /\ c + 2 * M - 2 * S <= 2 * S
         ELSE c + 2 * M = S + 2 * (M * (k + 1)) - 2 * (S * m)
<1>1. M * (k + 1) = M * k + M /\ S * (m + 1) = S * m + S
  OBVIOUS
<1>2. M * k \in Nat /\ S * m \in Nat
  BY ProductType
<1> DEFINE x == M * k
           y == S * m
<1>3. x \in Nat /\ y \in Nat /\ c = S + 2 * x - 2 * y
  BY <1>2
<1>4. M * (k + 1) = x + M /\ S * (m + 1) = y + S
  BY <1>1
<1> HIDE DEF x, y
<1>5. IF c + 2 * M > 2 * S
      THEN /\ c + 2 * M - 2 * S = S + 2 * (x + M) - 2 * (y + S)
           /\ 0 < c + 2 * M - 2 * S /\ c + 2 * M - 2 * S <= 2 * S
      ELSE c + 2 * M = S + 2 * (x + M) - 2 * y
  BY <1>3
<1> QED BY <1>4, <1>5 DEF y

\* At the end of the block the counter can only stand in its range if the minor axis has
\* made all of its steps.
LEMMA SlopeEnd ==
  ASSUME NEW S \in Nat, NEW M \in Nat, NEW m \in Nat, 0 < S,
         0 < S + 2 * (M * S) - 2 * (S * m), S + 2 * (M * S) - 2 * (S * m) <= 2 * S
  PROVE  m = M
<1>1. M * S = S * M
  OBVIOUS
<1>2. \A a, b \in Nat : a < b => S * a + S <= S * b
  <2> SUFFICES ASSUME NEW a \in Nat, NEW b \in Nat, a < b PROVE S * a + S <= S * b
    OBVIOUS
  <2>1. PICK d \in Nat : b = a + 1 + d
    <3>1. b - a - 1 \in Nat /\ b = a + 1 + (b - a - 1)
      OBVIOUS
    <3> QED BY <3>1
  <2>2. S * b = S * a + S + S * d
    BY <2>1
  <2>3. S * d \in Nat /\ S * a \in Nat
    BY ProductType
  <2> QED BY <2>2, <2>3
<1>3. S * M \in Nat /\ S * m \in Nat
  BY ProductType
<1>4. ~(m < M)
  <2> SUFFICES ASSUME m < M PROVE FALSE
    OBVIOUS
  <2>1. S * m + S <= S * M
    BY <1>2
  <2> QED BY <1>1, <1>3, <2>1
<1>5. ~(M < m)
  <2> SUFFICES ASSUME M < m PROVE FALSE
    OBVIOUS
  <2>1. S * M + S <= S * m
    BY <1>2
  <2> QED BY <1>1, <1>3, <2>1
<1> QED BY <1>4, <1>5

\* The segment that leaves the ring is that of the tail.
LEMMA ConsumedQueue ==
  ASSUME TypeInv, tail # head, tail' = NextSlot(tail), UNCHANGED head
  PROVE  \A i \in Slots : Queued(i)' <=> Queued(i) /\ i # tail
<1>1. tail \in Slots /\ head \in Slots
  BY DEF TypeInv, TypeOK, PrepTypes, IsrTypes
<1> QED BY <1>1, BufferAssumption DEF BufferAssumption, Queued, Slots, NextSlot

\* What the interrupt has before it at a step event: a segment of a live block whose data
\* is in its slot, k steps of the block behind it, and the counter on the block's line.
LEMMA IsrFacts ==
  ASSUME StepsInv, IsrStep, NEW before \in [Slots -> Nat],
         Chain(before), Loading(before), MadeAtTail(before)
  PROVE  LET o == seg[tail].owner IN
         /\ tail # head /\ tail \in Slots /\ Queued(tail)
         /\ o \in Planned /\ base < o /\ o <= Out + 1 /\ o <= added /\ Own(tail) = o
         /\ Loaded.slot = seg[tail].slot /\ sblk[Loaded.slot] = o
         /\ Loaded.count \in Nat /\ 0 < Loaded.count /\ Loaded.count <= seg[tail].n
         /\ seg[tail].n \in Nat /\ seg[tail].n < U16
         /\ seg[tail].n <= before[tail] /\ before[tail] <= Steps[o]
         /\ done[o].major \in Nat /\ done[o].minor \in Nat
         /\ done[o].major = Steps[o] - before[tail] + (seg[tail].n - Loaded.count)
         /\ Loaded.counter = Steps[o] + 2 * (Minor[o] * done[o].major)
                                      - 2 * (Steps[o] * done[o].minor)
         /\ 0 < Loaded.counter /\ Loaded.counter <= 2 * Steps[o]
<1> DEFINE o == seg[tail].owner
           n == seg[tail].n
<1>1. /\ DataInv /\ TypeInv /\ InOrder /\ PrepTypes /\ ProtocolTypes /\ IsrTypes /\ Positions
      /\ BlockDataIntact
  BY DEF StepsInv, DataInv, TypeInv, TypeOK
<1>2. tail # head /\ tail \in Slots /\ Queued(tail)
  BY <1>1, QueuedNext DEF IsrStep, Positions
<1>3. /\ base < o /\ o <= Out + 1 /\ o <= added
      /\ 0 < n /\ n <= before[tail] /\ before[tail] <= Steps[o]
  BY <1>2 DEF Chain
<1>4. n \in Nat /\ n < U16 /\ o \in Int /\ seg[tail].slot \in BlkSlots
  BY <1>1, <1>2, U16Type DEF PrepTypes, SegmentType, Blocks, Planned, Park, NoBlock
<1>5. o \in Planned /\ o \in Blocks /\ Steps[o] \in Nat /\ Steps[o] > 0 /\ Minor[o] \in Nat
  <2>1. 0 < o /\ o <= NumBlocks
    BY <1>1, <1>3, <1>4, PlanShape
  <2> QED BY <1>4, <2>1, NumberPlanned
<1>6. done[o].major \in Nat /\ done[o].minor \in Nat /\ Own(tail) = o
  BY <1>1, <1>2, <1>5 DEF ProtocolTypes, Own
<1>7. LeftAt(before, tail) = before[tail] /\ before[tail] \in Nat
  BY <1>2 DEF LeftAt
<1>8. /\ done[o].major = Steps[o] - before[tail] + IF st.loaded THEN n - st.count ELSE 0
      /\ done[o].major = 0 => done[o].minor = 0
      /\ done[o].major > 0 =>
           /\ st.counter = Steps[o] + 2 * (Minor[o] * done[o].major)
                                    - 2 * (Steps[o] * done[o].minor)
           /\ 0 < st.counter /\ st.counter <= 2 * Steps[o]
  BY <1>5, <1>6, <1>7 DEF MadeAtTail
<1>9. sblk[seg[tail].slot] = o
  BY <1>1, <1>2 DEF BlockDataIntact
<1>10. CASE st.loaded
  <2>1. Loaded = st /\ st.slot = seg[tail].slot /\ 0 < st.count /\ st.count < n
    BY <1>10 DEF Loaded, Loading
  <2>2. st.count \in Nat
    BY <1>1 DEF IsrTypes, StType
  <2>3. done[o].major > 0
    BY <1>3, <1>4, <1>5, <1>7, <1>8, <1>10, <2>1, <2>2
  <2> QED BY <1>2, <1>3, <1>4, <1>5, <1>6, <1>8, <1>9, <1>10, <2>1, <2>2, <2>3
<1>11. CASE ~st.loaded
  <2>1. /\ Loaded.slot = seg[tail].slot /\ Loaded.count = n
        /\ Loaded.counter = IF st.slot = seg[tail].slot THEN st.counter ELSE Steps[o]
    BY <1>9, <1>11 DEF Loaded
  <2>2. (seg[tail].slot = st.slot) <=> (before[tail] # Steps[o])
    BY <1>2, <1>6, <1>7, <1>11 DEF Loading, SlotTurns, DataSlot
  <2>3. done[o].major = Steps[o] - before[tail]
    BY <1>5, <1>7, <1>8, <1>11
  <2>4. /\ Loaded.counter = Steps[o] + 2 * (Minor[o] * done[o].major)
                                     - 2 * (Steps[o] * done[o].minor)
        /\ 0 < Loaded.counter /\ Loaded.counter <= 2 * Steps[o]
    <3>1. CASE st.slot = seg[tail].slot
      <4>1. done[o].major > 0
        BY <1>3, <1>5, <1>7, <2>2, <2>3, <3>1
      <4> QED BY <1>8, <2>1, <3>1, <4>1
    <3>2. CASE st.slot # seg[tail].slot
      <4>1. done[o].major = 0 /\ done[o].minor = 0 /\ Loaded.counter = Steps[o]
        BY <1>5, <1>8, <2>1, <2>2, <2>3, <3>2
      <4>2. Minor[o] * 0 = 0 /\ Steps[o] * 0 = 0
        BY <1>5
      <4> QED BY <1>5, <4>1, <4>2
    <3> QED BY <3>1, <3>2
  <2> QED BY <1>2, <1>3, <1>4, <1>5, <1>6, <1>7, <1>9, <2>1, <2>3, <2>4
<1> QED BY <1>10, <1>11

\* What a step event does: one more step of the block, and the counter on its line again.
LEMMA IsrEffect ==
  ASSUME StepsInv, IsrStep, NEW before \in [Slots -> Nat],
         Chain(before), Loading(before), MadeAtTail(before)
  PROVE  LET o == seg[tail].owner IN
         /\ UNCHANGED <<sys, plan, added, base, mm, plb, prep, sblk, seg, head, pc>>
         /\ \A b \in Planned : b # o => done'[b] = done[b]
         /\ done'[o].major = done[o].major + 1 /\ done'[o].minor \in Nat
         /\ done'[o] = [major |-> done'[o].major, minor |-> done'[o].minor]
         /\ st'.slot = seg[tail].slot
         /\ st'.counter = Steps[o] + 2 * (Minor[o] * done'[o].major)
                                   - 2 * (Steps[o] * done'[o].minor)
         /\ 0 < st'.counter /\ st'.counter <= 2 * Steps[o]
         /\ IF Loaded.count = 1 THEN tail' = NextSlot(tail) /\ ~st'.loaded
            ELSE tail' = tail /\ st'.loaded /\ st'.count = Loaded.count - 1
<1> DEFINE o     == seg[tail].owner
           data  == sblk[Loaded.slot]
           sum   == Loaded.counter + 2 * Minor[data]
           steps == sum > 2 * Steps[data]
           count == (Loaded.count - 1) % U16
           now   == IF steps THEN sum - 2 * Steps[data] ELSE sum
<1>1. TypeInv /\ ProtocolTypes /\ IsrTypes
  BY BufferAssumption DEF StepsInv, DataInv, TypeInv, TypeOK, BufferAssumption
<1>2. /\ o \in Planned /\ data = o /\ Loaded.slot = seg[tail].slot
      /\ Loaded.count \in Nat /\ 0 < Loaded.count /\ Loaded.count < U16
      /\ done[o].major \in Nat /\ done[o].minor \in Nat
      /\ Loaded.counter = Steps[o] + 2 * (Minor[o] * done[o].major)
                                   - 2 * (Steps[o] * done[o].minor)
      /\ 0 < Loaded.counter /\ Loaded.counter <= 2 * Steps[o]
  BY IsrFacts, U16Type
<1>3. /\ o \in Blocks /\ Steps[o] \in Nat /\ Minor[o] \in Nat /\ Minor[o] <= Steps[o]
  <2>1. o \in Int /\ 0 < o /\ o <= NumBlocks
    BY <1>2, BufferAssumption DEF BufferAssumption, Planned
  <2> QED BY <2>1, NumberPlanned
<1>4. Loaded.counter \in Nat
  <2>1. Minor[o] * done[o].major \in Nat /\ Steps[o] * done[o].minor \in Nat
    BY <1>2, <1>3, ProductType
  <2> QED BY <1>2, <1>3, <2>1
<1>5. /\ st' = [Loaded EXCEPT !.count = count, !.loaded = (count # 0), !.counter = now]
      /\ tail' = IF count = 0 THEN NextSlot(tail) ELSE tail
      /\ done' = [done EXCEPT ![o] =
                     [major |-> @.major + 1, minor |-> @.minor + IF steps THEN 1 ELSE 0]]
      /\ UNCHANGED <<sys, plan, added, base, mm, plb, prep, sblk, seg, head, pc>>
  BY DEF IsrStep, prepVars
<1>6. count = Loaded.count - 1
  BY <1>2, U16Type
<1>7. Loaded = [loaded |-> Loaded.loaded, slot |-> Loaded.slot, count |-> Loaded.count,
                counter |-> Loaded.counter]
  BY <1>1 DEF Loaded, IsrTypes, StType
<1>8. st'.slot = Loaded.slot /\ st'.count = count /\ st'.loaded = (count # 0) /\ st'.counter = now
  <2> HIDE DEF count, now
  <2> QED BY <1>5, <1>7
<1>9. /\ \A b \in Planned : b # o => done'[b] = done[b]
      /\ done'[o] = [major |-> done[o].major + 1,
                     minor |-> done[o].minor + IF steps THEN 1 ELSE 0]
  <2> HIDE DEF steps, o
  <2>1. done \in [Blocks -> [major: Nat, minor: Nat]]
    BY <1>1 DEF ProtocolTypes
  <2> QED BY <1>3, <1>5, <2>1 DEF Blocks
<1>10. /\ now = Steps[o] + 2 * (Minor[o] * done'[o].major) - 2 * (Steps[o] * done'[o].minor)
       /\ 0 < now /\ now <= 2 * Steps[o]
  <2>1. done'[o].major = done[o].major + 1 /\ done'[o].minor = done[o].minor + IF steps THEN 1 ELSE 0
    BY <1>9
  <2>2. sum = Loaded.counter + 2 * Minor[o] /\ (steps <=> sum > 2 * Steps[o])
        /\ now = IF steps THEN sum - 2 * Steps[o] ELSE sum
    BY <1>2
  <2>3. IF sum > 2 * Steps[o]
        THEN /\ sum - 2 * Steps[o] = Steps[o] + 2 * (Minor[o] * (done[o].major + 1))
                                              - 2 * (Steps[o] * (done[o].minor + 1))
             /\ 0 < sum - 2 * Steps[o] /\ sum - 2 * Steps[o] <= 2 * Steps[o]
        ELSE sum = Steps[o] + 2 * (Minor[o] * (done[o].major + 1)) - 2 * (Steps[o] * done[o].minor)
    <3> DEFINE S == Steps[o]
               M == Minor[o]
               k == done[o].major
               m == done[o].minor
               c == Loaded.counter
    <3>1. /\ S \in Nat /\ M \in Nat /\ k \in Nat /\ m \in Nat /\ c \in Nat /\ M <= S
          /\ c = S + 2 * (M * k) - 2 * (S * m) /\ 0 < c /\ c <= 2 * S /\ sum = c + 2 * M
      BY <1>2, <1>3, <1>4, <2>2
    <3> HIDE DEF S, M, k, m, c, sum
    <3>2. IF c + 2 * M > 2 * S
          THEN /\ c + 2 * M - 2 * S = S + 2 * (M * (k + 1)) - 2 * (S * (m + 1))
               /\ 0 < c + 2 * M - 2 * S /\ c + 2 * M - 2 * S <= 2 * S
          ELSE c + 2 * M = S + 2 * (M * (k + 1)) - 2 * (S * m)
      BY <3>1, SlopeNext
    <3>3. IF sum > 2 * S
          THEN /\ sum - 2 * S = S + 2 * (M * (k + 1)) - 2 * (S * (m + 1))
               /\ 0 < sum - 2 * S /\ sum - 2 * S <= 2 * S
          ELSE sum = S + 2 * (M * (k + 1)) - 2 * (S * m)
      BY <3>1, <3>2
    <3> QED BY <3>3 DEF S, M, k, m
  <2>4. sum \in Nat /\ 0 < sum
    BY <1>2, <1>3, <1>4
  <2>5. done[o].minor + 0 = done[o].minor
    BY <1>2
  <2> HIDE DEF o, sum, steps, now, data
  <2>6. CASE steps
    BY <2>1, <2>2, <2>3, <2>6
  <2>7. CASE ~steps
    BY <1>3, <2>1, <2>2, <2>3, <2>4, <2>5, <2>7
  <2> QED BY <2>6, <2>7
<1>11. done'[o].minor \in Nat
  BY <1>2, <1>9
<1> HIDE DEF steps, now, data, sum, count
<1>12. (count = 0) <=> (Loaded.count = 1)
  BY <1>2, <1>6
<1>13. IF Loaded.count = 1 THEN tail' = NextSlot(tail) /\ ~st'.loaded
       ELSE tail' = tail /\ st'.loaded /\ st'.count = Loaded.count - 1
  BY <1>5, <1>6, <1>8, <1>12
<1>14. st'.slot = seg[tail].slot
  BY <1>2, <1>8
<1>15. /\ st'.counter = Steps[o] + 2 * (Minor[o] * done'[o].major)
                                  - 2 * (Steps[o] * done'[o].minor)
       /\ 0 < st'.counter /\ st'.counter <= 2 * Steps[o]
  BY <1>8, <1>10
<1>16. /\ done'[o].major = done[o].major + 1
       /\ done'[o] = [major |-> done'[o].major, minor |-> done'[o].minor]
  BY <1>9
<1> HIDE DEF o
<1> QED BY <1>5, <1>9, <1>11, <1>13, <1>14, <1>15, <1>16 DEF o

\* A step event keeps the ring right: in the middle of a segment it is one step of the
\* tail's block, at its end the next segment begins where this one ends.
LEMMA StepsIsr ==
  ASSUME StepsInv, IsrStep
  PROVE  InOrder' /\ HoldRight' /\ CutRight' /\ Covered' /\ RingRight'
<1> DEFINE o == seg[tail].owner
           n == seg[tail].n
<1>1. /\ DataInv /\ TypeInv /\ InOrder /\ HoldRight /\ CutRight /\ Covered /\ RingRight
      /\ seg \in [Slots -> SegmentType]
  BY DEF StepsInv, DataInv, TypeInv, TypeOK, PrepTypes
<1>2. PICK before \in [Slots -> Nat] :
        Chain(before) /\ MadeBefore /\ MadeBehind /\ Loading(before) /\ MadeAtTail(before)
  BY <1>1 DEF RingRight
<1>3. /\ tail # head /\ tail \in Slots /\ Queued(tail)
      /\ o \in Planned /\ base < o /\ o <= Out + 1 /\ o <= added /\ Own(tail) = o
      /\ Loaded.count \in Nat /\ 0 < Loaded.count /\ Loaded.count <= n
      /\ n \in Nat /\ n <= before[tail] /\ before[tail] <= Steps[o]
      /\ done[o].major \in Nat
      /\ done[o].major = Steps[o] - before[tail] + (n - Loaded.count)
  BY <1>1, <1>2, IsrFacts
<1>4. /\ UNCHANGED <<sys, plan, added, base, mm, plb, prep, sblk, seg, head, pc>>
      /\ \A b \in Planned : b # o => done'[b] = done[b]
      /\ done'[o].major = done[o].major + 1 /\ done'[o].minor \in Nat
      /\ done'[o] = [major |-> done'[o].major, minor |-> done'[o].minor]
      /\ st'.slot = seg[tail].slot
      /\ st'.counter = Steps[o] + 2 * (Minor[o] * done'[o].major)
                                - 2 * (Steps[o] * done'[o].minor)
      /\ 0 < st'.counter /\ st'.counter <= 2 * Steps[o]
      /\ IF Loaded.count = 1 THEN tail' = NextSlot(tail) /\ ~st'.loaded
         ELSE tail' = tail /\ st'.loaded /\ st'.count = Loaded.count - 1
  BY <1>2, IsrEffect
<1>5. /\ Steps[o] \in Nat /\ Steps[o] > 0 /\ Minor[o] \in Nat /\ before[tail] \in Nat
      /\ o \in Int
  <2>1. o \in Int /\ 0 < o /\ o <= NumBlocks
    BY <1>3, BufferAssumption DEF BufferAssumption, Planned
  <2> QED BY <1>2, <1>3, <2>1, NumberPlanned
<1>6. InMaking' <=> InMaking
  BY <1>4 DEF InMaking
<1>7. InOrder' /\ CutRight' /\ HoldRight' /\ Out' = Out
  <2>1. Out' = Out
    BY <1>4 DEF Out
  <2> QED BY <1>1, <1>4, <1>6, <2>1 DEF InOrder, CutRight, HoldRight
<1>8. /\ Uncut' = Uncut
      /\ \A i \in Slots : /\ Own(i)' = Own(i) /\ DataSlot(i)' = DataSlot(i)
                          /\ LeftAt(before, i)' = LeftAt(before, i)
  BY <1>4, <1>6, <1>7 DEF Uncut, Own, DataSlot, LeftAt
<1>9. \A i \in Slots : NextSlot(i) \in Slots
  BY NextSlotRing
<1>10. /\ \A i \in Slots : Queued(i) => i # head /\ (NextSlot(i) = head \/ Queued(NextSlot(i)))
       /\ \A i \in Slots : Queued(i)' => Queued(i)
       /\ tail' \in Slots
  <2>1. \A i \in Slots : Queued(i) => i # head /\ (NextSlot(i) = head \/ Queued(NextSlot(i)))
    BY <1>1, QueuedNext
  <2>2. CASE tail' = tail
    BY <1>3, <1>4, <2>1, <2>2 DEF Queued
  <2>3. CASE tail' = NextSlot(tail)
    BY <1>1, <1>3, <1>4, <1>9, <2>1, <2>3, ConsumedQueue
  <2> QED BY <1>4, <2>1, <2>2, <2>3
<1>11. \A s \in BlkSlots : \A i \in Slots : SlotTurns(before, s, i) => SlotTurns(before, s, i)'
  BY <1>4, <1>6, <1>8 DEF SlotTurns
<1>12. Chain(before)'
  <2> SUFFICES ASSUME NEW i \in Slots, Queued(i)
               PROVE  /\ base < seg[i].owner /\ seg[i].owner <= Out + 1
                      /\ seg[i].owner <= added
                      /\ 0 < seg[i].n /\ seg[i].n <= before[i]
                      /\ before[i] <= Steps[seg[i].owner]
                      /\ Follows(seg[i].owner, before[i] - seg[i].n,
                                 Own(NextSlot(i)), LeftAt(before, NextSlot(i)))'
                      /\ SlotTurns(before, seg[i].slot, NextSlot(i))'
    BY <1>4, <1>7, <1>10 DEF Chain
  <2>1. seg[i].slot \in BlkSlots /\ NextSlot(i) \in Slots
    BY <1>1, <1>9 DEF SegmentType
  <2>2. SlotTurns(before, seg[i].slot, NextSlot(i))'
    <3>1. SlotTurns(before, seg[i].slot, NextSlot(i))
      BY <1>2 DEF Chain
    <3> QED BY <1>4, <1>6, <1>8, <2>1, <3>1 DEF SlotTurns
  <2>3. Follows(seg[i].owner, before[i] - seg[i].n,
                Own(NextSlot(i)), LeftAt(before, NextSlot(i)))'
    <3>1. Follows(seg[i].owner, before[i] - seg[i].n,
                  Own(NextSlot(i)), LeftAt(before, NextSlot(i)))
      BY <1>2 DEF Chain
    <3> QED BY <1>4, <1>8, <2>1, <3>1 DEF Follows
  <2> QED BY <1>2, <2>2, <2>3 DEF Chain
<1>13. CASE Loaded.count # 1
  <2>1. tail' = tail /\ st'.loaded /\ st'.count = Loaded.count - 1
    BY <1>4, <1>13
  <2>2. Own(tail)' = o /\ LeftAt(before, tail)' = before[tail] /\ \A i \in Slots : Queued(i)' <=> Queued(i)
    BY <1>3, <1>4, <1>8, <2>1 DEF LeftAt, Own, Queued
  <2>3. Covered'
    BY <1>1, <1>3, <1>4, <1>7, <2>2 DEF Covered
  <2>4. MadeBefore' /\ MadeBehind'
    <3>1. \A b \in Planned : b < o \/ o < b => b # o
      BY <1>5 DEF Planned
    <3> QED BY <1>2, <1>3, <1>4, <2>2, <3>1 DEF MadeBefore, MadeBehind
  <2>5. Loading(before)'
    BY <1>3, <1>4, <1>13, <2>1 DEF Loading
  <2>6. MadeAtTail(before)'
    <3>1. done'[o].major = Steps[o] - before[tail] + (n - st'.count) /\ done'[o].major > 0
      BY <1>3, <1>4, <1>5, <2>1
    <3> QED BY <1>4, <2>1, <2>2, <3>1 DEF MadeAtTail
  <2> QED BY <1>2, <1>7, <1>12, <2>3, <2>4, <2>5, <2>6 DEF RingRight
<1>14. CASE Loaded.count = 1
  <2> DEFINE j == NextSlot(tail)
  <2>1. /\ tail' = j /\ ~st'.loaded /\ j \in Slots /\ (j = head \/ Queued(j))
        /\ \A i \in Slots : Queued(i)' <=> Queued(i) /\ i # tail
        /\ Own(tail)' = Own(j) /\ LeftAt(before, tail)' = LeftAt(before, j)
    BY <1>1, <1>3, <1>4, <1>8, <1>9, <1>10, <1>14, ConsumedQueue DEF Own, LeftAt
  <2>2. /\ Follows(o, before[tail] - n, Own(j), LeftAt(before, j))
        /\ SlotTurns(before, seg[tail].slot, j)
    BY <1>2, <1>3 DEF Chain
  <2>3. done'[o].major = Steps[o] - (before[tail] - n)
    BY <1>3, <1>4, <1>5, <1>14
  <2>4. Loading(before)'
    <3>1. seg[tail].slot \in BlkSlots
      BY <1>1, <1>3 DEF SegmentType
    <3> QED BY <1>4, <1>6, <1>8, <2>1, <2>2, <3>1 DEF Loading, SlotTurns
  <2>5. Own(j) \in Int /\ (Own(j) = o \/ Own(j) = o + 1)
    BY <1>3, <1>5, <2>2 DEF Follows
  <2>6. Covered'
    <3> SUFFICES ASSUME NEW b \in Own(j)..Out
                 PROVE  \E i \in Slots : Queued(i) /\ i # tail /\ seg[i].owner = b
      BY <1>4, <1>7, <2>1 DEF Covered
    <3>1. CASE b = o
      <4>1. Own(j) = o
        BY <1>5, <2>5, <3>1
      <4>2. j # head
        <5> SUFFICES ASSUME j = head PROVE FALSE
          OBVIOUS
        <5>1. Own(j) = Out + 1
          BY DEF Own
        <5> QED BY <3>1, <4>1, <5>1, <1>1, PlanShape
      <4>3. Queued(j) /\ seg[j].owner = o /\ j # tail
        BY <1>3, <2>1, <4>1, <4>2, NextSlotRing DEF Own
      <4> QED BY <2>1, <3>1, <4>3
    <3>2. CASE b # o
      <4>1. b \in Own(tail)..Out
        BY <1>3, <1>5, <2>5, <3>2
      <4> QED BY <1>1, <3>2, <4>1 DEF Covered
    <3> QED BY <3>1, <3>2
  <2>7. CASE before[tail] - n > 0
    <3>1. Own(j) = o /\ LeftAt(before, j) = before[tail] - n
      BY <2>2, <2>7 DEF Follows
    <3>2. MadeBefore' /\ MadeBehind'
      <4>1. \A b \in Planned : b < o \/ o < b => b # o
        BY <1>5 DEF Planned
      <4> QED BY <1>2, <1>3, <1>4, <2>1, <3>1, <4>1 DEF MadeBefore, MadeBehind
    <3>3. MadeAtTail(before)'
      <4>1. done'[o].major = Steps[o] - (before[tail] - n) + 0 /\ done'[o].major > 0
        BY <1>3, <1>4, <1>5, <2>3
      <4> QED BY <1>4, <2>1, <3>1, <4>1 DEF MadeAtTail
    <3> QED BY <1>2, <1>7, <1>12, <2>4, <2>6, <3>2, <3>3 DEF RingRight
  <2>8. CASE before[tail] - n = 0
    <3>1. Own(j) = o + 1 /\ (o + 1 \in Planned => LeftAt(before, j) = Steps[o + 1])
      BY <2>2, <2>8 DEF Follows
    <3>2. done'[o] = [major |-> Steps[o], minor |-> Minor[o]]
      <4>1. done'[o].major = Steps[o]
        BY <1>5, <2>3, <2>8
      <4>2. done'[o].minor = Minor[o]
        <5> DEFINE S == Steps[o]
                   M == Minor[o]
                   m == done'[o].minor
        <5>1. /\ S \in Nat /\ M \in Nat /\ m \in Nat /\ 0 < S
              /\ 0 < S + 2 * (M * S) - 2 * (S * m) /\ S + 2 * (M * S) - 2 * (S * m) <= 2 * S
          BY <1>4, <1>5, <4>1
        <5> HIDE DEF S, M, m
        <5>2. m = M
          BY <5>1, SlopeEnd
        <5> QED BY <5>2 DEF m, M
      <4> QED BY <1>4, <4>1, <4>2
    <3>3. MadeBefore'
      <4> SUFFICES ASSUME NEW b \in Planned, base < b, b < o + 1
                   PROVE  done'[b] = [major |-> Steps[b], minor |-> Minor[b]]
        BY <1>4, <2>1, <3>1 DEF MadeBefore
      <4>1. b = o \/ b < o
        BY <1>5 DEF Planned
      <4>2. CASE b = o
        BY <3>2, <4>2
      <4>3. CASE b < o
        <5>1. b # o
          BY <1>5, <4>3
        <5> QED BY <1>2, <1>3, <1>4, <4>3, <5>1 DEF MadeBefore
      <4> QED BY <4>1, <4>2, <4>3
    <3>4. \A b \in Planned : o < b => done'[b] = [major |-> 0, minor |-> 0]
      <4>1. \A b \in Planned : o < b => b # o
        BY <1>5 DEF Planned
      <4> QED BY <1>2, <1>3, <1>4, <4>1 DEF MadeBehind
    <3>5. MadeBehind'
      <4>1. \A b \in Planned : o + 1 < b => o < b
        BY <1>5 DEF Planned
      <4> QED BY <1>4, <2>1, <3>1, <3>4, <4>1 DEF MadeBehind
    <3>6. MadeAtTail(before)'
      <4> SUFFICES ASSUME o + 1 \in Planned
                   PROVE  /\ done'[o + 1].major = Steps[o + 1] - Steps[o + 1] + 0
                          /\ done'[o + 1].minor = 0 /\ done'[o + 1].major = 0
        BY <1>4, <2>1, <3>1 DEF MadeAtTail
      <4>1. done'[o + 1] = [major |-> 0, minor |-> 0]
        BY <1>5, <3>4
      <4>2. Steps[o + 1] \in Nat
        <5>1. 0 < o + 1 /\ o + 1 <= NumBlocks /\ o + 1 \in Int
          BY <1>5, BufferAssumption DEF BufferAssumption, Planned
        <5> QED BY <5>1, NumberPlanned
      <4> QED BY <4>1, <4>2
    <3> QED BY <1>2, <1>7, <1>12, <2>4, <2>6, <3>3, <3>5, <3>6 DEF RingRight
  <2> QED BY <1>3, <1>5, <2>7, <2>8
<1> QED BY <1>13, <1>14

\* Nothing moves when the interrupt finds the ring empty.
LEMMA StepsStill ==
  ASSUME StepsInv, UNCHANGED <<sys, plan, added, base, done, prepVars, tail, st>>
  PROVE  InOrder' /\ HoldRight' /\ CutRight' /\ Covered' /\ RingRight'
<1>1. /\ DataInv /\ InOrder /\ HoldRight /\ CutRight /\ Covered /\ RingRight /\ TypeInv
  BY DEF StepsInv, DataInv
<1>2. /\ UNCHANGED <<mm, plb, prep, sblk, seg, head, pc>>
      /\ Out' = Out /\ (InMaking' <=> InMaking)
  BY DEF prepVars, Out, InMaking
<1>3. InOrder' /\ HoldRight' /\ CutRight'
  BY <1>1, <1>2 DEF InOrder, HoldRight, CutRight
<1>4. Covered' /\ RingRight'
  BY <1>1, <1>2, PlanShape, RingStable DEF Uncut
<1> QED BY <1>3, <1>4

\* At first the ring is empty and no block has made a step.
LEMMA StepsInit == ASSUME MaxParks = 0 PROVE Init => StepsInv
<1> SUFFICES ASSUME Init PROVE StepsInv
  OBVIOUS
<1>1. DataInv
  BY DataInit
<1>2. /\ sys = SysReset /\ plan = <<>> /\ added = 0 /\ base = 0 /\ plb = NoBlock
      /\ prep = PrepReset /\ tail = 0 /\ head = 0 /\ pc = "top" /\ st = StReset
      /\ done = [b \in Blocks |-> [major |-> 0, minor |-> 0]]
  BY DEF Init
<1>3. Out = 0 /\ ~InMaking /\ Own(tail) = 1
  <2>1. Len(plan) = 0 /\ added = 0
    BY <1>2
  <2>2. Out = 0
    BY <2>1 DEF Out
  <2>3. ~InMaking
    BY <1>2 DEF InMaking, PrepReset, NoFlags
  <2>4. Own(tail) = 1
    BY <1>2, <2>2 DEF Own
  <2> QED BY <2>2, <2>3, <2>4
<1>4. InOrder /\ CutRight /\ HoldRight
  BY <1>2, <1>3 DEF InOrder, CutRight, HoldRight, SysReset, NoControl
<1>5. \A i \in Slots : ~Queued(i)
  BY <1>2, SlotsType DEF Queued
<1>6. Covered
  BY <1>3 DEF Covered
<1> DEFINE before == [i \in Slots |-> 0]
<1>7. before \in [Slots -> Nat] /\ Chain(before)
  BY <1>5 DEF Chain
<1>8. MadeBefore /\ MadeBehind
  BY <1>2, <1>3, BlocksType DEF MadeBefore, MadeBehind, Planned
<1>9. Loading(before)
  BY <1>2, <1>3 DEF Loading, StReset, SlotTurns, PrepReset
<1>10. MadeAtTail(before)
  <2> SUFFICES ASSUME 1 \in Planned
               PROVE  /\ done[1].major = Steps[1] - Steps[1] + 0 /\ done[1].major = 0
                      /\ done[1].minor = 0
    BY <1>2, <1>3 DEF MadeAtTail, LeftAt, Uncut, StReset
  <2>1. 1 \in Blocks /\ Steps[1] \in Nat
    BY BlocksType, StepsType
  <2> QED BY <1>2, <2>1
<1> HIDE DEF before
<1> QED BY <1>1, <1>4, <1>6, <1>7, <1>8, <1>9, <1>10 DEF StepsInv, RingRight

\* Every step keeps the chain.
LEMMA StepsNext == StepsInv /\ [Next]_vars => StepsInv'
<1> SUFFICES ASSUME StepsInv, [Next]_vars PROVE StepsInv'
  OBVIOUS
<1>1. DataInv /\ DataInv' /\ TypeInv'
  <2>1. DataInv
    BY DEF StepsInv
  <2>2. DataInv'
    BY <2>1, DataNext
  <2> QED BY <2>1, <2>2 DEF DataInv
<1>2. InOrder' /\ HoldRight' /\ CutRight' /\ Covered' /\ RingRight'
  <2>1. CASE UNCHANGED vars \/ IsrEmpty
    BY <2>1, StepsStill DEF vars, protocolVars, prepVars, isrVars, IsrEmpty
  <2>2. CASE Prep
    BY <1>1, <2>2, StepsPrepMoves, StepsLoadNew, StepsLoadSame, StepsSegment, StepsPublish DEF Prep
  <2>3. CASE Handlers
    BY <2>3, StepsBufferLine, StepsHandlers, StepsReset DEF Handlers
  <2>4. ~Parking
    BY <1>1 DEF DataInv, NotParking, Parking, ParkMotion, ParkRestore, DoorReopened
  <2>5. CASE IsrStep
    BY <2>5, StepsIsr
  <2> QED BY <2>1, <2>2, <2>3, <2>4, <2>5 DEF Next, Protocol, Interrupt
<1> QED BY <1>1, <1>2 DEF StepsInv

\* A block that is through is one before that of the tail.
LEMMA ExecutedMade ==
  ASSUME StepsInv, NEW b \in Planned, Executed(b)
  PROVE  done[b] = [major |-> Steps[b], minor |-> Minor[b]]
<1>1. /\ DataInv /\ TypeInv /\ InOrder /\ Covered /\ RingRight
  BY DEF StepsInv, DataInv
<1>2. /\ added \in Nat /\ Out \in Nat /\ Len(plan) \in Nat /\ base \in Nat /\ b \in Int
      /\ Len(plan) = added - Out /\ base < b /\ b <= added
  BY <1>1, PlanShape, BufferAssumption DEF Executed, Out, BufferAssumption, Planned
<1>3. b <= Out
  <2> SUFFICES ASSUME b > Out PROVE FALSE
    BY <1>2
  <2>1. b - Out \in 1..Len(plan)
    BY <1>2
  <2>2. plan[b - Out] = b /\ DOMAIN plan = 1..Len(plan)
    BY <1>1, <1>2, <2>1 DEF InOrder, DataInv, TypeInv, TypeOK, ProtocolTypes
  <2> QED BY <2>1, <2>2 DEF Executed
<1>4. Own(tail) \in Int
  <2>1. tail # head => tail \in Slots /\ seg \in [Slots -> SegmentType]
    BY <1>1, QueuedNext DEF TypeInv, TypeOK, PrepTypes
  <2> QED BY <1>2, <2>1 DEF Own, SegmentType, Blocks, Planned, Park, NoBlock
<1>5. b < Own(tail)
  <2> SUFFICES ASSUME Own(tail) <= b PROVE FALSE
    BY <1>2, <1>4
  <2>1. b \in Own(tail)..Out
    BY <1>2, <1>3, <1>4
  <2> QED BY <1>1, <2>1 DEF Covered, Executed
<1> QED BY <1>1, <1>2, <1>5 DEF RingRight, MadeBefore

\* Without parking motions a block that is through has made exactly the steps of its
\* longest axis, for every size of the ring, every program and every way st_prep_buffer
\* may cut it, across holds, resumes and a ring run dry.
THEOREM MajorExact == ASSUME MaxParks = 0 PROVE Spec => []MajorStepsExact
<1>1. StepsInv => MajorStepsExact
  <2> SUFFICES ASSUME StepsInv, NEW b \in Planned, Executed(b)
               PROVE  done[b].major = Steps[b]
    BY DEF MajorStepsExact
  <2>1. done[b] = [major |-> Steps[b], minor |-> Minor[b]]
    BY ExecutedMade
  <2> QED BY <2>1
<1> QED BY <1>1, StepsInit, StepsNext, PTL DEF Spec

\* ... and the Bresenham counters, which go on across segments, holds and blocks, give
\* every other axis exactly its own.
THEOREM MinorExact == ASSUME MaxParks = 0 PROVE Spec => []MinorStepsExact
<1>1. StepsInv => MinorStepsExact
  <2> SUFFICES ASSUME StepsInv, NEW b \in Planned, Executed(b)
               PROVE  done[b].minor = Minor[b]
    BY DEF MinorStepsExact
  <2>1. done[b] = [major |-> Steps[b], minor |-> Minor[b]]
    BY ExecutedMade
  <2> QED BY <2>1
<1> QED BY <1>1, StepsInit, StepsNext, PTL DEF Spec

-----------------------------------------------------------------------------
(***************************************************************************)
(* The order of the steps.  Read as a StepStream whose blocks have left    *)
(* what the interrupt has not made of them, the buffer makes the steps one *)
(* by one and block after block.                                           *)
(***************************************************************************)

NotMade(b) == IF base < b /\ b <= added THEN Steps[b] - done[b].major ELSE 0

Stream == INSTANCE StepStream WITH left <- [b \in Planned |-> NotMade(b)], last <- added

\* The steps of the program come in its order: a step is one of the first block that has
\* steps left, a line adds its own, and only a reset throws steps away.
StreamsSteps == Stream!Spec

\* A line of the program that is not buffered yet has made no step.
LEMMA NotBegun ==
  ASSUME StepsInv, NEW b \in Planned, added < b
  PROVE  done[b].major = 0
<1>1. /\ DataInv /\ TypeInv /\ InOrder /\ RingRight
  BY DEF StepsInv, DataInv
<1>2. added \in Nat /\ Out \in Nat /\ Out <= added /\ b \in Int
  BY <1>1, PlanShape, BufferAssumption DEF BufferAssumption, Planned
<1>3. PICK before \in [Slots -> Nat] :
        Chain(before) /\ MadeBefore /\ MadeBehind /\ Loading(before) /\ MadeAtTail(before)
  BY <1>1 DEF RingRight
<1>4. CASE tail # head
  <2>1. tail \in Slots /\ Queued(tail) /\ seg[tail].owner <= added /\ seg[tail].owner \in Int
    <3>1. tail \in Slots /\ Queued(tail)
      BY <1>1, <1>4, QueuedNext
    <3> QED BY <1>1, <1>3, <3>1 DEF Chain, TypeInv, TypeOK, PrepTypes, SegmentType, Blocks,
                                    Planned, Park, NoBlock
  <2>2. Own(tail) < b
    BY <1>2, <1>4, <2>1 DEF Own
  <2> QED BY <1>3, <2>2 DEF MadeBehind
<1>5. CASE tail = head
  <2>1. Own(tail) = Out + 1 /\ ~st.loaded /\ LeftAt(before, tail) = Uncut
    BY <1>1, <1>5 DEF Own, LeftAt, TypeInv, Positions
  <2>2. CASE Out + 1 < b
    BY <1>3, <2>1, <2>2 DEF MadeBehind
  <2>3. CASE Out + 1 >= b
    <3>1. Out = added /\ b = Out + 1
      BY <1>2, <2>3
    <3>2. Uncut = Steps[b]
      BY <1>1, <1>2, <3>1, PlanShape DEF Uncut
    <3>3. Steps[b] \in Nat
      BY BlocksType, StepsType
    <3> QED BY <1>3, <2>1, <3>1, <3>2, <3>3 DEF MadeAtTail
  <2> QED BY <1>2, <2>2, <2>3
<1> QED BY <1>4, <1>5

\* A step event is a step of the first block that has steps left.
LEMMA StreamIsr ==
  ASSUME StepsInv, IsrStep
  PROVE  \E b \in Planned : Stream!Step(b)
<1>1. /\ DataInv /\ InOrder /\ RingRight
  BY DEF StepsInv
<1>2. PICK before \in [Slots -> Nat] :
        Chain(before) /\ MadeBefore /\ MadeBehind /\ Loading(before) /\ MadeAtTail(before)
  BY <1>1 DEF RingRight
<1>3. PICK o \in Planned : o = seg[tail].owner
  BY <1>2, IsrFacts
<1>4. /\ base < o /\ o <= added /\ Own(tail) = o
      /\ Loaded.count \in Nat /\ 0 < Loaded.count /\ seg[tail].n \in Nat
      /\ seg[tail].n <= before[tail] /\ tail \in Slots
      /\ done[o].major = Steps[o] - before[tail] + (seg[tail].n - Loaded.count)
  BY <1>2, <1>3, IsrFacts
<1>5. /\ UNCHANGED <<added, base>>
      /\ \A b \in Planned : b # o => done'[b] = done[b]
      /\ done'[o].major = done[o].major + 1
  BY <1>2, <1>3, IsrEffect
<1>6. Steps[o] \in Nat /\ before[tail] \in Nat /\ o \in Int /\ base \in Int /\ added \in Int
  BY <1>1, <1>2, <1>4, BlocksType, StepsType, PlanShape, BufferAssumption
     DEF BufferAssumption, Planned
<1>7. NotMade(o) = Steps[o] - done[o].major /\ NotMade(o)' = Steps[o] - done[o].major - 1
  BY <1>4, <1>5, <1>6 DEF NotMade
<1>8. NotMade(o) > 0
  BY <1>4, <1>6, <1>7
<1>9. \A a \in Planned : a < o => NotMade(a) = 0
  <2> SUFFICES ASSUME NEW a \in Planned, a < o, base < a
               PROVE  Steps[a] - done[a].major = 0
    BY DEF NotMade
  <2>1. Steps[a] \in Nat
    BY BlocksType, StepsType
  <2>2. done[a] = [major |-> Steps[a], minor |-> Minor[a]]
    BY <1>2, <1>4 DEF MadeBefore
  <2> QED BY <2>1, <2>2
<1>10. \A b \in Planned : b # o => NotMade(b)' = NotMade(b)
  BY <1>5 DEF NotMade
<1>11. [b \in Planned |-> NotMade(b)']
         = [[b \in Planned |-> NotMade(b)] EXCEPT ![o] = @ - 1]
  BY <1>4, <1>7, <1>10
<1>12. Stream!Step(o)
  BY <1>4, <1>5, <1>8, <1>9, <1>11 DEF Stream!Step
<1> QED BY <1>4, <1>12

\* Every other step buffers a line, throws the program away, or makes no step.
LEMMA StreamNext ==
  ASSUME StepsInv, [Next]_vars
  PROVE  [Stream!Next]_<<[b \in Planned |-> NotMade(b)], added>>
<1>1. DataInv /\ ProtocolTypes /\ NotParking
  BY DEF StepsInv, DataInv, TypeInv, TypeOK
<1>2. /\ added \in Nat /\ base \in Nat /\ base <= added
  BY <1>1, PlanShape DEF StepsInv
<1>3. CASE UNCHANGED <<done, base, added>>
  BY <1>3 DEF NotMade
<1>4. CASE BufferLine
  <2>1. PICK a \in Planned : UNCHANGED <<done, base>> /\ added' = a /\ added + 1 = a
    BY <1>2, <1>4, BufferAssumption DEF BufferLine, BufferAssumption, Planned
  <2>2. done[a].major = 0 /\ Steps[a] \in Nat
    BY <1>2, <2>1, NotBegun, BlocksType, StepsType
  <2>3. \A b \in Planned : b # a => NotMade(b)' = NotMade(b)
    BY <1>2, <2>1, BufferAssumption DEF NotMade, BufferAssumption, Planned
  <2>4. NotMade(a)' = Steps[a]
    BY <1>2, <2>1, <2>2 DEF NotMade
  <2>5. [b \in Planned |-> NotMade(b)']
          = [[b \in Planned |-> NotMade(b)] EXCEPT ![a] = Steps[a]]
    BY <2>1, <2>3, <2>4
  <2> QED BY <2>1, <2>5 DEF Stream!Next, Stream!Buffer
<1>5. CASE Reset
  <2>1. base' = added /\ UNCHANGED <<added, done>>
    BY <1>5 DEF Reset
  <2>2. \A b \in Planned : NotMade(b)' = 0
    BY <1>2, <2>1, BufferAssumption DEF NotMade, BufferAssumption, Planned
  <2> QED BY <2>1, <2>2 DEF Stream!Next, Stream!Discard
<1>6. CASE IsrStep
  BY <1>6, StreamIsr DEF Stream!Next
<1>7. CASE Prep \/ IsrEmpty \/ UNCHANGED vars
  <2>1. UNCHANGED <<done, base, added>>
    BY <1>7 DEF Prep, PrepEnter, PrepReturn, PrepLoadNew, PrepLoadSame, PrepKeep, PrepSegment,
       PublishMore, PublishLast, PublishBlockEnd, Publish, WakeUp, IsrEmpty, protocolVars, vars
  <2> QED BY <1>3, <2>1
<1>8. CASE CycleStart \/ DoorResume \/ FeedHold \/ SafetyDoor \/ HandleCycleStop \/ StartRestore
  <2>1. UNCHANGED <<done, base, added>>
    BY <1>8 DEF CycleStart, DoorResume, Start, FeedHold, SafetyDoor, Suspend, HandleCycleStop,
       StartRestore
  <2> QED BY <1>3, <2>1
<1>9. ~Parking
  BY <1>1 DEF NotParking, Parking, ParkMotion, ParkRestore, DoorReopened
<1> QED BY <1>4, <1>5, <1>6, <1>7, <1>8, <1>9 DEF Next, Protocol, Handlers, Interrupt

\* Without parking motions the buffer is a StepStream, for every size of the ring and every
\* program: the interrupt never makes a step of a block before the last of the block
\* before it, and never one more than the block has.
THEOREM StreamImplemented == ASSUME MaxParks = 0 PROVE Spec => StreamsSteps
<1>1. Init => Stream!Init
  BY DEF Init, Stream!Init, NotMade, Planned
<1>2. StepsInv /\ [Next]_vars => [Stream!Next]_<<[b \in Planned |-> NotMade(b)], added>>
  BY StreamNext
<1> QED BY <1>1, <1>2, StepsInit, StepsNext, PTL DEF Spec, StreamsSteps, Stream!Spec

-----------------------------------------------------------------------------
(***************************************************************************)
(* Why no step of the program is made behind an open door.  A hold that    *)
(* comes to a machine in motion ends only when the interrupt has run dry   *)
(* with everything prepped (HeldStill); from then on the ring is fed by    *)
(* parking motions alone, and a parking motion is over only when it has    *)
(* been prepped and executed to its end (ParkOnly), also if the door opens *)
(* again and it is held in turn.  A hold that comes to a machine at rest   *)
(* (HoldAtRest) completes at once, whatever the ring still holds, and an   *)
(* interrupt that drains the ring too early (Underrun) ends a hold before  *)
(* its motion: both are excluded.                                          *)
(***************************************************************************)
Held == sys.state \in {"Hold", "SafetyDoor"}

\* st_prep_buffer has nothing to add to the motion under way.
AllPrepped ==
  \/ sys.ctl.endMotion /\ pc = "top"
  \/ plan = <<>> /\ plb = NoBlock /\ pc \in {"top", "loop"}

\* What a hold has set is taken back before the machine runs or is idle.
Running ==
  ~Held =>
    ~sys.holdComplete /\ ~sys.ctl.executeHold /\ ~sys.ctl.executeSysMotion /\ ~sys.parkCall

HoldEnds == Held => (sys.ctl.executeHold <=> ~sys.holdComplete)

DoorParks == /\ sys.parkCall => sys.state = "SafetyDoor"
             /\ sys.ctl.executeSysMotion => sys.parkCall

\* A call of st_prep_buffer that wakes the steppers up is made for a cycle or for a
\* parking motion, not in a hold.
Wakes == /\ pc = "top" => ~waking
         /\ waking \/ pc = "wake" => ~sys.ctl.executeHold /\ (Held => sys.ctl.executeSysMotion)

HeldStill ==
  Held /\ ~sys.ctl.executeSysMotion /\ (sys.holdComplete \/ cycle_stop) =>
    /\ head = tail /\ AllPrepped /\ ~timer
    /\ sys.holdComplete => ~cycle_stop

ParkOnly ==
  sys.ctl.executeSysMotion =>
    /\ \A i \in Slots : Queued(i) => seg[i].owner = Park
    /\ plb \in {Park, NoBlock}
    /\ pc \in {"top", "wake"} => plb = Park \/ prep.flag.recalculate
    /\ pc = "loop" /\ ~prep.flag.recalculate /\ plb = NoBlock => head = tail
    /\ cycle_stop => head = tail /\ sys.ctl.endMotion /\ pc = "top" /\ ~timer
    /\ waking \/ pc = "wake" => ~timer

DoorInv == Running /\ HoldEnds /\ DoorParks /\ Wakes /\ HeldStill /\ ParkOnly

\* An empty ring is not full, and nothing in it is queued.
LEMMA EmptyRing ==
  ASSUME TypeInv, head = tail
  PROVE  tail # nhead /\ ~st.loaded /\ \A i \in Slots : ~Queued(i)
<1>1. head \in Slots /\ tail \in Slots /\ nhead = NextSlot(head) /\ Slots \subseteq Nat
  BY SlotsType DEF TypeInv, TypeOK, PrepTypes, IsrTypes
<1> QED BY <1>1, NextSlotRing DEF TypeInv, Positions, Queued

\* The machine starts up at rest.
LEMMA DoorInit == Init => DoorInv
<1> SUFFICES ASSUME Init PROVE DoorInv
  OBVIOUS
<1>1. /\ sys = SysReset /\ pc = "top" /\ ~waking
  BY DEF Init
<1> QED BY <1>1 DEF DoorInv, Running, HoldEnds, DoorParks, Wakes, HeldStill, ParkOnly,
                    Held, SysReset, NoControl

\* Taking up a block and going through the loop; a held machine comes no further
\* than to the test at its top.
LEMMA DoorPrepMoves ==
  ASSUME TypeInv, DoorInv, PrepEnter \/ PrepReturn \/ PrepKeep \/ WakeUp
  PROVE  DoorInv'
<1>1. /\ Running /\ HoldEnds /\ DoorParks /\ Wakes /\ HeldStill /\ ParkOnly
  BY DEF DoorInv
<1>2. UNCHANGED <<sys, plan, mm, plb, prep, sblk, seg, head, nhead, tail, st, cycle_stop>>
  BY DEF PrepEnter, PrepReturn, PrepKeep, WakeUp, isrVars, protocolVars
<1>3. Running' /\ HoldEnds' /\ DoorParks'
  BY <1>1, <1>2 DEF Running, HoldEnds, DoorParks, Held
<1>4. (\A i \in Slots : Queued(i) => seg[i].owner = Park)' <=>
      (\A i \in Slots : Queued(i) => seg[i].owner = Park)
  BY <1>2 DEF Queued
<1>5. head = tail => tail # nhead
  BY EmptyRing
<1>6. CASE PrepEnter
  BY <1>1, <1>2, <1>3, <1>4, <1>6
     DEF PrepEnter, NoBlock, Park, isrVars, DoorInv, Wakes, HeldStill, ParkOnly, Held, AllPrepped
<1>7. CASE PrepReturn
  BY <1>1, <1>2, <1>3, <1>4, <1>5, <1>7
     DEF PrepReturn, Caller, QueryBlock, NoBlock, Park, isrVars, DoorInv, Wakes, HeldStill, ParkOnly,
         Held, AllPrepped
<1>8. CASE PrepKeep
  BY <1>1, <1>2, <1>3, <1>4, <1>8
     DEF PrepKeep, isrVars, DoorInv, Wakes, HeldStill, ParkOnly, Held, AllPrepped
<1>9. CASE WakeUp
  BY <1>1, <1>2, <1>3, <1>4, <1>9
     DEF WakeUp, DoorInv, Wakes, HeldStill, ParkOnly, Held, AllPrepped, HoldEnds
<1> QED BY <1>6, <1>7, <1>8, <1>9

\* A block is taken up only while there is something to prep.
LEMMA DoorPrepLoad ==
  ASSUME TypeInv, DoorInv, PrepLoadNew \/ PrepLoadSame
  PROVE  DoorInv'
<1>1. /\ Running /\ HoldEnds /\ DoorParks /\ Wakes /\ HeldStill /\ ParkOnly
  BY DEF DoorInv
<1>2. /\ UNCHANGED <<sys, plan, seg, head, nhead, waking, tail, st, timer, cycle_stop>>
      /\ pc = "loop" /\ pc' = "seg" /\ plb = NoBlock /\ QueryBlock # NoBlock /\ plb' = QueryBlock
  BY DEF PrepLoadNew, PrepLoadSame, isrVars, protocolVars
<1>3. Running' /\ HoldEnds' /\ DoorParks' /\ Wakes'
  BY <1>1, <1>2 DEF Running, HoldEnds, DoorParks, Held, Wakes
<1>4. HeldStill'
  BY <1>1, <1>2 DEF HeldStill, Held, AllPrepped, QueryBlock, CurrentBlock
<1>5. ParkOnly'
  BY <1>1, <1>2 DEF ParkOnly, QueryBlock, Queued
<1> QED BY <1>3, <1>4, <1>5 DEF DoorInv

\* A segment in the making, and the end of the motion it may find.
LEMMA DoorSegment ==
  ASSUME TypeInv, DoorInv, PrepSegment
  PROVE  DoorInv'
<1>1. /\ Running /\ HoldEnds /\ DoorParks /\ Wakes /\ HeldStill /\ ParkOnly
  BY DEF DoorInv
<1>2. /\ UNCHANGED <<plan, plb, head, nhead, waking, tail, st, timer, cycle_stop>>
      /\ pc = "seg" /\ pc' \in {"publish", Caller}
      /\ sys' = sys \/ EndMotion
  BY DEF PrepSegment, isrVars
<1>3. plb # NoBlock /\ head \in Slots /\ tail \in Slots /\ head # nhead
  BY <1>2, NextSlotRing DEF TypeInv, TypeOK, PrepTypes, IsrTypes, Positions
<1>4. PICK s : seg' = [seg EXCEPT ![head] = s]
  BY DEF PrepSegment
<1>5. ~Queued(head) /\ \A i \in Slots : i # head => seg'[i] = seg[i]
  BY <1>3, <1>4, SlotsType DEF Queued, TypeInv, TypeOK, PrepTypes
<1>6. \A i \in Slots : Queued(i)' <=> Queued(i)
  BY <1>2 DEF Queued
<1>7. sys \in SysType
  BY DEF TypeInv, TypeOK, ProtocolTypes
<1>8. /\ sys'.state = sys.state /\ sys'.holdComplete = sys.holdComplete
      /\ sys'.parkCall = sys.parkCall /\ sys'.ctl.executeHold = sys.ctl.executeHold
      /\ sys'.ctl.executeSysMotion = sys.ctl.executeSysMotion
  BY <1>2, <1>7 DEF EndMotion, SysType, ControlType
<1>9. Running' /\ HoldEnds' /\ DoorParks'
  BY <1>1, <1>8 DEF Running, HoldEnds, DoorParks, Held
<1>10. Wakes'
  BY <1>1, <1>2, <1>8 DEF Wakes, Held, Caller
<1>11. HeldStill'
  BY <1>1, <1>2, <1>3, <1>8 DEF HeldStill, Held, AllPrepped
<1>12. ParkOnly'
  BY <1>1, <1>2, <1>3, <1>5, <1>6, <1>8 DEF ParkOnly, Caller
<1> QED BY <1>9, <1>10, <1>11, <1>12 DEF DoorInv

\* A published segment belongs to the block that is being prepped.
LEMMA DoorPublish ==
  ASSUME TypeInv, DoorInv, PublishMore \/ PublishLast \/ PublishBlockEnd
  PROVE  DoorInv'
<1>1. /\ Running /\ HoldEnds /\ DoorParks /\ Wakes /\ HeldStill /\ ParkOnly
  BY DEF DoorInv
<1>2. /\ Publish /\ pc = "publish" /\ pc' \in {"loop", Caller}
      /\ UNCHANGED <<seg, waking, tail, st, timer, cycle_stop>>
      /\ sys' = sys \/ EndMotion
      /\ plb' = plb \/ ~sys.ctl.executeSysMotion
  BY DEF PublishMore, PublishLast, PublishBlockEnd, Publish, isrVars
<1>3. \A i \in Slots : Queued(i)' => i = head \/ Queued(i)
  BY <1>2, PublishQueue
<1>4. plb # NoBlock /\ seg[head].owner = plb
  BY <1>2 DEF TypeInv, Positions
<1>7. sys \in SysType
  BY DEF TypeInv, TypeOK, ProtocolTypes
<1>8. /\ sys'.state = sys.state /\ sys'.holdComplete = sys.holdComplete
      /\ sys'.parkCall = sys.parkCall /\ sys'.ctl.executeHold = sys.ctl.executeHold
      /\ sys'.ctl.executeSysMotion = sys.ctl.executeSysMotion
  BY <1>2, <1>7 DEF EndMotion, SysType, ControlType
<1>9. Running' /\ HoldEnds' /\ DoorParks'
  BY <1>1, <1>8 DEF Running, HoldEnds, DoorParks, Held
<1>10. Wakes'
  BY <1>1, <1>2, <1>8 DEF Wakes, Held, Caller
<1>11. HeldStill'
  BY <1>1, <1>2, <1>4, <1>8 DEF HeldStill, Held, AllPrepped
<1>12. ParkOnly'
  BY <1>1, <1>2, <1>3, <1>4, <1>8 DEF ParkOnly, Caller
<1> QED BY <1>9, <1>10, <1>11, <1>12 DEF DoorInv

\* New blocks come in a cycle or in Idle only.
LEMMA DoorBufferLine ==
  ASSUME TypeInv, DoorInv, BufferLine
  PROVE  DoorInv'
<1>1. /\ Running /\ HoldEnds /\ DoorParks /\ Wakes /\ HeldStill /\ ParkOnly
  BY DEF DoorInv
<1>2. UNCHANGED <<sys, pc, waking>> /\ ~Held
  BY DEF BufferLine, Held
<1> QED BY <1>1, <1>2 DEF DoorInv, Running, HoldEnds, DoorParks, Wakes, HeldStill, ParkOnly, Held

\* A start forgets the hold.
LEMMA DoorStart ==
  ASSUME TypeInv, DoorInv, CycleStart \/ DoorResume
  PROVE  DoorInv'
<1>1. /\ Running /\ HoldEnds /\ DoorParks /\ Wakes /\ HeldStill /\ ParkOnly
  BY DEF DoorInv
<1>2. sys \in SysType
  BY DEF TypeInv, TypeOK, ProtocolTypes
<1>3. Start(sys) /\ ~sys.parkCall
  BY <1>1 DEF CycleStart, DoorResume, DoorParks, Held
<1>4. /\ sys'.state \in {"Idle", "Cycle"} /\ ~sys'.holdComplete /\ sys'.ctl = NoControl
      /\ ~sys'.parkCall
  BY <1>2, <1>3 DEF Start, SysType
<1>5. ~sys'.ctl.executeHold /\ ~sys'.ctl.executeSysMotion
  BY <1>4 DEF NoControl
<1>6. pc' = "top" => ~waking'
  BY <1>3 DEF Start
<1> QED BY <1>4, <1>5, <1>6 DEF DoorInv, Running, HoldEnds, DoorParks, Wakes, HeldStill, ParkOnly, Held

\* A hold comes to a cycle that still moves, or turns into a door.
LEMMA DoorSuspend ==
  ASSUME TypeInv, DoorInv, ~HoldAtRest, FeedHold \/ SafetyDoor
  PROVE  DoorInv'
<1>1. /\ Running /\ HoldEnds /\ DoorParks /\ Wakes /\ HeldStill /\ ParkOnly
  BY DEF DoorInv
<1>2. sys \in SysType
  BY DEF TypeInv, TypeOK, ProtocolTypes
<1>3. /\ UNCHANGED <<plan, seg, head, nhead, waking, pc, tail, st, timer, cycle_stop>>
      /\ pc = "top"
      /\ (sys.state = "Cycle" /\ ~cycle_stop) \/ sys.state = "Hold"
      /\ Suspend("Hold") \/ Suspend("SafetyDoor")
  BY DEF FeedHold, SafetyDoor, Suspendable, Suspend, isrVars
<1>4. CASE sys.state = "Cycle"
  <2>1. /\ sys'.state \in {"Hold", "SafetyDoor"} /\ ~sys'.holdComplete
        /\ sys'.ctl.executeHold /\ ~sys'.ctl.executeSysMotion /\ ~sys'.parkCall
    <3>1. PICK s \in {"Hold", "SafetyDoor"} : Suspend(s)
      BY <1>3
    <3>2. sys' = [sys EXCEPT !.state = s, !.holdComplete = @,
                             !.ctl = [NoControl EXCEPT !.executeHold = TRUE]]
      BY <1>2, <1>4, <3>1 DEF Suspend, SysType
    <3>3. ~sys.holdComplete /\ ~sys.parkCall
      BY <1>1, <1>4 DEF Running, Held
    <3> QED BY <1>2, <3>2, <3>3 DEF SysType, NoControl
  <2> QED BY <1>1, <1>3, <1>4, <2>1
             DEF DoorInv, Running, HoldEnds, DoorParks, Wakes, HeldStill, ParkOnly, Held
<1>5. CASE sys.state = "Hold"
  <2>1. /\ sys'.state \in {"Hold", "SafetyDoor"} /\ sys'.holdComplete = sys.holdComplete
        /\ sys'.ctl = sys.ctl /\ sys'.parkCall = sys.parkCall /\ UNCHANGED <<prep, plb>>
    BY <1>2, <1>3, <1>5 DEF Suspend, SysType
  <2>2. ~sys.parkCall /\ ~sys.ctl.executeSysMotion
    BY <1>1, <1>5 DEF DoorParks
  <2> QED BY <1>1, <1>3, <1>5, <2>1, <2>2
             DEF DoorInv, Running, HoldEnds, DoorParks, Wakes, HeldStill, ParkOnly, Held, AllPrepped
<1> QED BY <1>3, <1>4, <1>5

\* The cycle stop finds everything prepped and executed.
LEMMA DoorCycleStop ==
  ASSUME TypeInv, DoorInv, HandleCycleStop
  PROVE  DoorInv'
<1>1. /\ Running /\ HoldEnds /\ DoorParks /\ Wakes /\ HeldStill /\ ParkOnly
  BY DEF DoorInv
<1>2. sys \in SysType
  BY DEF TypeInv, TypeOK, ProtocolTypes
<1>3. /\ UNCHANGED <<plan, seg, head, nhead, waking, pc, tail, st, timer>>
      /\ pc = "top" /\ cycle_stop /\ ~cycle_stop'
  BY DEF HandleCycleStop
<1>4. CASE Held
  <2>1. /\ sys'.state = sys.state /\ sys'.parkCall = sys.parkCall
        /\ sys'.holdComplete = (sys.holdComplete \/ sys.ctl.executeHold)
        /\ ~sys'.ctl.executeHold /\ ~sys'.ctl.executeSysMotion
        /\ sys'.ctl.endMotion = sys.ctl.endMotion /\ plb' = NoBlock
    <3>1. sys' = Stopped /\ plb' = NoBlock
      BY <1>4 DEF HandleCycleStop, Held, StUpdate
    <3>2. sys' = [sys EXCEPT !.holdComplete = (sys.holdComplete \/ sys.ctl.executeHold),
                             !.ctl = [sys.ctl EXCEPT !.executeHold = FALSE,
                                                     !.executeSysMotion = FALSE]]
      BY <1>2, <3>1 DEF Stopped, SysType, ControlType
    <3>3. /\ sys'.state = sys.state /\ sys'.parkCall = sys.parkCall
          /\ sys'.ctl = [sys.ctl EXCEPT !.executeHold = FALSE, !.executeSysMotion = FALSE]
      BY <1>2, <3>2 DEF SysType
    <3>4. sys'.holdComplete = (sys.holdComplete \/ sys.ctl.executeHold)
      <4> DEFINE hold == sys.holdComplete \/ sys.ctl.executeHold
                 ctl  == [sys.ctl EXCEPT !.executeHold = FALSE, !.executeSysMotion = FALSE]
      <4>1. sys' = [sys EXCEPT !.holdComplete = hold, !.ctl = ctl]
        BY <3>2
      <4> HIDE DEF hold, ctl
      <4>2. sys'.holdComplete = hold
        BY <1>2, <4>1 DEF SysType
      <4> QED BY <4>2 DEF hold
    <3>5. /\ ~sys'.ctl.executeHold /\ ~sys'.ctl.executeSysMotion
          /\ sys'.ctl.endMotion = sys.ctl.endMotion
      BY <1>2, <3>3 DEF SysType, ControlType
    <3> QED BY <3>1, <3>3, <3>4, <3>5
  <2>2. sys'.holdComplete
    BY <1>1, <1>4, <2>1 DEF HoldEnds
  <2>3. head = tail /\ ~timer /\ (sys.ctl.endMotion \/ plan = <<>>)
    BY <1>1, <1>3, <1>4 DEF HeldStill, ParkOnly, AllPrepped
  <2> QED BY <1>1, <1>3, <1>4, <2>1, <2>2, <2>3
             DEF DoorInv, Running, HoldEnds, DoorParks, Wakes, HeldStill, ParkOnly, Held, AllPrepped
<1>5. CASE ~Held
  <2>1. /\ sys'.state = "Idle" /\ ~sys'.holdComplete /\ sys'.ctl = sys.ctl
        /\ sys'.parkCall = sys.parkCall
    BY <1>2, <1>5 DEF HandleCycleStop, Held, SysType
  <2> QED BY <1>1, <1>3, <1>5, <2>1
             DEF DoorInv, Running, HoldEnds, DoorParks, Wakes, HeldStill, ParkOnly, Held
<1> QED BY <1>4, <1>5

\* A parking motion starts with an empty ring and the steppers at rest.
LEMMA DoorParkMotion ==
  ASSUME TypeInv, DoorInv, ParkMotion
  PROVE  DoorInv'
<1>1. /\ Running /\ HoldEnds /\ DoorParks /\ Wakes /\ HeldStill /\ ParkOnly
  BY DEF DoorInv
<1>2. sys \in SysType
  BY DEF TypeInv, TypeOK, ProtocolTypes
<1>3. /\ UNCHANGED <<plan, seg, head, nhead, tail, st, timer, cycle_stop>>
      /\ sys.state = "SafetyDoor" /\ sys.holdComplete /\ ~sys.parkCall
      /\ pc' = "loop" /\ plb' = NoBlock
  BY DEF ParkMotion, isrVars
<1>4. /\ sys'.state = sys.state /\ sys'.parkCall /\ sys'.holdComplete
      /\ sys'.ctl.executeHold = sys.ctl.executeHold /\ sys'.ctl.executeSysMotion
  BY <1>2, <1>3 DEF ParkMotion, SysType, ControlType
<1>5. ~sys.ctl.executeHold /\ ~sys.ctl.executeSysMotion
  BY <1>1, <1>3 DEF HoldEnds, DoorParks, Held
<1>6. head = tail /\ ~timer /\ ~cycle_stop
  BY <1>1, <1>3, <1>5 DEF HeldStill, Held
<1>7. \A i \in Slots : ~Queued(i)'
  BY <1>3, <1>6, EmptyRing DEF Queued
<1> QED BY <1>3, <1>4, <1>5, <1>6, <1>7
           DEF DoorInv, Running, HoldEnds, DoorParks, Wakes, HeldStill, ParkOnly, Held

\* mc_parking_motion returns to a machine at rest.
LEMMA DoorParkRestore ==
  ASSUME TypeInv, DoorInv, ParkRestore
  PROVE  DoorInv'
<1>1. /\ Running /\ HoldEnds /\ DoorParks /\ Wakes /\ HeldStill /\ ParkOnly
  BY DEF DoorInv
<1>2. sys \in SysType
  BY DEF TypeInv, TypeOK, ProtocolTypes
<1>3. /\ UNCHANGED <<plan, seg, head, nhead, pc, waking, tail, st, timer, cycle_stop>>
      /\ ~sys.ctl.executeSysMotion /\ plb' = NoBlock /\ pc = "top"
  BY DEF ParkRestore, isrVars
<1>4. /\ sys'.state = sys.state /\ ~sys'.parkCall /\ sys'.holdComplete = sys.holdComplete
      /\ sys'.ctl = sys.ctl
  BY <1>2 DEF ParkRestore, SysType
<1> QED BY <1>1, <1>3, <1>4
           DEF DoorInv, Running, HoldEnds, DoorParks, Wakes, HeldStill, ParkOnly, Held, AllPrepped

\* The flag that the restore may begin means nothing to the motion.
LEMMA DoorStartRestore ==
  ASSUME TypeInv, DoorInv, StartRestore
  PROVE  DoorInv'
<1>1. /\ Running /\ HoldEnds /\ DoorParks /\ Wakes /\ HeldStill /\ ParkOnly
  BY DEF DoorInv
<1>2. sys \in SysType
  BY DEF TypeInv, TypeOK, ProtocolTypes
<1>3. UNCHANGED <<plan, plb, prep, seg, head, nhead, pc, waking, tail, st, timer, cycle_stop>>
  BY DEF StartRestore, isrVars, prepVars
<1>4. /\ sys'.state = sys.state /\ sys'.parkCall = sys.parkCall
      /\ sys'.holdComplete = sys.holdComplete /\ sys'.ctl = sys.ctl
  BY <1>2 DEF StartRestore, SysType
<1> QED BY <1>1, <1>3, <1>4
           DEF DoorInv, Running, HoldEnds, DoorParks, Wakes, HeldStill, ParkOnly, Held, AllPrepped,
               Queued

\* A parking motion that is held in turn is a motion that still has to be prepped.
LEMMA DoorAgain ==
  ASSUME TypeInv, DoorInv, ~HoldAtRest, DoorReopened
  PROVE  DoorInv'
<1>1. /\ Running /\ HoldEnds /\ DoorParks /\ Wakes /\ HeldStill /\ ParkOnly
  BY DEF DoorInv
<1>2. sys \in SysType
  BY DEF TypeInv, TypeOK, ProtocolTypes
<1>3. /\ UNCHANGED <<plan, seg, head, nhead, pc, waking, tail, st, timer, cycle_stop>>
      /\ sys.ctl.executeSysMotion /\ pc = "top" /\ ~cycle_stop /\ StUpdate
  BY DEF DoorReopened, isrVars
<1>4. /\ sys'.state = sys.state /\ sys'.parkCall = sys.parkCall /\ ~sys'.holdComplete
      /\ sys'.ctl.executeHold /\ sys'.ctl.executeSysMotion
  BY <1>2 DEF DoorReopened, SysType
<1>5. plb' = NoBlock /\ prep'.flag.recalculate
  <2>1. InMaking
    BY <1>1, <1>3, BlocksType DEF ParkOnly, InMaking
  <2> QED BY <1>3, <2>1, UpdatedPrepEffect DEF StUpdate, TypeInv, TypeOK
<1>6. (\A i \in Slots : Queued(i) => seg[i].owner = Park)'
  BY <1>1, <1>3 DEF ParkOnly, Queued
<1> QED BY <1>1, <1>3, <1>4, <1>5, <1>6
           DEF DoorInv, Running, HoldEnds, DoorParks, Wakes, HeldStill, ParkOnly, Held

\* A reset leaves nothing held and nothing under way.
LEMMA DoorReset ==
  ASSUME TypeInv, DoorInv, Reset
  PROVE  DoorInv'
<1>1. /\ Running /\ HoldEnds /\ DoorParks /\ Wakes /\ HeldStill /\ ParkOnly
  BY DEF DoorInv
<1>2. sys' = SysReset /\ UNCHANGED <<pc, waking>> /\ pc = "top"
  BY DEF Reset
<1> QED BY <1>1, <1>2
           DEF SysReset, NoControl, DoorInv, Running, HoldEnds, DoorParks, Wakes, HeldStill,
               ParkOnly, Held

\* The interrupt takes segments out of the ring, and stops when it is empty.
LEMMA DoorInterrupt ==
  ASSUME TypeInv, DoorInv, ~Underrun, Interrupt
  PROVE  DoorInv'
<1>1. /\ Running /\ HoldEnds /\ DoorParks /\ Wakes /\ HeldStill /\ ParkOnly
  BY DEF DoorInv
<1>2. UNCHANGED <<sys, plan, plb, prep, seg, head, nhead, pc, waking>>
  BY DEF Interrupt, IsrStep, IsrEmpty, protocolVars, prepVars
<1>3. Running' /\ HoldEnds' /\ DoorParks' /\ Wakes'
  BY <1>1, <1>2 DEF Running, HoldEnds, DoorParks, Held, Wakes
<1>4. CASE IsrStep
  <2>1. /\ tail' = tail \/ tail' = NextSlot(tail)
        /\ UNCHANGED <<timer, cycle_stop>> /\ timer /\ head # tail
    BY <1>4 DEF IsrStep, TypeInv, Positions
  <2>2. \A i \in Slots : Queued(i)' => Queued(i)
    BY <1>2, <2>1, ConsumeQueue DEF Queued
  <2>3. HeldStill'
    BY <1>1, <1>2, <2>1 DEF HeldStill, Held
  <2>4. ParkOnly'
    BY <1>1, <1>2, <2>1, <2>2 DEF ParkOnly
  <2> QED BY <1>3, <2>3, <2>4 DEF DoorInv
<1>5. CASE IsrEmpty
  <2>1. /\ UNCHANGED tail /\ head = tail /\ timer /\ ~timer' /\ ~Refilling
    BY <1>5 DEF IsrEmpty
  <2>2. pc \in {"top", "wake"} /\ (sys.ctl.endMotion \/ (~InMaking /\ (sys.ctl.executeHold => plan = <<>>)))
    <3>1. pc \in {"top", "loop", "seg", "publish", "wake"}
      BY DEF TypeInv, TypeOK, PrepTypes
    <3>2. pc \in {"top", "wake"}
      BY <2>1, <3>1 DEF Refilling
    <3>3. ASSUME ~sys.ctl.endMotion
          PROVE  plb = NoBlock /\ ~prep.flag.recalculate /\ (sys.ctl.executeHold => plan = <<>>)
      BY <2>1, <3>3, Zenon DEF Refilling
    <3>4. ~sys.ctl.endMotion => ~InMaking
      BY <3>3 DEF InMaking
    <3> QED BY <3>2, <3>3, <3>4
  <2>3. HeldStill'
    BY <1>1, <1>2, <2>1, <2>2 DEF HeldStill, HoldEnds, Wakes, Held, AllPrepped, InMaking
  <2>4. ParkOnly'
    BY <1>1, <1>2, <2>1, <2>2, BlocksType DEF ParkOnly, InMaking, Queued
  <2> QED BY <1>3, <2>3, <2>4 DEF DoorInv
<1> QED BY <1>4, <1>5 DEF Interrupt

\* Every step of the stepper subsystem and of the protocol keeps the invariant.
LEMMA DoorNext ==
  ASSUME ~Underrun, ~HoldAtRest
  PROVE  TypeInv /\ DoorInv /\ [Next]_vars => DoorInv'
<1> SUFFICES ASSUME TypeInv, DoorInv, [Next]_vars PROVE DoorInv'
  OBVIOUS
<1>1. CASE UNCHANGED vars
  BY <1>1 DEF vars, protocolVars, prepVars, isrVars, DoorInv, Running, HoldEnds, DoorParks, Wakes,
              HeldStill, ParkOnly, Held, AllPrepped, Queued
<1>2. CASE Prep
  BY <1>2, DoorPrepMoves, DoorPrepLoad, DoorSegment, DoorPublish DEF Prep
<1>3. CASE Protocol
  BY <1>3, DoorBufferLine, DoorStart, DoorSuspend, DoorCycleStop, DoorParkMotion, DoorParkRestore,
     DoorStartRestore, DoorAgain, DoorReset DEF Protocol, Handlers, Parking
<1>4. CASE Interrupt
  BY <1>4, DoorInterrupt
<1> QED BY <1>1, <1>2, <1>3, <1>4 DEF Next

\* No step of the program while the invariant holds and the door is open.
LEMMA DoorStep ==
  ASSUME TypeInv, DoorInv, [Next]_vars, sys.state = "SafetyDoor", sys.holdComplete,
         NEW b \in Planned
  PROVE  done'[b] = done[b]
<1>1. CASE IsrStep
  <2>1. timer /\ head # tail /\ tail \in Slots /\ head \in Slots
    BY <1>1 DEF IsrStep, TypeInv, TypeOK, PrepTypes, IsrTypes, Positions
  <2>2. Queued(tail)
    BY <2>1, SlotsType DEF Queued
  <2>3. seg[tail].owner = Park
    BY <2>1, <2>2 DEF DoorInv, HeldStill, ParkOnly, Held
  <2>4. Park # b /\ b \in Blocks
    BY BufferAssumption DEF BufferAssumption, Park, Planned, Blocks
  <2>5. done \in [Blocks -> [major: Nat, minor: Nat]]
    BY DEF TypeInv, TypeOK, ProtocolTypes
  <2> DEFINE one == [major |-> done[Park].major + 1, minor |-> done'[Park].minor]
  <2>6. \E r : done' = [done EXCEPT ![Park] = r]
    BY <1>1, <2>3 DEF IsrStep
  <2> QED BY <2>4, <2>5, <2>6
<1>2. CASE ~IsrStep
  <2>1. UNCHANGED done
    BY <1>2 DEF Next, Prep, Protocol, Handlers, Parking, Interrupt, vars, protocolVars, prepVars,
                isrVars, PrepEnter, PrepReturn, PrepLoadNew, PrepLoadSame, PrepKeep, PrepSegment,
                Publish, PublishMore, PublishLast, PublishBlockEnd, WakeUp, BufferLine, CycleStart,
                DoorResume, Start, FeedHold, SafetyDoor, Suspend, HandleCycleStop, StartRestore,
                Reset, ParkMotion, ParkRestore, DoorReopened, IsrEmpty
  <2> QED BY <2>1
<1> QED BY <1>1, <1>2

\* protocol_exec_rt_suspend and st_prep_buffer: with the door open and the hold complete
\* the interrupt makes no step of the program, whatever the size of the ring, the
\* program, and the holds, resets, parking motions and doors opened again in it; the
\* steps of parking motions are the only ones.
THEOREM DoorHoldsStill ==
  ASSUME ~Underrun, ~HoldAtRest
  PROVE  Spec => NoStepWhileDoorOpen
<1>1. Init => TypeInv /\ DoorInv
  BY InitTypeInv, DoorInit
<1>2. TypeInv /\ DoorInv /\ [Next]_vars => TypeInv' /\ DoorInv'
  BY NextTypeInv, DoorNext
<1>3. TypeInv /\ DoorInv /\ [Next]_vars
        => [sys.state = "SafetyDoor" /\ sys.holdComplete =>
              \A b \in Planned : done'[b] = done[b]]_vars
  BY DoorStep
<1> QED BY <1>1, <1>2, <1>3, PTL DEF Spec, NoStepWhileDoorOpen

-----------------------------------------------------------------------------
(***************************************************************************)
(* The same behind the laser, which adds a door that opens in the middle   *)
(* of a restore without a motion, and mc_reset killing the steppers in     *)
(* another task.                                                           *)
(***************************************************************************)
Others ==
  \/ /\ sys' = [sys EXCEPT !.restoring = FALSE]
     /\ budget.holds > 0 /\ budget' = [budget EXCEPT !.holds = @ - 1]
     /\ UNCHANGED <<plan, added, done, base, prepVars, isrVars>>
  \/ /\ timer' \in {timer, FALSE}
     /\ UNCHANGED <<protocolVars, prepVars, tail, st, cycle_stop>>

\* Every step of Laser is one of the segment buffer, or one of these two.
LEMMA LaserSteps ==
  ASSUME [LaserNext]_allVars
  PROVE  /\ ([Next]_vars \/ Others) /\ UNCHANGED laserMode
         /\ Step \/ UNCHANGED vars \/ Others \/ Prep \/ Protocol \/ IsrEmpty
<1> DEFINE Calm == UNCHANGED vars \/ Others \/ Prep \/ Protocol \/ IsrEmpty
<1>1. UNCHANGED allVars => UNCHANGED vars /\ UNCHANGED laserMode
  BY DEF allVars, laserVars
<1>2. \A l \in Lines : Line(l) => (BufferLine \/ UNCHANGED vars) /\ UNCHANGED laserMode
  BY DEF Line
<1>3. LoadNew \/ LoadSame \/ Segment \/ Fill => Prep /\ UNCHANGED laserMode
  BY DEF LoadNew, LoadSame, Segment, Fill, Prep, laserVars
<1>4. (Step => Interrupt) /\ (Empty => IsrEmpty) /\ (Step \/ Empty => UNCHANGED laserMode)
  BY DEF Step, Empty, Interrupt
<1>5. Hold \/ Resume \/ CycleStopped \/ Restoring => Handlers /\ UNCHANGED laserMode
  BY DEF Hold, Resume, CycleStopped, Restoring, Handlers
<1>6. Reopened => (DoorReopened \/ Others) /\ UNCHANGED laserMode
  BY DEF Reopened, Others
<1>7. Parks \/ Parked => Parking /\ UNCHANGED laserMode
  BY DEF Parks, Parked, Parking, laserVars
<1>8. ResumeStopped \/ ResumeBlocked \/ QuietPass \/ Override \/ StopCharacter \/ EnterSuspend
      \/ HoldTurn \/ Deenergize \/ Reenergize \/ DoorTurn \/ ResetStops \/ Abort
        => UNCHANGED vars /\ UNCHANGED laserMode
  BY DEF ResumeStopped, ResumeBlocked, QuietPass, Override, StopCharacter, EnterSuspend, HoldTurn,
         Deenergize, Reenergize, DoorTurn, ResetStops, Abort
<1>9. ResetKills => Others /\ UNCHANGED laserMode
  BY DEF ResetKills, Others
<1>10. Cleared => Handlers /\ UNCHANGED laserMode
  BY DEF Cleared, Handlers
<1>11. BufferLine \/ Handlers \/ Parking \/ DoorReopened => Protocol
  BY DEF Protocol, Handlers, Parking
<1>12. Prep \/ Protocol \/ Interrupt \/ IsrEmpty => [Next]_vars
  BY DEF Next, Interrupt
<1>13. LaserNext => (Step \/ Calm) /\ UNCHANGED laserMode
  BY <1>2, <1>3, <1>4, <1>5, <1>6, <1>7, <1>8, <1>9, <1>10, <1>11, <1>12 DEF LaserNext
<1>14. (Step \/ Calm) /\ UNCHANGED laserMode
  BY <1>1, <1>13
<1>15. Step \/ Calm => [Next]_vars \/ Others
  BY <1>4, <1>12
<1> QED BY <1>14, <1>15

\* Neither of the two touches what the types and the ring depend on.
LEMMA OthersTypeInv == TypeInv /\ Others => TypeInv'
<1> SUFFICES ASSUME TypeInv, Others PROVE TypeInv'
  OBVIOUS
<1>1. ProtocolTypes /\ PrepTypes /\ IsrTypes /\ SlotsWritten /\ Positions
  BY DEF TypeInv, TypeOK
<1>2. UNCHANGED <<plan, added, done, base, mm, plb, prep, sblk, seg, head, nhead, pc, waking,
                  tail, st, cycle_stop>>
  BY DEF Others, prepVars, isrVars, protocolVars
<1>3. /\ sys' \in SysType /\ sys'.parkCall = sys.parkCall
      /\ budget' \in [holds: Nat, resets: Nat, parks: Nat] /\ timer' \in BOOLEAN
  <2>1. sys \in SysType /\ budget \in [holds: Nat, resets: Nat, parks: Nat] /\ timer \in BOOLEAN
    BY <1>1 DEF ProtocolTypes, IsrTypes
  <2>2. CASE /\ sys' = [sys EXCEPT !.restoring = FALSE] /\ budget.holds > 0
             /\ budget' = [budget EXCEPT !.holds = @ - 1] /\ UNCHANGED isrVars
    <3>1. sys' \in SysType /\ sys'.parkCall = sys.parkCall /\ timer' = timer
      BY <2>1, <2>2 DEF SysType, isrVars
    <3>2. budget.holds - 1 \in Nat
      BY <2>1, <2>2
    <3>3. budget' \in [holds: Nat, resets: Nat, parks: Nat]
      BY <2>1, <2>2, <3>2
    <3> QED BY <2>1, <3>1, <3>3
  <2>3. CASE timer' \in {timer, FALSE} /\ UNCHANGED protocolVars
    BY <2>1, <2>3 DEF protocolVars
  <2> QED BY <2>2, <2>3 DEF Others
<1>4. ProtocolTypes' /\ PrepTypes' /\ IsrTypes'
  BY <1>1, <1>2, <1>3 DEF ProtocolTypes, PrepTypes, IsrTypes
<1>5. SlotsWritten' /\ Positions'
  BY <1>1, <1>2, <1>3, RestStable
<1> QED BY <1>4, <1>5 DEF TypeInv, TypeOK

\* Nor what the motion depends on: a timer that is stopped makes no step.
LEMMA OthersDoorInv == TypeInv /\ DoorInv /\ Others => DoorInv' /\ UNCHANGED done
<1> SUFFICES ASSUME TypeInv, DoorInv, Others PROVE DoorInv' /\ UNCHANGED done
  OBVIOUS
<1>1. /\ Running /\ HoldEnds /\ DoorParks /\ Wakes /\ HeldStill /\ ParkOnly
  BY DEF DoorInv
<1>2. sys \in SysType
  BY DEF TypeInv, TypeOK, ProtocolTypes
<1>3. UNCHANGED <<done, plan, plb, prep, seg, head, nhead, pc, waking, tail, st, cycle_stop>>
  BY DEF Others, prepVars, isrVars, protocolVars
<1>4. /\ sys'.state = sys.state /\ sys'.parkCall = sys.parkCall
      /\ sys'.holdComplete = sys.holdComplete /\ sys'.ctl = sys.ctl
      /\ timer' => timer
  <2>1. CASE sys' = [sys EXCEPT !.restoring = FALSE] /\ UNCHANGED isrVars
    BY <1>2, <2>1 DEF SysType, isrVars
  <2>2. CASE timer' \in {timer, FALSE} /\ UNCHANGED protocolVars
    <3>1. timer' = timer \/ timer' = FALSE
      BY <2>2
    <3> QED BY <2>2, <3>1 DEF protocolVars
  <2> QED BY <2>1, <2>2 DEF Others
<1> QED BY <1>1, <1>3, <1>4
           DEF DoorInv, Running, HoldEnds, DoorParks, Wakes, HeldStill, ParkOnly, Held, AllPrepped,
               Queued

\* Laser.cpp and the suspend loop around the same buffer: whatever the parser, overrides,
\* stop characters and a reset in another task do in between, the interrupt makes no step
\* of the program while the door is open and the hold complete.
THEOREM LaserDoorHoldsStill ==
  ASSUME ~Underrun, ~HoldAtRest
  PROVE  LaserSpec => NoStepWhileDoorOpen
<1>1. LaserInit => TypeInv /\ DoorInv
  BY InitTypeInv, DoorInit DEF LaserInit
<1>2. TypeInv /\ DoorInv /\ [LaserNext]_allVars => TypeInv' /\ DoorInv'
  BY LaserSteps, NextTypeInv, DoorNext, OthersTypeInv, OthersDoorInv
<1>3. TypeInv /\ DoorInv /\ [LaserNext]_allVars
        => [sys.state = "SafetyDoor" /\ sys.holdComplete =>
              \A b \in Planned : done'[b] = done[b]]_vars
  BY LaserSteps, DoorStep, OthersDoorInv
<1> QED BY <1>1, <1>2, <1>3, PTL DEF LaserSpec, NoStepWhileDoorOpen

-----------------------------------------------------------------------------
(***************************************************************************)
(* Why a block is stepped at its own line's power.  Parser, st_prep_buffer *)
(* and interrupt hand the power on: the block keeps what its line said     *)
(* (LinesKept), its slot of st_block_buffer says whether it is in M4       *)
(* (AdjustedRight), a block that has been taken up has had its power       *)
(* computed before the request for it is withdrawn (RpmRight), each queued *)
(* segment carries a power of its block (QueuedRight) and so does the beam *)
(* while a segment is executed, unless the main task has set it meanwhile  *)
(* (BeamRight).                                                            *)
(***************************************************************************)

\* The powers a line asks for, and the data its block gets, with $32 = mode.
Allowed(mode, l) ==
  IF l.spindle = "Disable" \/ (mode /\ l.motion = "G0") THEN {0}
  ELSE IF mode /\ l.spindle = "Ccw" THEN 0..l.speed
  ELSE {l.speed}
Worked(mode, l) ==
  [spindle |-> l.spindle, speed |-> IF mode /\ l.motion = "G0" THEN 0 ELSE l.speed]

FillShape ==
  /\ laserMode \in BOOLEAN
  /\ DOMAIN fill = {"adjusted", "rpm", "seg", "update"}
  /\ fill.adjusted \in [BlkSlots -> BOOLEAN] /\ DOMAIN fill.seg = Slots
  /\ DOMAIN work = Blocks

LinesKept ==
  /\ said \in Seq(Lines) /\ Len(said) = added
  /\ \A b \in 1..added : work[b] = Worked(laserMode, said[b])

\* Every block that is still around has been buffered.
Known ==
  /\ \A i \in DOMAIN plan : plan[i] \in 1..added
  /\ plb \in Planned => plb \in 1..added
  /\ \A i \in Slots : Queued(i) /\ seg[i].owner \in Planned => seg[i].owner \in 1..added

Unparked == laserMode => ~sys.ctl.executeSysMotion /\ ~sys.parkCall

AdjustedRight ==
  /\ laserMode /\ InMaking =>
       /\ plan # <<>> /\ (fill.adjusted[prep.slot] <=> work[Head(plan)].spindle = "Ccw")
       /\ plb # NoBlock => plb = Head(plan)
  /\ ~laserMode => \A i \in BlkSlots : ~fill.adjusted[i]

RpmRight ==
  plb \in Planned /\ (pc # "seg" \/ ~fill.update) => fill.rpm \in Allowed(laserMode, said[plb])

QueuedRight ==
  /\ \A i \in Slots : Queued(i) /\ seg[i].owner \in Planned =>
                        fill.seg[i] \in Allowed(laserMode, said[seg[i].owner])
  /\ pc = "publish" /\ plb \in Planned => fill.seg[head] \in Allowed(laserMode, said[plb])

BeamRight ==
  st.loaded /\ seg[tail].owner \in Planned /\ beam.by = "segment"
    => beam.power \in Allowed(laserMode, said[seg[tail].owner])

BeamInv == /\ FillShape /\ LinesKept /\ Known /\ Unparked /\ AdjustedRight
           /\ RpmRight /\ QueuedRight /\ BeamRight

\* What a step does that takes up no block, makes no segment and loads none ...
CalmBuffer ==
  /\ UNCHANGED <<added, seg>>
  /\ plan' \in {plan, <<>>} /\ plb' \in {plb, NoBlock}
  /\ laserMode => /\ sys'.ctl.executeSysMotion => sys.ctl.executeSysMotion
                  /\ sys'.parkCall => sys.parkCall
                  /\ InMaking' => InMaking /\ prep'.slot = prep.slot /\ plan' = plan
  /\ pc = "seg" /\ plb' # NoBlock => pc' = "seg"
  /\ pc' = "publish" => pc = "publish" /\ head' = head
  /\ \A i \in Slots : Queued(i)' => Queued(i)
  /\ st'.loaded => st.loaded /\ tail' = tail

\* ... and leaves the powers alone.
CalmPowers ==
  /\ UNCHANGED <<laserMode, said>>
  /\ DOMAIN work' = DOMAIN work /\ \A b \in Planned : work'[b] = work[b]
  /\ DOMAIN fill' = DOMAIN fill /\ fill'.adjusted = fill.adjusted /\ fill'.rpm = fill.rpm
  /\ fill'.seg = fill.seg
  /\ pc = "seg" => fill' = fill
  /\ beam' = beam \/ beam'.by = "main" \/ ~st'.loaded

\* What a line of the program may say.
LEMMA LinesType ==
  \A l \in Lines : l.speed \in Nat /\ l.spindle \in Spindles
BY LinesAssumption DEF LinesAssumption

\* The numbers of the blocks of a program.
LEMMA PlannedNumbers ==
  ASSUME TypeInv
  PROVE  /\ added \in Nat /\ \A b \in 1..added : b \in Planned /\ b \in Blocks /\ b # NoBlock
         /\ Park \notin Planned /\ NoBlock \notin Planned
BY BufferAssumption
   DEF BufferAssumption, TypeInv, TypeOK, ProtocolTypes, Planned, Blocks, NoBlock, Park

\* Nothing has been buffered at power-up.
LEMMA BeamInit == LaserInit => BeamInv
<1> SUFFICES ASSUME LaserInit PROVE BeamInv
  OBVIOUS
<1>1. /\ plan = <<>> /\ added = 0 /\ plb = NoBlock /\ pc = "top" /\ head = 0 /\ tail = 0
      /\ sys = SysReset /\ prep = PrepReset /\ st = StReset /\ said = <<>>
      /\ laserMode \in BOOLEAN /\ work = [b \in Blocks |-> Off]
      /\ fill = [adjusted |-> [i \in BlkSlots |-> FALSE], rpm |-> 0,
                 seg |-> [i \in Slots |-> 0], update |-> FALSE]
  BY DEF LaserInit, Init
<1>2. \A i \in Slots : ~Queued(i)
  BY <1>1 DEF Queued, Slots
<1>3. NoBlock \notin Planned /\ ~InMaking
  BY <1>1 DEF NoBlock, Planned, InMaking, PrepReset, NoFlags
<1>4. FillShape
  BY <1>1 DEF FillShape
<1>5. LinesKept /\ Known
  BY <1>1, <1>2, <1>3 DEF LinesKept, Known
<1>6. Unparked /\ AdjustedRight
  BY <1>1, <1>3 DEF Unparked, AdjustedRight, SysReset, NoControl
<1>7. RpmRight /\ QueuedRight /\ BeamRight
  BY <1>1, <1>2, <1>3 DEF RpmRight, QueuedRight, BeamRight, StReset
<1> QED BY <1>4, <1>5, <1>6, <1>7 DEF BeamInv

\* A calm step keeps every power where it was.
LEMMA BeamCalm ==
  ASSUME TypeInv, BeamInv, CalmBuffer, CalmPowers
  PROVE  BeamInv'
<1>1. /\ FillShape /\ LinesKept /\ Known /\ Unparked /\ AdjustedRight
      /\ RpmRight /\ QueuedRight /\ BeamRight
  BY DEF BeamInv
<1>2. /\ added \in Nat /\ \A b \in 1..added : b \in Planned
      /\ NoBlock \notin Planned
  BY PlannedNumbers
<1>3. UNCHANGED <<added, seg, laserMode, said>> /\ \A b \in Planned : work'[b] = work[b]
  BY DEF CalmBuffer, CalmPowers
<1>4. FillShape'
  BY <1>1, <1>3 DEF FillShape, CalmPowers
<1>5. LinesKept'
  BY <1>1, <1>2, <1>3 DEF LinesKept
<1>6. Known'
  BY <1>1, <1>2, <1>3 DEF Known, CalmBuffer
<1>7. Unparked'
  BY <1>1, <1>3 DEF Unparked, CalmBuffer
<1>8. AdjustedRight'
  <2>1. ASSUME laserMode, InMaking'
        PROVE  /\ plan' # <<>> /\ (fill'.adjusted[prep'.slot] <=> work'[Head(plan')].spindle = "Ccw")
               /\ plb' # NoBlock => plb' = Head(plan')
    <3>1. /\ InMaking /\ prep'.slot = prep.slot /\ plan' = plan /\ plb' \in {plb, NoBlock}
          /\ fill'.adjusted = fill.adjusted
      BY <2>1 DEF CalmBuffer, CalmPowers
    <3>2. plan # <<>> /\ plan \in Seq(Planned)
      BY <1>1, <2>1, <3>1 DEF AdjustedRight, TypeInv, TypeOK, ProtocolTypes
    <3>3. Head(plan) \in Planned
      BY <3>2
    <3> QED BY <1>1, <1>3, <2>1, <3>1, <3>2, <3>3 DEF AdjustedRight
  <2>2. ~laserMode => \A i \in BlkSlots : ~fill'.adjusted[i]
    BY <1>1 DEF AdjustedRight, CalmPowers
  <2> QED BY <1>3, <2>1, <2>2 DEF AdjustedRight
<1>9. RpmRight'
  BY <1>1, <1>2, <1>3 DEF RpmRight, CalmBuffer, CalmPowers
<1>10. QueuedRight'
  BY <1>1, <1>2, <1>3 DEF QueuedRight, CalmBuffer, CalmPowers
<1>11. BeamRight'
  BY <1>1, <1>3 DEF BeamRight, CalmBuffer, CalmPowers
<1> QED BY <1>4, <1>5, <1>6, <1>7, <1>8, <1>9, <1>10, <1>11 DEF BeamInv

\* The steps of the buffer that are calm: all but those of a line, of st_prep_buffer that
\* take up, cut and publish, and of the interrupt that loads.
LEMMA CalmSteps ==
  ASSUME TypeInv, BeamInv,
         \/ UNCHANGED vars \/ Others
         \/ PrepEnter \/ PrepReturn \/ PrepKeep \/ WakeUp
         \/ CycleStart \/ DoorResume \/ FeedHold \/ SafetyDoor \/ HandleCycleStop
         \/ StartRestore \/ Reset \/ (ParkMotion /\ ~laserMode) \/ ParkRestore \/ DoorReopened
         \/ IsrEmpty
  PROVE  CalmBuffer
<1>1. /\ sys \in SysType /\ Unparked /\ PrepTypes /\ Positions
  BY DEF TypeInv, TypeOK, ProtocolTypes, BeamInv
<1> DEFINE SamePrep == UNCHANGED <<added, plan, plb, prep, seg, head, tail, st>>
           SameSys == sys'.ctl.executeSysMotion = sys.ctl.executeSysMotion
                        /\ sys'.parkCall = sys.parkCall
<1>2. SamePrep /\ SameSys /\ (pc' = pc \/ (pc # "seg" /\ pc' # "publish")) => CalmBuffer
  BY DEF CalmBuffer, InMaking, Queued
<1>3. CASE UNCHANGED vars
  BY <1>2, <1>3 DEF vars, protocolVars, prepVars, isrVars
<1>4. CASE Others
  <2>1. SamePrep /\ pc' = pc
    BY <1>4 DEF Others, protocolVars, prepVars, isrVars
  <2>2. SameSys
    <3>1. sys' = sys \/ sys' = [sys EXCEPT !.restoring = FALSE]
      BY <1>4 DEF Others, protocolVars
    <3> QED BY <1>1, <3>1 DEF SysType
  <2> QED BY <1>2, <2>1, <2>2
<1>5. CASE PrepEnter \/ PrepReturn \/ PrepKeep \/ WakeUp
  <2>1. SamePrep /\ SameSys /\ pc # "seg" /\ pc' # "publish"
    BY <1>5 DEF PrepEnter, PrepReturn, PrepKeep, WakeUp, Caller, protocolVars, isrVars
  <2> QED BY <1>2, <2>1
<1>6. CASE CycleStart \/ DoorResume
  <2>1. Start(sys) /\ pc = "top"
    BY <1>6 DEF CycleStart, DoorResume
  <2>2. SamePrep /\ pc' # "publish"
    BY <2>1 DEF Start, isrVars
  <2>3. sys'.ctl = NoControl /\ sys'.parkCall = sys.parkCall
    BY <1>1, <2>1 DEF Start, SysType
  <2> QED BY <2>1, <2>2, <2>3 DEF CalmBuffer, InMaking, Queued, NoControl
<1>7. CASE FeedHold \/ SafetyDoor \/ HandleCycleStop \/ DoorReopened
  <2>1. /\ UNCHANGED <<added, plan, seg, head, tail, st, pc>> /\ pc = "top"
        /\ StUpdate \/ UNCHANGED <<prep, plb>>
    BY <1>7 DEF FeedHold, SafetyDoor, Suspend, HandleCycleStop, DoorReopened, isrVars
  <2>2. /\ plb' \in {plb, NoBlock} /\ prep'.slot = prep.slot
        /\ InMaking' => InMaking
    BY <1>1, <2>1, UpdatedPrepEffect DEF StUpdate, InMaking
  <2>3. /\ sys'.parkCall = sys.parkCall
        /\ sys'.ctl.executeSysMotion => sys.ctl.executeSysMotion
    <3>1. CASE FeedHold \/ SafetyDoor
      <4>1. PICK s \in {"Hold", "SafetyDoor"} : Suspend(s)
        BY <3>1 DEF FeedHold, SafetyDoor
      <4>2. sys'.parkCall = sys.parkCall /\ (sys'.ctl = sys.ctl \/ ~sys'.ctl.executeSysMotion)
        BY <1>1, <4>1 DEF Suspend, SysType, NoControl
      <4> QED BY <4>2
    <3>2. CASE HandleCycleStop
      <4>1. sys'.parkCall = sys.parkCall /\ (sys'.ctl = sys.ctl \/ ~sys'.ctl.executeSysMotion)
        <5>1. CASE sys' = Stopped
          <6>1. sys'.ctl = [sys.ctl EXCEPT !.executeHold = FALSE, !.executeSysMotion = FALSE]
                /\ sys'.parkCall = sys.parkCall
            BY <1>1, <5>1 DEF Stopped, SysType, ControlType
          <6> QED BY <1>1, <6>1 DEF SysType, ControlType
        <5>2. CASE sys' = [sys EXCEPT !.state = "Idle", !.holdComplete = FALSE]
          BY <1>1, <5>2 DEF SysType
        <5> QED BY <3>2, <5>1, <5>2 DEF HandleCycleStop
      <4> QED BY <4>1
    <3>3. CASE DoorReopened
      BY <1>1, <3>3 DEF DoorReopened, SysType
    <3> QED BY <1>7, <3>1, <3>2, <3>3
  <2> QED BY <2>1, <2>2, <2>3 DEF CalmBuffer, Queued
<1>8. CASE StartRestore
  <2>1. SamePrep /\ pc' = pc
    BY <1>8 DEF StartRestore, prepVars, isrVars
  <2>2. SameSys
    BY <1>1, <1>8 DEF StartRestore, SysType
  <2> QED BY <1>2, <2>1, <2>2
<1>9. CASE Reset
  <2>1. /\ sys' = SysReset /\ plan' = <<>> /\ plb' = NoBlock /\ prep' = PrepReset /\ st' = StReset
        /\ head' = 0 /\ tail' = 0 /\ UNCHANGED <<added, seg, pc>> /\ pc = "top"
    BY <1>9 DEF Reset
  <2>2. \A i \in Slots : ~Queued(i)'
    BY <2>1 DEF Queued, Slots
  <2>3. ~InMaking' /\ ~st'.loaded /\ ~sys'.ctl.executeSysMotion /\ ~sys'.parkCall
    BY <2>1 DEF InMaking, PrepReset, NoFlags, StReset, SysReset, NoControl
  <2> QED BY <2>1, <2>2, <2>3 DEF CalmBuffer
<1>10. CASE ParkMotion /\ ~laserMode
  BY <1>10 DEF ParkMotion, CalmBuffer, Queued, isrVars
<1>11. CASE ParkRestore
  <2>1. sys.parkCall
    BY <1>11 DEF ParkRestore
  <2>2. ~laserMode
    BY <1>1, <2>1 DEF Unparked
  <2> QED BY <1>11, <2>2 DEF ParkRestore, CalmBuffer, Queued, isrVars
<1>12. CASE IsrEmpty
  BY <1>2, <1>12 DEF IsrEmpty, protocolVars, prepVars
<1> QED BY <1>3, <1>4, <1>5, <1>6, <1>7, <1>8, <1>9, <1>10, <1>11, <1>12

\* A line with a motion hands its power to a new block.
LEMMA BeamLine ==
  ASSUME TypeInv, BeamInv, NEW l \in Lines, Line(l), l.move
  PROVE  BeamInv'
<1>1. /\ FillShape /\ LinesKept /\ Known /\ Unparked /\ AdjustedRight
      /\ RpmRight /\ QueuedRight /\ BeamRight /\ PrepTypes /\ Positions
  BY DEF BeamInv, TypeInv, TypeOK
<1>2. /\ added \in Nat /\ \A b \in 1..added : b \in Planned /\ b \in Blocks
      /\ NoBlock \notin Planned /\ plan \in Seq(Planned)
  BY PlannedNumbers DEF TypeInv, TypeOK, ProtocolTypes
<1>3. /\ pc = "top" /\ added < NumBlocks /\ added' = added + 1 /\ plan' = Append(plan, added + 1)
      /\ UNCHANGED <<laserMode, fill, sys, seg, head, tail, st, pc>>
      /\ work' = [work EXCEPT ![added + 1] = Worked(laserMode, l)]
      /\ said' = Append(said, l)
      /\ UNCHANGED <<prep, plb>> \/ (plan # <<>> /\ StUpdate)
      /\ beam' = beam \/ beam'.by = "main"
  BY DEF Line, BufferLine, Worked, DataSpeed, LaserDisable, State, isrVars
<1>4. added + 1 \in Blocks /\ added + 1 \notin 1..added
  BY <1>2, <1>3, BufferAssumption DEF BufferAssumption, Blocks, Planned
<1>5. /\ said' \in Seq(Lines) /\ Len(said') = added + 1 /\ said'[added + 1] = l
      /\ \A b \in 1..added : said'[b] = said[b]
  BY <1>1, <1>2, <1>3 DEF LinesKept
<1>6. /\ DOMAIN work' = Blocks /\ work'[added + 1] = Worked(laserMode, l)
      /\ \A b \in 1..added : work'[b] = work[b]
  BY <1>1, <1>2, <1>3, <1>4 DEF FillShape
<1>7. /\ plb' \in {plb, NoBlock} /\ prep'.slot = prep.slot
      /\ InMaking' => InMaking
      /\ InMaking' /\ laserMode => plan # <<>>
  BY <1>1, <1>3, UpdatedPrepEffect DEF StUpdate, InMaking, AdjustedRight
<1>8. FillShape' /\ Unparked'
  BY <1>1, <1>3, <1>6 DEF FillShape, Unparked
<1>9. LinesKept'
  BY <1>1, <1>2, <1>3, <1>5, <1>6 DEF LinesKept
<1>10. \A b \in 1..added : b \in 1..added'
  BY <1>2, <1>3
<1>11. \A i \in DOMAIN plan' : plan'[i] \in 1..added'
  <2>1. TAKE i \in DOMAIN plan'
  <2>2. CASE i = Len(plan) + 1
    BY <1>2, <1>3, <2>2
  <2>3. CASE i # Len(plan) + 1
    <3>1. i \in DOMAIN plan /\ plan'[i] = plan[i]
      BY <1>2, <1>3, <2>3
    <3> QED BY <1>1, <1>10, <3>1 DEF Known
  <2> QED BY <2>2, <2>3
<1>12. Known'
  BY <1>1, <1>2, <1>3, <1>7, <1>10, <1>11 DEF Known, Queued
<1>13. AdjustedRight'
  <2>1. ASSUME laserMode, InMaking'
        PROVE  /\ plan' # <<>> /\ (fill'.adjusted[prep'.slot] <=> work'[Head(plan')].spindle = "Ccw")
               /\ plb' # NoBlock => plb' = Head(plan')
    <3>1. InMaking /\ plan # <<>>
      BY <1>7, <2>1
    <3>2. plan' # <<>> /\ Head(plan') = Head(plan) /\ Head(plan) = plan[1] /\ 1 \in DOMAIN plan
      BY <1>2, <1>3, <3>1
    <3>3. work'[Head(plan)] = work[Head(plan)]
      BY <1>1, <1>6, <3>2 DEF Known
    <3> QED BY <1>1, <1>3, <1>7, <2>1, <3>1, <3>2, <3>3 DEF AdjustedRight
  <2> QED BY <1>1, <1>3, <2>1 DEF AdjustedRight
<1>14. RpmRight'
  BY <1>1, <1>2, <1>3, <1>5, <1>7 DEF RpmRight, Known
<1>15. QueuedRight'
  BY <1>1, <1>2, <1>3, <1>5 DEF QueuedRight, Known, Queued
<1>16. BeamRight'
  <2>1. st.loaded => Queued(tail) /\ tail \in Slots
    BY <1>1, SlotsType DEF Positions, Queued, TypeInv, TypeOK, PrepTypes, IsrTypes
  <2> QED BY <1>1, <1>3, <1>5, <2>1 DEF BeamRight, Known
<1> QED BY <1>8, <1>9, <1>12, <1>13, <1>14, <1>15, <1>16 DEF BeamInv

\* A block that is taken up has its slot marked and its power asked for.
LEMMA BeamLoad ==
  ASSUME TypeInv, BeamInv, LoadNew \/ LoadSame
  PROVE  BeamInv'
<1>1. /\ FillShape /\ LinesKept /\ Known /\ Unparked /\ AdjustedRight
      /\ RpmRight /\ QueuedRight /\ BeamRight /\ PrepTypes /\ Positions
  BY DEF BeamInv, TypeInv, TypeOK
<1>2. /\ added \in Nat /\ \A b \in 1..added : b \in Planned
      /\ NoBlock \notin Planned /\ Park \notin Planned /\ plan \in Seq(Planned)
  BY PlannedNumbers DEF TypeInv, TypeOK, ProtocolTypes
<1>3. /\ pc = "loop" /\ pc' = "seg" /\ plb = NoBlock /\ QueryBlock # NoBlock /\ plb' = QueryBlock
      /\ UNCHANGED <<laserMode, work, said, beam, sys, plan, added, seg, head, tail, st>>
  BY DEF LoadNew, LoadSame, PrepLoadNew, PrepLoadSame, protocolVars, isrVars
<1>4. /\ fill'.update /\ fill'.rpm = fill.rpm /\ fill'.seg = fill.seg /\ DOMAIN fill' = DOMAIN fill
  BY <1>1 DEF LoadNew, LoadSame, FillShape
<1>5. \/ plb' = Park
      \/ plan # <<>> /\ plb' = Head(plan) /\ plb' \in 1..added
  <2>1. plan # <<>> => Head(plan) = plan[1] /\ 1 \in DOMAIN plan
    BY <1>2
  <2> QED BY <1>1, <1>3, <2>1 DEF QueryBlock, CurrentBlock, Known
<1>6. laserMode => plan # <<>> /\ plb' = Head(plan)
  BY <1>1, <1>3 DEF Unparked, QueryBlock, CurrentBlock
<1>7. /\ fill'.adjusted \in [BlkSlots -> BOOLEAN]
      /\ laserMode => (fill'.adjusted[prep'.slot] <=> work[Head(plan)].spindle = "Ccw")
      /\ ~laserMode => \A i \in BlkSlots : ~fill'.adjusted[i]
  <2>1. CASE LoadNew
    <3>1. /\ prep.slot \in BlkSlots /\ prep'.slot = NextBlk(prep.slot)
          /\ NextBlk(prep.slot) \in BlkSlots
      BY <1>1, <2>1, NextBlkRing DEF LoadNew, PrepLoadNew, PrepTypes, PrepType
    <3>2. fill'.adjusted = [fill.adjusted EXCEPT ![NextBlk(prep.slot)] = RateAdjusted(QueryBlock)]
      BY <1>1, <2>1 DEF LoadNew, FillShape
    <3>3. RateAdjusted(QueryBlock) \in BOOLEAN
      BY DEF RateAdjusted
    <3>4. fill'.adjusted[prep'.slot] = RateAdjusted(QueryBlock)
      BY <1>1, <3>1, <3>2 DEF FillShape
    <3>5. /\ laserMode => (RateAdjusted(QueryBlock) <=> work[Head(plan)].spindle = "Ccw")
          /\ ~laserMode => ~RateAdjusted(QueryBlock)
      BY <1>3, <1>6 DEF RateAdjusted
    <3>6. fill'.adjusted \in [BlkSlots -> BOOLEAN]
      BY <1>1, <3>1, <3>2, <3>3 DEF FillShape
    <3>7. ~laserMode => \A i \in BlkSlots : ~fill'.adjusted[i]
      BY <1>1, <3>1, <3>2, <3>5 DEF FillShape, AdjustedRight
    <3> QED BY <3>4, <3>5, <3>6, <3>7
  <2>2. CASE LoadSame
    <3>1. InMaking /\ prep'.slot = prep.slot
      BY <1>1, <2>2 DEF LoadSame, PrepLoadSame, InMaking, PrepTypes, PrepType
    <3>2. fill'.adjusted = fill.adjusted
      BY <1>1, <2>2 DEF LoadSame, FillShape
    <3> QED BY <1>1, <3>1, <3>2 DEF AdjustedRight, FillShape
  <2> QED BY <2>1, <2>2
<1>8. FillShape' /\ LinesKept' /\ Unparked'
  BY <1>1, <1>3, <1>4, <1>7 DEF FillShape, LinesKept, Unparked
<1>9. Known'
  BY <1>1, <1>2, <1>3, <1>5 DEF Known, Queued
<1>10. AdjustedRight'
  BY <1>3, <1>6, <1>7 DEF AdjustedRight
<1>11. RpmRight' /\ BeamRight'
  BY <1>1, <1>3, <1>4 DEF RpmRight, BeamRight
<1>12. QueuedRight'
  BY <1>1, <1>3, <1>4 DEF QueuedRight, Queued
<1> QED BY <1>8, <1>9, <1>10, <1>11, <1>12 DEF BeamInv

\* The power of a segment is one its line asks for, computed or remembered.
LEMMA BeamSegment ==
  ASSUME TypeInv, BeamInv, Segment
  PROVE  BeamInv'
<1>1. /\ FillShape /\ LinesKept /\ Known /\ Unparked /\ AdjustedRight
      /\ RpmRight /\ QueuedRight /\ BeamRight /\ PrepTypes /\ Positions
  BY DEF BeamInv, TypeInv, TypeOK
<1>2. NoBlock \notin Planned /\ Park \notin Planned /\ plan \in Seq(Planned)
  BY PlannedNumbers DEF TypeInv, TypeOK, ProtocolTypes
<1>3. /\ PrepSegment /\ pc = "seg" /\ pc' \in {"publish", "top", "wake"}
      /\ UNCHANGED <<laserMode, work, said, beam, plan, added, plb, head, tail, st>>
      /\ sys' = sys \/ EndMotion
  BY DEF Segment, PrepSegment, Caller, isrVars
<1>4. plb # NoBlock /\ head \in Slots /\ tail \in Slots /\ prep.slot \in BlkSlots
  BY <1>1, <1>3 DEF Positions, PrepTypes, PrepType, TypeInv, TypeOK, IsrTypes
<1>5. PICK s : seg' = [seg EXCEPT ![head] = s]
  BY <1>3 DEF PrepSegment
<1>6. /\ ~Queued(head) /\ \A i \in Slots : i # head => seg'[i] = seg[i]
      /\ \A i \in Slots : Queued(i)' <=> Queued(i)
  BY <1>1, <1>3, <1>4, <1>5, SlotsType DEF Queued, PrepTypes
<1>7. prep'.slot = prep.slot /\ (InMaking' <=> InMaking)
  <2>1. (\E d : prep' = [prep EXCEPT !.rem = d]) \/ prep' = HoldPartial(prep)
    BY <1>3 DEF PrepSegment
  <2> QED BY <1>1, <1>3, <2>1, HoldPartialEffect DEF PrepTypes, PrepType, InMaking
<1>8. ASSUME plb \in Planned
      PROVE  SegmentPowers \subseteq Allowed(laserMode, said[plb])
  <2>1. plb \in 1..added /\ said[plb] \in Lines /\ work[plb] = Worked(laserMode, said[plb])
    BY <1>1, <1>8 DEF Known, LinesKept
  <2>2. said[plb].speed \in Nat
    BY <2>1, LinesType
  <2>3. fill.adjusted[prep.slot] <=> laserMode /\ said[plb].spindle = "Ccw"
    <3>1. CASE laserMode
      <4>1. plb = Head(plan) /\ InMaking
        BY <1>1, <1>4, <3>1 DEF AdjustedRight, InMaking
      <4>2. work[plb].spindle = said[plb].spindle
        BY <2>1 DEF Worked
      <4> QED BY <1>1, <3>1, <4>1, <4>2 DEF AdjustedRight
    <3>2. CASE ~laserMode
      BY <1>1, <1>4, <3>2 DEF AdjustedRight
    <3> QED BY <3>1, <3>2
  <2> DEFINE w == Worked(laserMode, said[plb])
  <2>4. \/ SegmentPowers = {0} /\ (said[plb].spindle = "Disable" \/ fill.adjusted[prep.slot])
        \/ SegmentPowers = {w.speed} /\ said[plb].spindle # "Disable" /\ ~fill.adjusted[prep.slot]
        \/ SegmentPowers = 0..w.speed /\ said[plb].spindle # "Disable" /\ fill.adjusted[prep.slot]
    <3>1. work[plb] = w /\ w.spindle = said[plb].spindle
      BY <2>1 DEF Worked
    <3> HIDE DEF w
    <3> QED BY <3>1 DEF SegmentPowers
  <2>5. w.speed = IF laserMode /\ said[plb].motion = "G0" THEN 0 ELSE said[plb].speed
    BY DEF Worked
  <2> HIDE DEF w
  <2> QED BY <2>2, <2>3, <2>4, <2>5 DEF Allowed
<1>9. PICK p : /\ fill'.rpm = p /\ fill'.seg = [fill.seg EXCEPT ![head] = p]
               /\ plb \in Planned => p \in Allowed(laserMode, said[plb])
               /\ fill'.adjusted = fill.adjusted /\ DOMAIN fill' = DOMAIN fill
  <2>1. CASE NewPower
    <3>1. PICK p \in SegmentPowers :
            fill' = [fill EXCEPT !.rpm = p, !.seg[head] = p, !.update = FALSE]
      BY <2>1 DEF Segment
    <3> QED BY <1>1, <1>8, <3>1 DEF FillShape
  <2>2. CASE ~NewPower
    <3>1. fill' = [fill EXCEPT !.seg[head] = fill.rpm] /\ ~fill.update
      BY <2>2 DEF Segment, NewPower
    <3> QED BY <1>1, <3>1 DEF FillShape, RpmRight
  <2> QED BY <2>1, <2>2
<1>10. sys \in SysType
  BY DEF TypeInv, TypeOK, ProtocolTypes
<1>11. FillShape' /\ LinesKept'
  BY <1>1, <1>3, <1>9 DEF FillShape, LinesKept
<1>12. Known'
  BY <1>1, <1>3, <1>6 DEF Known
<1>13. Unparked'
  <2>1. /\ sys'.parkCall = sys.parkCall
        /\ sys'.ctl.executeSysMotion = sys.ctl.executeSysMotion
    BY <1>3, <1>10 DEF EndMotion, SysType, ControlType
  <2> QED BY <1>1, <1>3, <2>1 DEF Unparked
<1>14. AdjustedRight'
  BY <1>1, <1>3, <1>7, <1>9 DEF AdjustedRight
<1>15. RpmRight'
  BY <1>3, <1>9 DEF RpmRight
<1>16. /\ fill'.seg[head] = fill'.rpm
       /\ \A i \in Slots : i # head => fill'.seg[i] = fill.seg[i]
  BY <1>1, <1>4, <1>9 DEF FillShape
<1>17. QueuedRight'
  BY <1>1, <1>3, <1>6, <1>9, <1>16 DEF QueuedRight
<1>18. BeamRight'
  BY <1>1, <1>3, <1>4, <1>6 DEF BeamRight, Positions
<1> QED BY <1>11, <1>12, <1>13, <1>14, <1>15, <1>17, <1>18 DEF BeamInv

\* A published segment has the power it was cut with.
LEMMA BeamPublish ==
  ASSUME TypeInv, BeamInv, PublishMore \/ PublishLast \/ PublishBlockEnd, UNCHANGED laserVars
  PROVE  BeamInv'
<1>1. /\ FillShape /\ LinesKept /\ Known /\ Unparked /\ AdjustedRight
      /\ RpmRight /\ QueuedRight /\ BeamRight /\ PrepTypes /\ Positions
  BY DEF BeamInv, TypeInv, TypeOK
<1>2. plan \in Seq(Planned) /\ sys \in SysType
  BY DEF TypeInv, TypeOK, ProtocolTypes
<1>3. /\ Publish /\ pc = "publish" /\ pc' \in {"loop", "top", "wake"}
      /\ UNCHANGED <<laserMode, work, said, beam, fill, added, seg, tail, st>>
      /\ sys' = sys \/ EndMotion
      /\ (plb' = plb /\ plan' = plan) \/ plb' = NoBlock
      /\ plan' = plan \/ (plan # <<>> /\ plan' = Tail(plan))
      /\ prep' = Cut \/ prep' = HoldPartial(Cut)
  BY DEF PublishMore, PublishLast, PublishBlockEnd, Publish, Caller, isrVars, laserVars
<1>4. plb # NoBlock /\ seg[head].owner = plb /\ ~prep.flag.recalculate
  BY <1>1, <1>3 DEF Positions
<1>5. \A i \in Slots : Queued(i)' => i = head \/ Queued(i)
  BY <1>3, PublishQueue
<1>6. prep'.slot = prep.slot /\ ~prep'.flag.recalculate
  BY <1>1, <1>3, <1>4, CutEffect, HoldPartialEffect
<1>7. \A i \in DOMAIN plan' : plan'[i] \in 1..added
  <2>1. TAKE i \in DOMAIN plan'
  <2>2. \E k \in DOMAIN plan : plan'[i] = plan[k]
    <3>1. CASE plan' = plan
      BY <2>1, <3>1
    <3>2. CASE plan # <<>> /\ plan' = Tail(plan)
      <4>1. i + 1 \in DOMAIN plan /\ plan'[i] = plan[i + 1]
        BY <1>2, <2>1, <3>2
      <4> QED BY <4>1
    <3> QED BY <1>3, <3>1, <3>2
  <2> QED BY <1>1, <2>2 DEF Known
<1>8. FillShape' /\ LinesKept'
  BY <1>1, <1>3 DEF FillShape, LinesKept
<1>9. NoBlock \notin Planned
  BY PlannedNumbers
<1>10. Known'
  BY <1>1, <1>3, <1>4, <1>5, <1>7, <1>9 DEF Known
<1>11. Unparked'
  <2>1. /\ sys'.parkCall = sys.parkCall
        /\ sys'.ctl.executeSysMotion = sys.ctl.executeSysMotion
    BY <1>2, <1>3 DEF EndMotion, SysType, ControlType
  <2> QED BY <1>1, <1>3, <2>1 DEF Unparked
<1>12. AdjustedRight'
  BY <1>1, <1>3, <1>4, <1>6 DEF AdjustedRight, InMaking
<1>13. RpmRight'
  BY <1>1, <1>3, <1>9 DEF RpmRight
<1>14. QueuedRight'
  BY <1>1, <1>3, <1>4, <1>5, <1>9 DEF QueuedRight
<1>15. BeamRight'
  BY <1>1, <1>3 DEF BeamRight
<1> QED BY <1>8, <1>10, <1>11, <1>12, <1>13, <1>14, <1>15 DEF BeamInv

\* The interrupt sets the beam with the segment it loads, and makes its steps with it.
LEMMA BeamIsr ==
  ASSUME TypeInv, BeamInv, Step
  PROVE  /\ BeamInv'
         /\ \A b \in Planned : done'[b] # done[b] /\ beam'.by = "segment"
                                => b \in 1..added /\ beam'.power \in Allowed(laserMode, said[b])
<1>1. /\ FillShape /\ LinesKept /\ Known /\ Unparked /\ AdjustedRight
      /\ RpmRight /\ QueuedRight /\ BeamRight /\ PrepTypes /\ Positions
  BY DEF BeamInv, TypeInv, TypeOK
<1>2. /\ UNCHANGED <<laserMode, work, said, fill, sys, plan, added, plb, prep, seg, head, pc>>
      /\ tail' = tail \/ tail' = NextSlot(tail)
      /\ st'.loaded => tail' = tail
      /\ beam' = IF st.loaded THEN beam ELSE [power |-> fill.seg[tail], by |-> "segment"]
      /\ \E r : done' = [done EXCEPT ![seg[tail].owner] = r]
  <2>1. /\ IsrStep /\ UNCHANGED <<laserMode, work, said, fill>>
        /\ beam' = IF st.loaded THEN beam ELSE [power |-> fill.seg[tail], by |-> "segment"]
    BY DEF Step
  <2> DEFINE count == (Loaded.count - 1) % U16
  <2>2. /\ UNCHANGED <<sys, plan, added, plb, prep, seg, head, pc>>
        /\ tail' = IF count = 0 THEN NextSlot(tail) ELSE tail
        /\ \E r : done' = [done EXCEPT ![seg[tail].owner] = r]
    BY <2>1 DEF IsrStep, prepVars
  <2>3. st'.loaded = (count # 0)
    <3>1. \E c : st' = [Loaded EXCEPT !.count = count, !.loaded = (count # 0), !.counter = c]
      BY <2>1 DEF IsrStep
    <3>2. DOMAIN Loaded = {"loaded", "slot", "count", "counter"}
      BY DEF Loaded, TypeInv, TypeOK, IsrTypes, StType
    <3> HIDE DEF count
    <3> QED BY <3>1, <3>2
  <2> HIDE DEF count
  <2> QED BY <2>1, <2>2, <2>3
<1>3. tail # head /\ Queued(tail) /\ tail \in Slots
  BY <1>1, SlotsType DEF Step, IsrStep, Positions, Queued, TypeInv, TypeOK, PrepTypes, IsrTypes
<1>4. \A i \in Slots : Queued(i)' => Queued(i)
  BY <1>2, <1>3, ConsumeQueue DEF Queued
<1>5. seg[tail].owner \in Planned /\ beam'.by = "segment"
        => /\ seg[tail].owner \in 1..added
           /\ beam'.power \in Allowed(laserMode, said[seg[tail].owner])
  BY <1>1, <1>2, <1>3 DEF QueuedRight, BeamRight, Known
<1>6. FillShape' /\ LinesKept' /\ Unparked' /\ AdjustedRight' /\ RpmRight'
  BY <1>1, <1>2 DEF FillShape, LinesKept, Unparked, AdjustedRight, RpmRight, InMaking
<1>7. Known' /\ QueuedRight'
  BY <1>1, <1>2, <1>4 DEF Known, QueuedRight
<1>8. BeamRight'
  BY <1>2, <1>5 DEF BeamRight
<1>9. \A b \in Planned : done'[b] # done[b] => b = seg[tail].owner
  <2>1. done \in [Blocks -> [major: Nat, minor: Nat]]
    BY DEF TypeInv, TypeOK, ProtocolTypes
  <2> QED BY <1>2, <2>1, BlocksType
<1> QED BY <1>5, <1>6, <1>7, <1>8, <1>9 DEF BeamInv

\* The same number of steps before and after every step but the interrupt's.
LEMMA OnlyIsrSteps ==
  UNCHANGED vars \/ Others \/ Prep \/ Protocol \/ IsrEmpty => UNCHANGED done
<1>1. Others => UNCHANGED done
  BY DEF Others, protocolVars
<1>2. UNCHANGED vars => UNCHANGED done
  BY DEF vars, protocolVars
<1>3. Prep => UNCHANGED done
  BY DEF Prep, protocolVars, PrepEnter, PrepReturn, PrepLoadNew, PrepLoadSame, PrepKeep, PrepSegment,
         Publish, PublishMore, PublishLast, PublishBlockEnd, WakeUp
<1>4. Protocol => UNCHANGED done
  BY DEF Protocol, Handlers, Parking, BufferLine, CycleStart, DoorResume, Start, FeedHold, SafetyDoor,
         Suspend, HandleCycleStop, StartRestore, Reset, ParkMotion, ParkRestore, DoorReopened
<1>5. IsrEmpty => UNCHANGED done
  BY DEF IsrEmpty, protocolVars
<1> QED BY <1>1, <1>2, <1>3, <1>4, <1>5

\* The steps of Laser that hand no power on are calm.
LEMMA LaserCalm ==
  ASSUME TypeInv, BeamInv,
         \/ \E l \in Lines : Line(l) /\ ~l.move
         \/ Fill /\ (PrepEnter \/ PrepReturn \/ PrepKeep \/ WakeUp)
         \/ Empty \/ Hold \/ Resume \/ ResumeStopped \/ ResumeBlocked \/ CycleStopped
         \/ Restoring \/ Reopened \/ QuietPass \/ Override \/ StopCharacter
         \/ EnterSuspend \/ HoldTurn \/ Deenergize \/ Reenergize \/ DoorTurn
         \/ Parks \/ Parked \/ ResetStops \/ ResetKills \/ Abort \/ Cleared
  PROVE  CalmBuffer /\ CalmPowers
<1>1. DOMAIN fill = {"adjusted", "rpm", "seg", "update"} /\ DOMAIN work = Blocks
  BY DEF BeamInv, FillShape
<1> DEFINE Same == UNCHANGED <<laserMode, said, work>>
           Updated == \/ fill' = fill
                      \/ pc = "top" /\ \E u : fill' = [fill EXCEPT !.update = u]
           Lit == beam' = beam \/ beam'.by = "main" \/ ~st'.loaded
<1>2. Same /\ Updated /\ Lit => CalmPowers
  <2> SUFFICES ASSUME Same, Updated, Lit PROVE CalmPowers
    OBVIOUS
  <2>1. /\ DOMAIN fill' = DOMAIN fill /\ fill'.adjusted = fill.adjusted
        /\ fill'.rpm = fill.rpm /\ fill'.seg = fill.seg
    BY <1>1
  <2> QED BY <2>1 DEF CalmPowers
<1>3. CASE \E l \in Lines : Line(l) /\ ~l.move
  <2>1. UNCHANGED vars /\ Same /\ Updated /\ Lit
    BY <1>3 DEF Line, State
  <2> QED BY <1>2, <2>1, CalmSteps
<1>4. CASE Fill /\ (PrepEnter \/ PrepReturn \/ PrepKeep \/ WakeUp)
  <2>1. Same /\ Updated /\ Lit
    BY <1>4 DEF Fill, laserVars
  <2> QED BY <1>2, <1>4, <2>1, CalmSteps
<1>5. CASE Empty
  <2>1. IsrEmpty /\ ~st'.loaded /\ Same /\ Updated
    BY <1>5 DEF Empty, IsrEmpty
  <2> QED BY <1>2, <2>1, CalmSteps
<1>6. CASE Hold \/ CycleStopped \/ Restoring
  <2>1. /\ FeedHold \/ SafetyDoor \/ HandleCycleStop \/ StartRestore
        /\ Same /\ Updated /\ Lit
    BY <1>6 DEF Hold, CycleStopped, Restoring, FeedHold, SafetyDoor
  <2> QED BY <1>2, <2>1, CalmSteps
<1>7. CASE Resume
  <2>1. (CycleStart \/ DoorResume) /\ Same /\ Updated /\ Lit
    BY <1>7 DEF Resume, CycleStart, DoorResume
  <2> QED BY <1>2, <2>1, CalmSteps
<1>8. CASE Reopened
  <2>1. (DoorReopened \/ Others) /\ Same /\ Lit
    BY <1>8 DEF Reopened, Others
  <2>2. Updated
    BY <1>8 DEF Reopened, DoorReopened
  <2> QED BY <1>2, <2>1, <2>2, CalmSteps
<1>9. CASE ResumeStopped \/ ResumeBlocked \/ QuietPass \/ StopCharacter \/ EnterSuspend \/ DoorTurn
  <2>1. UNCHANGED vars /\ Same /\ Updated /\ Lit
    BY <1>9 DEF ResumeStopped, ResumeBlocked, QuietPass, StopCharacter, EnterSuspend, DoorTurn
  <2> QED BY <1>2, <2>1, CalmSteps
<1>10. CASE Override
  <2>1. UNCHANGED vars /\ Same /\ Updated /\ Lit
    BY <1>10 DEF Override, State
  <2> QED BY <1>2, <2>1, CalmSteps
<1>11. CASE HoldTurn \/ Reenergize
  <2>1. UNCHANGED vars /\ Same /\ pc = "top"
    BY <1>11 DEF HoldTurn, Reenergize, Due, Main
  <2>2. Updated
    BY <1>11, <2>1 DEF HoldTurn, Reenergize, PowerRestored
  <2>3. Lit
    BY <1>11 DEF HoldTurn, Reenergize, PowerRestored, State, Dark
  <2> QED BY <1>2, <2>1, <2>2, <2>3, CalmSteps
<1>12. CASE Deenergize \/ ResetStops \/ Abort
  <2>1. UNCHANGED vars /\ Same /\ Updated /\ Lit
    BY <1>12 DEF Deenergize, ResetStops, Abort, Dark
  <2> QED BY <1>2, <2>1, CalmSteps
<1>13. CASE Parks
  <2>1. ParkMotion /\ ~laserMode /\ UNCHANGED <<laserMode, said, fill, beam>>
    BY <1>13 DEF Parks
  <2>2. DOMAIN work' = DOMAIN work /\ \A b \in Planned : work'[b] = work[b]
    <3>1. \E w : work' = [work EXCEPT ![Park] = w]
      BY <1>13 DEF Parks
    <3>2. Planned \subseteq Blocks /\ Park \notin Planned
      BY BlocksType, PlannedNumbers
    <3> QED BY <1>1, <3>1, <3>2
  <2>3. CalmPowers
    BY <2>1, <2>2 DEF CalmPowers
  <2> QED BY <2>1, <2>3, CalmSteps
<1>14. CASE Parked
  <2>1. ParkRestore /\ Same /\ Updated /\ Lit
    BY <1>14 DEF Parked, laserVars
  <2> QED BY <1>2, <2>1, CalmSteps
<1>15. CASE ResetKills
  <2>1. Others /\ Same /\ Updated /\ Lit
    BY <1>15 DEF ResetKills, Others
  <2> QED BY <1>2, <2>1, CalmSteps
<1>16. CASE Cleared
  <2>1. Reset /\ Same /\ Updated /\ Lit
    BY <1>16 DEF Cleared
  <2> QED BY <1>2, <2>1, CalmSteps
<1> QED BY <1>3, <1>4, <1>5, <1>6, <1>7, <1>8, <1>9, <1>10, <1>11, <1>12, <1>13, <1>14, <1>15, <1>16

\* Every step of Laser keeps the invariant.
LEMMA BeamNext == TypeInv /\ BeamInv /\ [LaserNext]_allVars => BeamInv'
<1> SUFFICES ASSUME TypeInv, BeamInv, [LaserNext]_allVars PROVE BeamInv'
  OBVIOUS
<1>1. CASE UNCHANGED allVars
  <2>1. CalmBuffer
    BY <1>1, CalmSteps DEF allVars
  <2>2. CalmPowers
    BY <1>1 DEF allVars, laserVars, CalmPowers
  <2> QED BY <2>1, <2>2, BeamCalm
<1>2. CASE LaserNext
  <2>1. \A l \in Lines : Line(l) => BeamInv'
    <3> TAKE l \in Lines
    <3>1. Line(l) /\ l.move => BeamInv'
      BY BeamLine
    <3>2. Line(l) /\ ~l.move => BeamInv'
      BY LaserCalm, BeamCalm
    <3> QED BY <3>1, <3>2
  <2>2. Fill => BeamInv'
    <3>1. Fill => UNCHANGED laserVars
      BY DEF Fill
    <3>2. Fill => PrepEnter \/ PrepReturn \/ PrepKeep \/ WakeUp \/ PublishMore \/ PublishLast
                  \/ PublishBlockEnd
      BY DEF Fill
    <3>3. Fill /\ (PrepEnter \/ PrepReturn \/ PrepKeep \/ WakeUp) => BeamInv'
      BY LaserCalm, BeamCalm
    <3> QED BY <3>1, <3>2, <3>3, BeamPublish
  <2>3. LoadNew \/ LoadSame \/ Segment \/ Step => BeamInv'
    BY BeamLoad, BeamSegment, BeamIsr
  <2>4. Empty \/ Hold \/ Resume \/ ResumeStopped \/ ResumeBlocked \/ CycleStopped \/ Restoring
        \/ Reopened \/ QuietPass \/ Override \/ StopCharacter \/ EnterSuspend \/ HoldTurn
        \/ Deenergize \/ Reenergize \/ DoorTurn \/ Parks \/ Parked \/ ResetStops \/ ResetKills
        \/ Abort \/ Cleared => BeamInv'
    BY LaserCalm, BeamCalm
  <2> QED BY <1>2, <2>1, <2>2, <2>3, <2>4 DEF LaserNext
<1> QED BY <1>1, <1>2

\* What the invariant allows is what BeamOfBlock asks for.
LEMMA AllowedProgrammed == \A b \in Planned : Programmed(b) = Allowed(laserMode, said[b])
BY DEF Programmed, Allowed

\* GCode.cpp, st_prep_buffer, the interrupt and the suspend loop together: each step of a
\* block is made at a power of that block's own line, for every program, ring size and
\* number of holds, doors, overrides, parking motions and resets, with M3, M4 or M5, in
\* laser mode or not, also where the buffer runs dry or a hold comes at rest.
THEOREM BlockOwnsBeam == LaserSpec => BeamOfBlock
<1>1. LaserInit => TypeInv /\ BeamInv
  BY InitTypeInv, BeamInit DEF LaserInit
<1>2. TypeInv /\ BeamInv /\ [LaserNext]_allVars => TypeInv' /\ BeamInv'
  BY LaserSteps, NextTypeInv, OthersTypeInv, BeamNext
<1>3. TypeInv /\ BeamInv /\ [LaserNext]_allVars
        => [\A b \in Planned : done'[b] # done[b] /\ beam'.by = "segment"
                                => beam'.power \in Programmed(b)]_allVars
  <2> SUFFICES ASSUME TypeInv, BeamInv, LaserNext
               PROVE  \A b \in Planned : done'[b] # done[b] /\ beam'.by = "segment"
                                => beam'.power \in Programmed(b)
    OBVIOUS
  <2>1. CASE Step
    BY <2>1, BeamIsr, AllowedProgrammed
  <2>2. CASE ~Step
    BY <2>2, LaserSteps, OnlyIsrSteps
  <2> QED BY <2>1, <2>2
<1> QED BY <1>1, <1>2, <1>3, PTL DEF LaserSpec, BeamOfBlock

-----------------------------------------------------------------------------
(***************************************************************************)
(* Why the laser is not left burning at one point.  The parser waits for   *)
(* the blocks before a change of the spindle, so everything that is        *)
(* planned, in the making or queued has the spindle of the parser          *)
(* (OneSpindle).  With M5 there is therefore no power anywhere: not in the *)
(* ring, not in the power that the next segment would take over, not in    *)
(* what the suspend loop would restore (Quiet).  With M4 every queued      *)
(* segment is marked for the interrupt to switch the beam off behind it    *)
(* (Dimmed).  A hold that the suspend loop is in stands still, so only the *)
(* loop itself can light the beam: HoldDark follows the spindle stop       *)
(* through its states, DoorDark says that nothing undoes a door's.  What   *)
(* would break these, one of Causes, is recorded in excused.               *)
(***************************************************************************)

\* What sys keeps when st_prep_buffer, a line or the interrupt is at work.
SameSys ==
  /\ sys'.state = sys.state /\ sys'.holdComplete = sys.holdComplete
  /\ sys'.parkCall = sys.parkCall /\ sys'.restoring = sys.restoring
  /\ (sys'.ctl.executeSysMotion <=> sys.ctl.executeSysMotion)
  /\ (sys'.ctl.executeHold <=> sys.ctl.executeHold)

\* st_prep_buffer tells sys no more than the end of the motion.
LEMMA PrepSys ==
  ASSUME TypeInv, Prep \/ IsrStep \/ IsrEmpty \/ BufferLine \/ UNCHANGED vars
  PROVE  SameSys
<1>1. sys \in SysType
  BY DEF TypeInv, TypeOK, ProtocolTypes
<1>2. sys' = sys \/ EndMotion
  BY DEF Prep, PrepEnter, PrepReturn, PrepLoadNew, PrepLoadSame, PrepKeep, PrepSegment,
         PublishMore, PublishLast, PublishBlockEnd, WakeUp, IsrStep, IsrEmpty, BufferLine, vars,
         protocolVars
<1>3. CASE sys' = sys
  BY <1>3 DEF SameSys
<1>4. CASE EndMotion
  BY <1>1, <1>4 DEF SameSys, EndMotion, SysType, ControlType
<1> QED BY <1>2, <1>3, <1>4

\* A start ends the hold and the restore motions.
LEMMA StartSys ==
  ASSUME TypeInv, DoorInv, CycleStart \/ DoorResume
  PROVE  /\ pc = "top" /\ sys'.state \in {"Idle", "Cycle"} /\ ~sys'.holdComplete
         /\ ~sys.ctl.executeSysMotion /\ ~sys'.ctl.executeSysMotion
         /\ UNCHANGED <<plan, plb, timer, isrVars, head, seg>>
<1>1. Running /\ DoorParks /\ sys \in SysType
  BY DEF DoorInv, TypeInv, TypeOK, ProtocolTypes
<1>2. Start(sys) /\ pc = "top" /\ ~sys.ctl.executeSysMotion
  BY <1>1 DEF CycleStart, DoorResume, Running, DoorParks, Held
<1>3. /\ sys'.state \in {"Idle", "Cycle"} /\ ~sys'.holdComplete /\ sys'.ctl = NoControl
  BY <1>1, <1>2 DEF Start, SysType
<1> QED BY <1>2, <1>3 DEF NoControl, Start, isrVars

\* A hold comes to a cycle, a door also to a hold, and neither completes at once.
LEMMA HoldSys ==
  ASSUME TypeInv, DoorInv, ~HoldAtRest, FeedHold \/ SafetyDoor
  PROVE  /\ pc = "top" /\ UNCHANGED isrVars
         /\ \/ sys.state = "Cycle" /\ sys'.state \in {"Hold", "SafetyDoor"} /\ StUpdate
            \/ sys.state = "Hold" /\ sys'.state = "SafetyDoor" /\ UNCHANGED <<prep, plb>>
         /\ sys'.holdComplete = sys.holdComplete /\ UNCHANGED plan
         /\ (sys'.ctl.executeSysMotion <=> sys.ctl.executeSysMotion)
<1>1. Running /\ DoorParks /\ sys \in SysType
  BY DEF DoorInv, TypeInv, TypeOK, ProtocolTypes
<1>2. CASE FeedHold
  <2>1. Suspend("Hold") /\ sys.state = "Cycle" /\ pc = "top"
    BY <1>2 DEF FeedHold, Suspendable
  <2>2. /\ sys'.state = "Hold" /\ sys'.holdComplete = sys.holdComplete
        /\ sys'.ctl = [NoControl EXCEPT !.executeHold = TRUE]
    BY <1>1, <2>1 DEF Suspend, SysType
  <2>3. ~sys'.ctl.executeSysMotion /\ ~sys.ctl.executeSysMotion
    BY <1>1, <2>1, <2>2 DEF NoControl, Running, Held
  <2> QED BY <2>1, <2>2, <2>3 DEF Suspend
<1>3. CASE SafetyDoor
  <2>1. Suspend("SafetyDoor") /\ sys.state \in {"Cycle", "Hold"} /\ pc = "top"
    BY <1>3 DEF SafetyDoor, Suspendable
  <2>2. /\ sys'.state = "SafetyDoor" /\ sys'.holdComplete = sys.holdComplete
        /\ sys.state = "Hold" => sys'.ctl = sys.ctl
        /\ sys.state = "Cycle" => sys'.ctl = [NoControl EXCEPT !.executeHold = TRUE]
    BY <1>1, <2>1 DEF Suspend, SysType
  <2>3. (sys'.ctl.executeSysMotion <=> sys.ctl.executeSysMotion)
    BY <1>1, <2>1, <2>2 DEF NoControl, Running, Held
  <2> QED BY <2>1, <2>2, <2>3 DEF Suspend
<1> QED BY <1>2, <1>3

\* The cycle stop completes a hold, or leaves it as it is.
LEMMA CycleStopSys ==
  ASSUME TypeInv, DoorInv, HandleCycleStop
  PROVE  /\ pc = "top" /\ UNCHANGED <<plan, tail, st, timer>> /\ cycle_stop
         /\ Held => /\ sys'.state = sys.state /\ (sys.holdComplete => sys'.holdComplete)
                    /\ plb' = NoBlock
                    /\ sys'.ctl.executeSysMotion => sys.ctl.executeSysMotion
         /\ ~Held => /\ sys'.state = "Idle" /\ UNCHANGED plb
                     /\ (sys'.ctl.executeSysMotion <=> sys.ctl.executeSysMotion)
<1>1. sys \in SysType
  BY DEF TypeInv, TypeOK, ProtocolTypes
<1>2. CASE Held
  <2>1. sys' = Stopped /\ plb' = NoBlock
    BY <1>2 DEF HandleCycleStop, Held, StUpdate
  <2>2. sys'.state = sys.state /\ (sys.holdComplete => sys'.holdComplete)
    BY <1>1, <2>1 DEF Stopped, SysType
  <2>3. ~sys'.ctl.executeSysMotion
    <3>1. sys'.ctl = [sys.ctl EXCEPT !.executeHold = FALSE, !.executeSysMotion = FALSE]
      BY <1>1, <2>1 DEF Stopped, SysType, ControlType
    <3> QED BY <1>1, <3>1 DEF SysType, ControlType
  <2> QED BY <1>2, <2>1, <2>2, <2>3 DEF HandleCycleStop
<1>3. CASE ~Held
  <2>1. sys' = [sys EXCEPT !.state = "Idle", !.holdComplete = FALSE] /\ UNCHANGED plb
    BY <1>3 DEF HandleCycleStop, Held
  <2> QED BY <1>1, <1>3, <2>1 DEF HandleCycleStop, SysType
<1> QED BY <1>2, <1>3

\* A door that opens again holds the motion of the restore in turn.
LEMMA ReopenedSys ==
  ASSUME TypeInv, DoorInv, DoorReopened
  PROVE  /\ sys.state = "SafetyDoor" /\ sys'.state = sys.state /\ UNCHANGED <<plan, tail, st, timer>>
         /\ sys'.ctl.executeSysMotion <=> sys.ctl.executeSysMotion
         /\ plb' = NoBlock
<1>1. sys \in SysType /\ DoorParks
  BY DEF DoorInv, TypeInv, TypeOK, ProtocolTypes
<1>2. sys.state = "SafetyDoor"
  BY <1>1 DEF DoorReopened, DoorParks
<1> QED BY <1>1, <1>2 DEF DoorReopened, SysType, isrVars, StUpdate

\* The rest of what happens behind the door keeps the state.
LEMMA DoorSys ==
  ASSUME TypeInv, StartRestore \/ Others \/ ParkRestore
  PROVE  /\ sys'.state = sys.state /\ UNCHANGED <<plan, tail, st>>
         /\ sys'.holdComplete = sys.holdComplete
         /\ sys'.ctl.executeSysMotion <=> sys.ctl.executeSysMotion
         /\ timer' => timer
         /\ plb' \in {plb, NoBlock}
<1>1. sys \in SysType
  BY DEF TypeInv, TypeOK, ProtocolTypes
<1>2. CASE StartRestore
  <2>1. sys' = [sys EXCEPT !.restoring = TRUE] /\ UNCHANGED <<plan, plb, isrVars>>
    BY <1>2 DEF StartRestore, prepVars
  <2> QED BY <1>1, <2>1 DEF SysType, isrVars
<1>3. CASE Others
  <2>1. CASE sys' = [sys EXCEPT !.restoring = FALSE] /\ UNCHANGED <<plan, prepVars, isrVars>>
    BY <1>1, <2>1 DEF SysType, prepVars, isrVars
  <2>2. CASE timer' \in {timer, FALSE} /\ UNCHANGED <<protocolVars, prepVars, tail, st>>
    <3>1. timer' => timer
      BY <2>2
    <3>2. UNCHANGED <<sys, plan, plb, tail, st>>
      BY <2>2 DEF protocolVars, prepVars
    <3> QED BY <1>1, <3>1, <3>2
  <2> QED BY <1>3, <2>1, <2>2 DEF Others
<1>4. CASE ParkRestore
  <2>1. /\ sys' = [sys EXCEPT !.parkCall = FALSE] /\ plb' = NoBlock /\ UNCHANGED <<plan, isrVars>>
    BY <1>4 DEF ParkRestore
  <2> QED BY <1>1, <2>1 DEF SysType, isrVars
<1> QED BY <1>2, <1>3, <1>4

\* So does the call of a parking motion.
LEMMA ParkSys ==
  ASSUME TypeInv, ParkMotion
  PROVE  /\ sys'.state = sys.state /\ UNCHANGED <<plan, isrVars>>
         /\ sys'.holdComplete = sys.holdComplete
         /\ sys.state = "SafetyDoor" /\ sys.holdComplete /\ plb' = NoBlock
<1>1. sys \in SysType
  BY DEF TypeInv, TypeOK, ProtocolTypes
<1>2. /\ sys' = [sys EXCEPT !.ctl.executeSysMotion = TRUE, !.ctl.endMotion = FALSE,
                            !.parkCall = TRUE]
      /\ sys.state = "SafetyDoor" /\ sys.holdComplete
      /\ plb' = NoBlock /\ UNCHANGED <<plan, isrVars>>
  BY DEF ParkMotion
<1> QED BY <1>1, <1>2 DEF SysType

\* st_prep_buffer works on the parking motion, or on the first block of the plan.
PlbRight ==
  /\ plb = Park => sys.ctl.executeSysMotion
  /\ plb \in Planned => plan # <<>> /\ plb = Head(plan)

\* A start, a hold and a parking motion take the block from st_prep_buffer, or leave both.
LEMMA PlbStep ==
  ASSUME TypeInv, DoorInv, PlbRight, ~HoldAtRest, [Next]_vars \/ Others
  PROVE  PlbRight'
<1>1. /\ plan \in Seq(Planned) /\ NoBlock \notin Planned /\ Park \notin Planned /\ NoBlock # Park
      /\ plb \in Blocks \cup {NoBlock}
  BY PlannedNumbers DEF TypeInv, TypeOK, ProtocolTypes, PrepTypes, NoBlock, Park
<1>2. UNCHANGED plan /\ plb' \in {plb, NoBlock}
        /\ ((sys'.ctl.executeSysMotion <=> sys.ctl.executeSysMotion) \/ plb' = NoBlock) => PlbRight'
  BY <1>1 DEF PlbRight
<1>3. CASE UNCHANGED vars
  BY <1>2, <1>3, PrepSys DEF SameSys, vars, protocolVars, prepVars
<1>4. CASE PrepEnter \/ PrepReturn \/ PrepKeep \/ PrepSegment \/ WakeUp \/ PublishMore \/ PublishLast
  <2>1. UNCHANGED <<plan, plb>>
    BY <1>4 DEF PrepEnter, PrepReturn, PrepKeep, PrepSegment, WakeUp, PublishMore, PublishLast,
                protocolVars
  <2> QED BY <1>2, <1>4, <2>1, PrepSys DEF SameSys, Prep
<1>5. CASE PrepLoadNew \/ PrepLoadSame
  <2>1. /\ plb' = QueryBlock /\ UNCHANGED <<sys, plan>>
    BY <1>5 DEF PrepLoadNew, PrepLoadSame, protocolVars
  <2> QED BY <1>1, <2>1 DEF PlbRight, QueryBlock, CurrentBlock
<1>6. CASE PublishBlockEnd
  BY <1>1, <1>6 DEF PublishBlockEnd, PlbRight
<1>7. CASE BufferLine
  <2>1. /\ UNCHANGED sys /\ plan' = Append(plan, added + 1) /\ plb' \in {plb, NoBlock}
    BY <1>7 DEF BufferLine, StUpdate
  <2>2. plan # <<>> => plan' # <<>> /\ Head(plan') = Head(plan)
    BY <1>1, <2>1
  <2> QED BY <1>1, <2>1, <2>2 DEF PlbRight
<1>8. CASE CycleStart \/ DoorResume
  BY <1>1, <1>2, <1>8, StartSys
<1>9. CASE FeedHold \/ SafetyDoor
  BY <1>1, <1>2, <1>9, HoldSys DEF StUpdate
<1>10. CASE HandleCycleStop
  BY <1>1, <1>2, <1>10, CycleStopSys
<1>11. CASE StartRestore \/ DoorReopened \/ Others \/ ParkMotion \/ ParkRestore
  BY <1>1, <1>2, <1>11, DoorSys, ReopenedSys, ParkSys
<1>12. CASE Reset
  BY <1>1, <1>12 DEF Reset, PlbRight
<1>13. CASE IsrStep \/ IsrEmpty
  <2>1. UNCHANGED <<plan, plb>>
    BY <1>13 DEF IsrStep, IsrEmpty, prepVars, protocolVars
  <2> QED BY <1>2, <1>13, <2>1, PrepSys DEF SameSys
<1> QED BY <1>3, <1>4, <1>5, <1>6, <1>7, <1>8, <1>9, <1>10, <1>11, <1>12, <1>13
        DEF Next, Prep, Protocol, Handlers, Parking, Interrupt

-----------------------------------------------------------------------------
\* Neither a reset nor a line has come in between a cycle and its last segments.
Clean == excused \cap Lasting = {}

\* What the variables of the laser cannot do in a step.
LEMMA LaserFrame ==
  ASSUME [LaserNext]_allVars
  PROVE  /\ Clean' => Clean
         /\ excused' = {} => excused = {} \/ Resume
         /\ excused \subseteq Causes => excused' \subseteq Causes
         /\ gc' = gc \/ Abort \/ \E l \in Lines : Line(l)
         /\ reset = "aborting" => reset' = "aborting" \/ Cleared
         /\ reset' = "no" => reset = "no" \/ Cleared
         /\ reset' = "aborting" => reset = "aborting" \/ Abort
<1> DEFINE Grows == excused \subseteq excused' /\ (excused \subseteq Causes => excused' \subseteq Causes)
           SameGc == gc' = gc
           SameReset == reset' = reset
<1>1. (Grows \/ Resume) => /\ Clean' => Clean
                           /\ excused' = {} => excused = {} \/ Resume
                           /\ excused \subseteq Causes => excused' \subseteq Causes
  <2>1. Resume => excused' = excused \cap Lasting
    BY DEF Resume
  <2> QED BY <2>1 DEF Clean
<1>2. CASE UNCHANGED allVars
  BY <1>1, <1>2 DEF allVars, laserVars
<1>3. ASSUME NEW l \in Lines, Line(l)
      PROVE  Grows /\ SameReset /\ reset # "aborting"
  BY <1>3 DEF Line, Causes
<1>4. CASE LoadNew \/ LoadSame \/ Segment \/ Fill \/ Parked
  <2>1. Grows /\ SameGc /\ SameReset
    BY <1>4 DEF LoadNew, LoadSame, Segment, Fill, Parked, laserVars
  <2> QED BY <1>1, <2>1
<1>5. CASE Step \/ Empty \/ Hold \/ ResumeStopped \/ CycleStopped \/ Restoring \/ Reopened \/ QuietPass
  <2>1. Grows /\ SameGc /\ SameReset
    BY <1>5 DEF Step, Empty, Hold, ResumeStopped, CycleStopped, Restoring, Reopened, QuietPass
  <2> QED BY <1>1, <2>1
<1>6. CASE ResumeBlocked \/ Override \/ StopCharacter
  <2>1. Grows /\ SameGc /\ SameReset
    BY <1>6 DEF ResumeBlocked, Override, StopCharacter, Causes
  <2> QED BY <1>1, <2>1
<1>7. CASE Resume
  <2>1. SameGc /\ SameReset
    BY <1>7 DEF Resume
  <2> QED BY <1>1, <1>7, <2>1
<1>8. CASE EnterSuspend \/ HoldTurn \/ Deenergize \/ Reenergize \/ DoorTurn \/ Parks
  <2>1. Grows /\ SameGc /\ SameReset
    BY <1>8 DEF EnterSuspend, HoldTurn, Deenergize, Reenergize, DoorTurn, Parks
  <2> QED BY <1>1, <2>1
<1>9. CASE ResetStops \/ ResetKills
  <2>1. Grows /\ SameGc /\ reset # "aborting" /\ reset' \in {"stopped", "killed"}
    BY <1>9 DEF ResetStops, ResetKills
  <2> QED BY <1>1, <2>1
<1>10. CASE Abort
  <2>1. Grows /\ reset' = "aborting"
    BY <1>10 DEF Abort, Causes
  <2> QED BY <1>1, <1>10, <2>1
<1>11. CASE Cleared
  <2>1. Grows /\ SameGc /\ reset' = "no"
    BY <1>11 DEF Cleared
  <2> QED BY <1>1, <1>11, <2>1
<1> QED BY <1>1, <1>2, <1>3, <1>4, <1>5, <1>6, <1>7, <1>8, <1>9, <1>10, <1>11 DEF LaserNext

\* The main task in reset_variables, behind spindle->stop().
Aborting == reset = "aborting" =>
  /\ pc = "top" /\ gc = GcInit /\ susp = [SuspInit EXCEPT !.request = susp.request]
  /\ Clean => ~timer /\ beam = Dark

\* Between spindle->stop() and the rest of reset_variables only the input task and, if the
\* steppers were not killed, the interrupt are at work.
LEMMA AbortingStep ==
  ASSUME TypeInv, Aborting, [LaserNext]_allVars
  PROVE  Aborting'
<1> SUFFICES ASSUME reset' = "aborting" PROVE Aborting'
  BY DEF Aborting
<1>1. Clean' => Clean
  BY LaserFrame
<1>2. CASE Abort
  <2>1. /\ pc' = "top" /\ gc' = GcInit /\ susp' = SuspInit /\ beam' = Dark /\ timer' = timer
    BY <1>2 DEF Abort, vars, prepVars, isrVars
  <2>2. Clean' => ~timer
    BY <1>2 DEF Abort, Clean, Lasting
  <2>3. susp' = [SuspInit EXCEPT !.request = susp'.request]
    BY <2>1 DEF SuspInit
  <2> QED BY <2>1, <2>2, <2>3 DEF Aborting
<1>3. CASE ~Abort
  <2>1. /\ reset = "aborting" /\ pc = "top" /\ gc = GcInit
        /\ susp = [SuspInit EXCEPT !.request = susp.request]
        /\ Clean => ~timer /\ beam = Dark
    BY <1>3, LaserFrame DEF Aborting
  <2>2. ~LoadNew /\ ~LoadSame /\ ~Segment /\ ~Fill /\ ~Parked /\ \A l \in Lines : ~Line(l)
    BY <2>1 DEF LoadNew, LoadSame, Segment, Fill, Parked, Line, PrepLoadNew, PrepLoadSame,
                PrepSegment, PrepReturn, PrepKeep, PublishMore, PublishLast, PublishBlockEnd, Publish,
                WakeUp
  <2>3. /\ ~Hold /\ ~Resume /\ ~ResumeStopped /\ ~ResumeBlocked /\ ~CycleStopped /\ ~Restoring
        /\ ~Reopened /\ ~QuietPass /\ ~Override
    BY <2>1 DEF Hold, Resume, ResumeStopped, ResumeBlocked, CycleStopped, Restoring, Reopened,
                QuietPass, Override, Pass
  <2>4. /\ ~EnterSuspend /\ ~HoldTurn /\ ~Deenergize /\ ~Reenergize /\ ~DoorTurn /\ ~Parks
        /\ ~ResetStops /\ ~ResetKills /\ ~Cleared
    BY <2>1 DEF EnterSuspend, HoldTurn, Deenergize, Reenergize, DoorTurn, Parks, Due, Main,
                ResetStops, ResetKills, Cleared
  <2>5. CASE Step \/ Empty
    <3>1. timer
      BY <2>5 DEF Step, Empty, IsrStep, IsrEmpty
    <3>2. ~Clean' /\ UNCHANGED <<pc, gc, susp>>
      BY <1>1, <2>1, <2>5, <3>1 DEF Step, Empty, IsrStep, IsrEmpty, prepVars
    <3> QED BY <2>1, <3>2 DEF Aborting
  <2>6. CASE StopCharacter
    <3>1. /\ UNCHANGED <<pc, timer, gc, beam>> /\ susp' = [susp EXCEPT !.request = TRUE]
      BY <2>6 DEF StopCharacter, vars, prepVars, isrVars
    <3>2. susp' = [SuspInit EXCEPT !.request = susp'.request]
      BY <2>1, <3>1 DEF SuspInit
    <3> QED BY <1>1, <2>1, <3>1, <3>2 DEF Aborting
  <2>7. CASE UNCHANGED allVars
    BY <1>1, <2>1, <2>7 DEF Aborting, allVars, laserVars, vars, prepVars, isrVars
  <2> QED BY <1>3, <2>2, <2>3, <2>4, <2>5, <2>6, <2>7 DEF LaserNext
<1> QED BY <1>2, <1>3

\* protocol_exec_rt_suspend is left before the hold is.
SuspRight ==
  /\ DOMAIN susp = {"inside", "due", "restore", "phase", "stop", "request", "resume"}
  /\ excused \subseteq Causes
  /\ susp.inside => Held
  /\ susp.inside /\ sys.state = "Hold" => sys.holdComplete
  /\ susp.phase # "hold" => sys.state = "SafetyDoor" /\ sys.holdComplete
  /\ excused = {} /\ ~susp.inside => ~susp.request /\ susp.stop = "none" /\ ~susp.resume

\* What the end of a pass does to the variables of the suspend loop.
LEMMA PassEndEffect ==
  ASSUME NEW s,
         DOMAIN s = {"inside", "due", "restore", "phase", "stop", "request", "resume"}
  PROVE  /\ DOMAIN PassEnd(s) = DOMAIN s
         /\ PassEnd(s).inside = s.inside /\ PassEnd(s).due = s.inside
         /\ PassEnd(s).phase = s.phase /\ PassEnd(s).resume = s.resume
         /\ PassEnd(s).restore = s.restore /\ ~PassEnd(s).request
         /\ ~s.request \/ sys'.state # "Hold" => PassEnd(s).stop = s.stop
         /\ s.request /\ sys'.state = "Hold" /\ s.stop = "none" => PassEnd(s).stop = "initiate"
BY DEF PassEnd

\* Every way into and out of the suspend loop keeps this.
LEMMA SuspStep ==
  ASSUME TypeInv, DoorInv, Aborting, SuspRight, ~HoldAtRest, [LaserNext]_allVars
  PROVE  SuspRight'
<1>1. excused' \subseteq Causes /\ (excused' = {} => excused = {} \/ Resume)
  BY LaserFrame DEF SuspRight
<1>2. sys \in SysType
  BY DEF TypeInv, TypeOK, ProtocolTypes
<1> DEFINE Stays == /\ Held => sys'.state = sys.state
                    /\ sys.holdComplete => sys'.holdComplete
           Keeps == DOMAIN susp' = DOMAIN susp /\ susp'.inside = susp.inside
                    /\ susp'.phase \in {susp.phase, "hold"}
           Quits == excused' = {} /\ ~susp'.inside
                       => ~susp'.request /\ susp'.stop = "none" /\ ~susp'.resume
<1>3. Keeps /\ Quits /\ (Held => Stays) => SuspRight'
  BY <1>1 DEF SuspRight, Held
<1>4. CASE \E l \in Lines : Line(l)
  <2>1. UNCHANGED susp /\ (BufferLine \/ UNCHANGED vars)
    BY <1>4 DEF Line
  <2>2. ~Resume \/ excused = {} \/ excused' # {}
    BY <1>4 DEF Line
  <2> QED BY <1>1, <1>3, <2>1, <2>2, PrepSys DEF SameSys, SuspRight
<1>5. CASE LoadNew \/ LoadSame \/ Segment \/ Fill \/ Step \/ Empty
  <2>1. UNCHANGED <<susp, excused>>
    BY <1>5 DEF LoadNew, LoadSame, Segment, Fill, Step, Empty, laserVars
  <2>2. Prep \/ IsrStep \/ IsrEmpty
    BY <1>5 DEF LoadNew, LoadSame, Segment, Fill, Step, Empty, Prep
  <2> QED BY <1>1, <1>3, <2>1, <2>2, PrepSys DEF SameSys, SuspRight
<1>6. CASE Hold
  <2>1. /\ susp' = PassEnd([susp EXCEPT !.resume = FALSE]) /\ UNCHANGED excused
        /\ FeedHold \/ SafetyDoor
    BY <1>6 DEF Hold
  <2> QED BY <1>1, <2>1, HoldSys, PassEndEffect DEF SuspRight, Held
<1>7. CASE Resume
  <2>1. /\ susp' = PassEnd([SuspInit EXCEPT !.request = susp.request])
        /\ CycleStart \/ DoorResume
    BY <1>7 DEF Resume
  <2>2. /\ sys'.state \in {"Idle", "Cycle"}
    BY <2>1, StartSys
  <2> DEFINE s == [SuspInit EXCEPT !.request = susp.request]
  <2>3. /\ DOMAIN s = {"inside", "due", "restore", "phase", "stop", "request", "resume"}
        /\ ~s.inside /\ s.phase = "hold" /\ s.stop = "none" /\ ~s.resume
    BY DEF SuspInit
  <2>4. susp' = PassEnd(s)
    BY <2>1
  <2> HIDE DEF s
  <2> QED BY <1>1, <2>2, <2>3, <2>4, PassEndEffect DEF SuspRight, Held
<1>8. CASE ResumeBlocked \/ QuietPass \/ Override
  <2>1. /\ UNCHANGED sys
        /\ susp' = PassEnd(susp) \/ (susp' = PassEnd([susp EXCEPT !.resume = FALSE]) /\ excused' # {})
    BY <1>8 DEF ResumeBlocked, QuietPass, Override
  <2>2. Keeps /\ Quits
    BY <1>1, <1>8, <2>1, PassEndEffect DEF SuspRight, ResumeBlocked, QuietPass, Override
  <2> QED BY <1>3, <2>1, <2>2
<1>9. CASE ResumeStopped
  <2> DEFINE s == [susp EXCEPT !.request = FALSE]
  <2>1. /\ UNCHANGED <<sys, excused>> /\ susp.stop # "none"
        /\ susp' = [PassEnd(s) EXCEPT !.stop = "restoreCycle"]
    BY <1>9 DEF ResumeStopped, vars, protocolVars
  <2>2. DOMAIN s = DOMAIN susp /\ s.inside = susp.inside /\ s.phase = susp.phase
    BY DEF SuspRight
  <2> HIDE DEF s
  <2>3. Keeps
    BY <2>1, <2>2, PassEndEffect DEF SuspRight
  <2>4. Quits
    BY <2>1, <2>3 DEF SuspRight
  <2> QED BY <1>3, <2>1, <2>3, <2>4
<1>10. CASE CycleStopped \/ Restoring
  <2>1. /\ susp' = PassEnd(susp) /\ UNCHANGED excused
        /\ HandleCycleStop \/ StartRestore
    BY <1>10 DEF CycleStopped, Restoring
  <2>2. Held => Stays
    BY <2>1, CycleStopSys, DoorSys
  <2>3. Keeps /\ Quits
    BY <2>1, PassEndEffect DEF SuspRight
  <2> QED BY <1>3, <2>2, <2>3
<1>11. CASE Reopened
  <2>1. /\ susp' = PassEnd([susp EXCEPT !.phase = "hold", !.resume = FALSE]) /\ UNCHANGED excused
        /\ DoorReopened \/ Others
    BY <1>11 DEF Reopened, Others
  <2>2. sys'.state = sys.state /\ (sys.state = "SafetyDoor" \/ (sys.holdComplete => sys'.holdComplete))
    BY <2>1, DoorSys, ReopenedSys
  <2> DEFINE s == [susp EXCEPT !.phase = "hold", !.resume = FALSE]
  <2>4. /\ DOMAIN s = DOMAIN susp /\ s.inside = susp.inside /\ s.phase = "hold" /\ ~s.resume
        /\ s.stop = susp.stop /\ s.request = susp.request /\ susp' = PassEnd(s)
    BY <2>1 DEF SuspRight
  <2>3. /\ DOMAIN susp' = DOMAIN susp /\ susp'.inside = susp.inside /\ susp'.phase = "hold" /\ Quits
    <3> HIDE DEF s
    <3> QED BY <2>1, <2>4, PassEndEffect DEF SuspRight
  <2> QED BY <1>1, <2>2, <2>3 DEF SuspRight, Held
<1>12. CASE StopCharacter
  <2>1. UNCHANGED sys /\ excused' # {} /\ susp' = [susp EXCEPT !.request = TRUE]
    BY <1>12 DEF StopCharacter, vars, protocolVars
  <2> QED BY <1>3, <2>1 DEF SuspRight
<1>13. CASE EnterSuspend
  <2>1. /\ UNCHANGED sys /\ Suspended /\ susp'.inside /\ susp'.phase = susp.phase
        /\ DOMAIN susp' = DOMAIN susp
    BY <1>13 DEF EnterSuspend, vars, protocolVars, SuspRight
  <2> QED BY <1>1, <2>1 DEF SuspRight, Suspended, Held
<1>14. CASE HoldTurn \/ DoorTurn
  <2>1. /\ UNCHANGED sys /\ susp.inside /\ Keeps
    BY <1>14 DEF HoldTurn, DoorTurn, Due, vars, protocolVars, SuspRight
  <2> QED BY <1>3, <2>1
<1>15. CASE Deenergize
  <2>1. /\ UNCHANGED sys /\ sys.state = "SafetyDoor" /\ sys.holdComplete /\ susp.inside
        /\ DOMAIN susp' = DOMAIN susp /\ susp'.inside
    BY <1>15 DEF Deenergize, Due, vars, protocolVars, SuspRight
  <2> QED BY <1>1, <2>1 DEF SuspRight, Held
<1>16. CASE Reenergize
  <2>1. /\ UNCHANGED sys /\ susp.phase = "off" /\ susp.inside
        /\ DOMAIN susp' = DOMAIN susp /\ susp'.inside
    BY <1>16 DEF Reenergize, Due, vars, protocolVars, SuspRight
  <2> QED BY <1>1, <2>1 DEF SuspRight, Held
<1>17. CASE Parks \/ Parked \/ ResetKills
  <2>1. UNCHANGED <<susp, excused>> /\ (ParkMotion \/ ParkRestore \/ Others)
    BY <1>17 DEF Parks, Parked, ResetKills, laserVars, Others
  <2>2. Stays
    BY <2>1, DoorSys, ParkSys
  <2> QED BY <1>1, <1>3, <2>1, <2>2 DEF SuspRight
<1>18. CASE Abort
  <2>1. susp' = SuspInit
    BY <1>18 DEF Abort
  <2> QED BY <1>1, <2>1 DEF SuspRight, SuspInit
<1>19. CASE Cleared
  <2>1. UNCHANGED <<susp, excused>> /\ reset = "aborting"
    BY <1>19 DEF Cleared
  <2>2. ~susp.inside /\ susp.phase = "hold"
    BY <2>1 DEF Aborting, SuspInit
  <2> QED BY <1>1, <2>1, <2>2 DEF SuspRight
<1>20. CASE ResetStops \/ UNCHANGED allVars
  <2>1. UNCHANGED <<susp, excused>> /\ UNCHANGED vars
    BY <1>20 DEF ResetStops, allVars, laserVars
  <2> QED BY <1>1, <1>3, <2>1, PrepSys DEF SameSys, SuspRight
<1> QED BY <1>4, <1>5, <1>6, <1>7, <1>8, <1>10, <1>11, <1>12, <1>13, <1>14, <1>15, <1>16, <1>17, <1>18,
           <1>19, <1>20, <1>9 DEF LaserNext

-----------------------------------------------------------------------------
\* The steps of Laser, as the powers see them.
LEMMA LaserKinds ==
  ASSUME TypeInv, BeamInv, [LaserNext]_allVars
  PROVE  \/ \E l \in Lines : Line(l)
         \/ LoadNew \/ LoadSame \/ Segment \/ Step
         \/ (PublishMore \/ PublishLast \/ PublishBlockEnd) /\ UNCHANGED laserVars
         \/ CalmBuffer /\ CalmPowers
<1>1. CASE UNCHANGED allVars
  <2>1. CalmBuffer
    BY <1>1, CalmSteps DEF allVars
  <2>2. CalmPowers
    BY <1>1 DEF allVars, laserVars, CalmPowers
  <2> QED BY <2>1, <2>2
<1>2. CASE Fill
  <2>1. Fill => UNCHANGED laserVars
    BY DEF Fill
  <2>2. Fill => PrepEnter \/ PrepReturn \/ PrepKeep \/ WakeUp \/ PublishMore \/ PublishLast
                \/ PublishBlockEnd
    BY DEF Fill
  <2>3. Fill /\ (PrepEnter \/ PrepReturn \/ PrepKeep \/ WakeUp) => CalmBuffer /\ CalmPowers
    BY LaserCalm
  <2> QED BY <1>2, <2>1, <2>2, <2>3
<1>3. Empty \/ Hold \/ Resume \/ ResumeStopped \/ ResumeBlocked \/ CycleStopped \/ Restoring
      \/ Reopened \/ QuietPass \/ Override \/ StopCharacter \/ EnterSuspend \/ HoldTurn
      \/ Deenergize \/ Reenergize \/ DoorTurn \/ Parks \/ Parked \/ ResetStops \/ ResetKills
      \/ Abort \/ Cleared => CalmBuffer /\ CalmPowers
  BY LaserCalm
<1> QED BY <1>1, <1>2, <1>3 DEF LaserNext

\* A block that is planned, in the making or queued.
Live(b) ==
  \/ \E i \in DOMAIN plan : plan[i] = b
  \/ plb = b
  \/ \E i \in Slots : Queued(i) /\ seg[i].owner = b

\* Every such block has been told the spindle that the parser has now: what changes the
\* spindle waits for the blocks before it.
OneSpindle == Clean /\ reset # "aborting" =>
  \A b \in Planned : Live(b) => work[b].spindle = gc.spindle

\* What a line does and finds, the wait for the queue included.
LEMMA LineEffect ==
  ASSUME TypeInv, DoorInv, BeamInv, PlbRight, SuspRight, NEW l \in Lines, Line(l)
  PROVE  /\ pc = "top" /\ ~Held /\ ~susp.inside /\ ~sys.ctl.executeSysMotion /\ plb # Park
         /\ reset # "aborting"
         /\ UNCHANGED <<laserMode, fill, sys, susp, exec, reset, seg, head, tail, st, timer, pc>>
         /\ plb' \in {plb, NoBlock} /\ gc'.spindle = l.spindle
         /\ SpindleSync(l) => /\ gc.spindle # l.spindle /\ beam' = State(l.spindle, DataSpeed(l))
                              /\ plan = <<>> /\ plb = NoBlock /\ plb' = NoBlock
                              /\ Clean' => head = tail
         /\ ~SpindleSync(l) => /\ gc.spindle = l.spindle
                               /\ \/ beam' = beam
                                  \/ beam'.by = "main" /\ gc.spindle # "Disable"
         /\ work'[Park] = work[Park] /\ \A b \in 1..added : work'[b] = work[b]
         /\ \/ UNCHANGED <<plan, work>>
            \/ /\ plan' = Append(plan, added + 1) /\ added + 1 \in Planned
               /\ work'[added + 1].spindle = l.spindle
<1>1. /\ Running /\ sys \in SysType /\ FillShape /\ plan \in Seq(Planned)
      /\ plb \in Blocks \cup {NoBlock}
  BY DEF DoorInv, TypeInv, TypeOK, ProtocolTypes, PrepTypes, BeamInv
<1>2. /\ added \in Nat /\ \A b \in 1..added : b \in Planned /\ b \in Blocks /\ b # NoBlock
      /\ Park \notin Planned /\ NoBlock \notin Planned
  BY PlannedNumbers
<1>3. /\ pc = "top" /\ sys.state \in {"Idle", "Cycle"} /\ reset # "aborting" /\ Synchronized(l)
      /\ gc'.spindle = l.spindle
      /\ UNCHANGED <<laserMode, fill, susp, exec, reset>>
      /\ excused' = IF SpindleSync(l) /\ head # tail THEN excused \cup {"undrained"} ELSE excused
      /\ beam' = IF SpindleSync(l) THEN State(l.spindle, DataSpeed(l))
                 ELSE IF SpeedSync(l) THEN State(gc.spindle, DataSpeed(l)) ELSE beam
      /\ BufferLine \/ UNCHANGED vars
  BY DEF Line
<1>4. ~Held /\ ~susp.inside /\ ~sys.ctl.executeSysMotion /\ plb # Park
  BY <1>1, <1>3 DEF Held, Running, SuspRight, PlbRight
<1>5. UNCHANGED <<sys, seg, head, tail, st, timer, pc>> /\ plb' \in {plb, NoBlock}
  BY <1>3 DEF BufferLine, vars, protocolVars, prepVars, isrVars, StUpdate
<1>6. SpindleSync(l) => plan = <<>> /\ plb = NoBlock
  BY <1>1, <1>3, <1>4 DEF Synchronized, PlbRight, Blocks
<1>7. SpindleSync(l) /\ Clean' => head = tail
  BY <1>3 DEF Clean, Lasting
<1>8. SpindleSync(l) <=> gc.spindle # l.spindle
  BY DEF SpindleSync
<1>9. ~SpindleSync(l) => beam' = beam \/ (beam'.by = "main" /\ gc.spindle # "Disable")
  BY <1>3 DEF SpeedSync, State
<1>10. CASE l.move
  <2>1. /\ added < NumBlocks /\ plan' = Append(plan, added + 1)
        /\ work' = [work EXCEPT ![added + 1] = [spindle |-> l.spindle, speed |-> DataSpeed(l)]]
    BY <1>10 DEF Line, BufferLine
  <2>2. added + 1 \in Planned /\ added + 1 \in Blocks /\ added + 1 # Park /\ added + 1 \notin 1..added
    BY <1>2, <2>1, BufferAssumption DEF BufferAssumption, Planned, Blocks, Park
  <2>3. Park \in Blocks
    BY BlocksType
  <2>4. /\ work'[added + 1].spindle = l.spindle
        /\ work'[Park] = work[Park] /\ \A b \in 1..added : work'[b] = work[b]
    BY <1>1, <1>2, <2>1, <2>2, <2>3 DEF FillShape
  <2> QED BY <1>1, <1>3, <1>4, <1>5, <1>6, <1>7, <1>8, <1>9, <2>1, <2>2, <2>4
<1>11. CASE ~l.move
  <2>1. UNCHANGED <<plan, work>>
    BY <1>11 DEF Line, vars, protocolVars
  <2> QED BY <1>1, <1>3, <1>4, <1>5, <1>6, <1>7, <1>8, <1>9, <2>1
<1> QED BY <1>10, <1>11

\* Lines, st_prep_buffer and the interrupt move blocks on with the spindle they have.
LEMMA SpindleStep ==
  ASSUME TypeInv, DoorInv, BeamInv, PlbRight, SuspRight, Aborting, OneSpindle,
         [LaserNext]_allVars
  PROVE  OneSpindle'
<1> SUFFICES ASSUME Clean', reset' # "aborting", NEW b \in Planned, Live(b)'
             PROVE  work'[b].spindle = gc'.spindle
  BY DEF OneSpindle
<1>1. Clean /\ plan \in Seq(Planned) /\ Positions /\ Known
  BY LaserFrame DEF TypeInv, TypeOK, ProtocolTypes, BeamInv
<1>2. /\ added \in Nat /\ \A c \in 1..added : c \in Planned
      /\ Park \notin Planned /\ NoBlock \notin Planned
  BY PlannedNumbers
<1>3. Live(b) => b \in 1..added
  BY <1>1 DEF Live, Known
<1>4. Live(b) /\ reset # "aborting" => work[b].spindle = gc.spindle
  BY <1>1 DEF OneSpindle
<1>5. CASE \E l \in Lines : Line(l)
  <2>1. PICK l \in Lines : Line(l)
    BY <1>5
  <2>2. /\ reset # "aborting" /\ plb' \in {plb, NoBlock} /\ gc'.spindle = l.spindle
        /\ UNCHANGED <<seg, head, tail>>
        /\ SpindleSync(l) => plan = <<>> /\ plb = NoBlock /\ head = tail
        /\ ~SpindleSync(l) => gc.spindle = l.spindle
        /\ \A c \in 1..added : work'[c] = work[c]
        /\ \/ UNCHANGED <<plan, work>>
           \/ /\ plan' = Append(plan, added + 1) /\ added + 1 \in Planned
              /\ work'[added + 1].spindle = l.spindle
    BY <2>1, LineEffect
  <2>3. SpindleSync(l) => ~Live(b)
    BY <1>2, <2>2, EmptyRing DEF Live
  <2>4. ~Live(b) => \E i \in DOMAIN plan' : plan'[i] = b
    BY <1>2, <2>2 DEF Live, Queued
  <2>5. ~Live(b) => b = added + 1 /\ work'[b].spindle = l.spindle
    <3> SUFFICES ASSUME ~Live(b) PROVE b = added + 1 /\ work'[b].spindle = l.spindle
      OBVIOUS
    <3>1. PICK i \in DOMAIN plan' : plan'[i] = b
      BY <2>4
    <3>2. plan' # plan
      BY <3>1 DEF Live
    <3>3. plan' = Append(plan, added + 1) /\ work'[added + 1].spindle = l.spindle
      BY <2>2, <3>2
    <3>4. i = Len(plan) + 1 \/ (i \in DOMAIN plan /\ plan'[i] = plan[i])
      BY <1>1, <2>2, <3>1, <3>3
    <3>5. plan'[Len(plan) + 1] = added + 1
      BY <1>1, <1>2, <2>2, <3>3
    <3> QED BY <3>1, <3>3, <3>4, <3>5 DEF Live
  <2> QED BY <1>3, <1>4, <2>2, <2>3, <2>5
<1>6. CASE LoadNew \/ LoadSame
  <2>1. /\ plb' = QueryBlock
        /\ UNCHANGED <<work, gc, reset, plan, seg, head, tail>>
    BY <1>6 DEF LoadNew, LoadSame, PrepLoadNew, PrepLoadSame, protocolVars, isrVars
  <2>2. plan # <<>> => Head(plan) = plan[1] /\ 1 \in DOMAIN plan
    BY <1>1
  <2>3. Live(b)
    BY <1>2, <2>1, <2>2 DEF Live, Queued, QueryBlock, CurrentBlock
  <2> QED BY <1>4, <2>1, <2>3
<1>7. CASE Segment
  <2>1. UNCHANGED <<work, gc, reset, plan, plb, head, tail>> /\ \E s : seg' = [seg EXCEPT ![head] = s]
    BY <1>7 DEF Segment, PrepSegment, isrVars
  <2>2. \A i \in Slots : Queued(i) => i # head
    BY SlotsType DEF Queued, TypeInv, TypeOK, PrepTypes, IsrTypes
  <2>3. Live(b)
    BY <2>1, <2>2 DEF Live, Queued, TypeInv, TypeOK, PrepTypes
  <2> QED BY <1>4, <2>1, <2>3
<1>8. CASE Step
  <2>1. /\ UNCHANGED <<work, gc, reset, plan, plb, seg, head>>
        /\ tail' = tail \/ (tail # head /\ tail' = NextSlot(tail))
    BY <1>1, <1>8 DEF Step, IsrStep, prepVars, Positions
  <2>2. \A i \in Slots : Queued(i)' => Queued(i)
    BY <2>1, ConsumeQueue DEF Queued
  <2> QED BY <1>4, <2>1, <2>2 DEF Live
<1>9. CASE (PublishMore \/ PublishLast \/ PublishBlockEnd) /\ UNCHANGED laserVars
  <2>1. /\ UNCHANGED <<work, gc, reset, seg, tail>> /\ plb' \in {plb, NoBlock} /\ seg[head].owner = plb
        /\ plan' = plan \/ (plan # <<>> /\ plan' = Tail(plan))
        /\ Publish
    BY <1>1, <1>9 DEF PublishMore, PublishLast, PublishBlockEnd, Publish, isrVars, laserVars, Positions
  <2>2. \A i \in Slots : Queued(i)' => i = head \/ Queued(i)
    BY <2>1, PublishQueue
  <2>3. \A i \in DOMAIN plan' : \E k \in DOMAIN plan : plan'[i] = plan[k]
    <3>1. TAKE i \in DOMAIN plan'
    <3>2. CASE plan' = plan
      BY <3>1, <3>2
    <3>3. CASE plan # <<>> /\ plan' = Tail(plan)
      <4>1. i + 1 \in DOMAIN plan /\ plan'[i] = plan[i + 1]
        BY <1>1, <3>1, <3>3
      <4> QED BY <4>1
    <3> QED BY <2>1, <3>2, <3>3
  <2>4. Live(b)
    BY <1>2, <2>1, <2>2, <2>3 DEF Live
  <2> QED BY <1>4, <2>1, <2>4
<1>10. CASE CalmBuffer /\ CalmPowers /\ ~(\E l \in Lines : Line(l))
  <2>1. Live(b)
    BY <1>2, <1>10 DEF Live, CalmBuffer
  <2>2. CASE Cleared
    <3>1. /\ plan' = <<>> /\ plb' = NoBlock /\ head' = 0 /\ tail' = 0
      BY <2>2 DEF Cleared, Reset
    <3>2. ~Live(b)'
      BY <1>2, <3>1 DEF Live, Queued, Slots
    <3> QED BY <3>2
  <2>3. CASE ~Cleared
    <3>1. reset # "aborting" /\ gc' = gc
      BY <1>10, <2>3, LaserFrame DEF Abort
    <3> QED BY <1>4, <1>10, <2>1, <3>1 DEF CalmPowers
  <2> QED BY <2>2, <2>3
<1> QED BY <1>5, <1>6, <1>7, <1>8, <1>9, <1>10, LaserKinds

-----------------------------------------------------------------------------
\* No power is left in the ring, nor in what the next segment would take over.
RingQuiet ==
  /\ plb # NoBlock /\ (pc # "seg" \/ ~fill.update) => fill.rpm = 0
  /\ \A i \in Slots : Queued(i) => fill.seg[i] = 0
  /\ pc = "publish" => fill.seg[head] = 0

\* With the spindle off in the parser there is no power anywhere.
Quiet == Clean /\ gc.spindle = "Disable" =>
  /\ beam.power = 0
  /\ susp.inside => susp.restore.spindle = "Disable"
  /\ reset # "aborting" =>
       /\ sys.ctl.executeSysMotion => work[Park].spindle = "Disable"
       /\ RingQuiet

\* The block that st_prep_buffer works on, or would take up, has no power either.
LEMMA PlbQuiet ==
  ASSUME TypeInv, PlbRight, OneSpindle, Quiet, Clean, reset # "aborting", gc.spindle = "Disable"
  PROVE  /\ plb # NoBlock => work[plb].spindle = "Disable"
         /\ QueryBlock # NoBlock => work[QueryBlock].spindle = "Disable"
         /\ plan # <<>> => work[Head(plan)].spindle = "Disable"
<1>1. plan \in Seq(Planned) /\ plb \in Planned \cup {Park, NoBlock}
  BY DEF TypeInv, TypeOK, ProtocolTypes, PrepTypes, Blocks
<1>2. plan # <<>> => Head(plan) = plan[1] /\ 1 \in DOMAIN plan /\ Head(plan) \in Planned
  BY <1>1
<1>3. plan # <<>> => work[Head(plan)].spindle = "Disable"
  BY <1>2 DEF OneSpindle, Live
<1>4. sys.ctl.executeSysMotion => work[Park].spindle = "Disable"
  BY DEF Quiet
<1> QED BY <1>1, <1>3, <1>4 DEF PlbRight, QueryBlock, CurrentBlock

\* A calm step adds no power to the ring.
LEMMA CalmQuiet ==
  ASSUME CalmBuffer, CalmPowers, RingQuiet
  PROVE  RingQuiet'
BY DEF RingQuiet, CalmBuffer, CalmPowers

\* Nor does any other step, with the spindle off.
LEMMA RingStep ==
  ASSUME TypeInv, DoorInv, BeamInv, PlbRight, SuspRight, Aborting, OneSpindle, Quiet,
         [LaserNext]_allVars, Clean', gc'.spindle = "Disable", reset' # "aborting"
  PROVE  RingQuiet'
<1>1. /\ Clean /\ Positions /\ FillShape /\ head \in Slots /\ tail \in Slots
  BY LaserFrame DEF TypeInv, TypeOK, PrepTypes, IsrTypes, BeamInv
<1>2. CASE Cleared
  <2>1. plb' = NoBlock /\ head' = 0 /\ tail' = 0 /\ pc' = "top"
    BY <1>2 DEF Cleared, Reset
  <2> QED BY <2>1 DEF RingQuiet, Queued, Slots
<1>3. CASE \E l \in Lines : Line(l)
  <2>1. PICK l \in Lines : Line(l)
    BY <1>3
  <2>2. /\ pc = "top" /\ reset # "aborting" /\ plb' \in {plb, NoBlock}
        /\ UNCHANGED <<fill, head, tail, pc>>
        /\ SpindleSync(l) => plb' = NoBlock /\ head = tail
        /\ ~SpindleSync(l) => gc.spindle = "Disable"
    BY <2>1, LineEffect
  <2>3. head = tail => \A i \in Slots : ~Queued(i)'
    BY <1>1, <2>2, SlotsType DEF Queued
  <2> QED BY <1>1, <2>2, <2>3 DEF RingQuiet, Quiet, Queued
<1>4. CASE ~Cleared /\ ~(\E l \in Lines : Line(l))
  <2>1. reset # "aborting" /\ gc' = gc /\ RingQuiet
    BY <1>1, <1>4, LaserFrame DEF Abort, Quiet
  <2>2. CASE LoadNew \/ LoadSame
    <3>1. /\ pc = "loop" /\ pc' = "seg" /\ fill'.update /\ fill'.seg = fill.seg
          /\ UNCHANGED <<head, tail>>
      BY <1>1, <2>2 DEF LoadNew, LoadSame, PrepLoadNew, PrepLoadSame, isrVars, FillShape
    <3> QED BY <2>1, <3>1 DEF RingQuiet, Queued
  <2>3. CASE Segment
    <3>1. /\ pc = "seg" /\ UNCHANGED <<head, tail, plb>> /\ plb # NoBlock
      BY <1>1, <2>3 DEF Segment, PrepSegment, isrVars, Positions
    <3>2. work[plb].spindle = "Disable"
      BY <1>1, <2>1, <3>1, PlbQuiet
    <3>3. fill'.rpm = 0 /\ fill'.seg = [fill.seg EXCEPT ![head] = 0]
      <4>1. SegmentPowers = {0}
        BY <3>2 DEF SegmentPowers
      <4>2. CASE NewPower
        <5>1. PICK p \in SegmentPowers :
                fill' = [fill EXCEPT !.rpm = p, !.seg[head] = p, !.update = FALSE]
          BY <2>3, <4>2 DEF Segment
        <5> QED BY <1>1, <4>1, <5>1 DEF FillShape
      <4>3. CASE ~NewPower
        <5>1. fill' = [fill EXCEPT !.seg[head] = fill.rpm] /\ ~fill.update
          BY <2>3, <4>3 DEF Segment, NewPower
        <5>2. fill.rpm = 0
          BY <2>1, <3>1, <5>1 DEF RingQuiet
        <5> QED BY <1>1, <5>1, <5>2 DEF FillShape
      <4> QED BY <4>2, <4>3
    <3> QED BY <1>1, <2>1, <3>1, <3>3 DEF RingQuiet, Queued, FillShape
  <2>4. CASE Step
    <3>1. /\ UNCHANGED <<fill, plb, head, pc>>
          /\ tail' = tail \/ (tail # head /\ tail' = NextSlot(tail))
      BY <1>1, <2>4 DEF Step, IsrStep, prepVars, Positions
    <3>2. \A i \in Slots : Queued(i)' => Queued(i)
      BY <3>1, ConsumeQueue DEF Queued
    <3> QED BY <2>1, <3>1, <3>2 DEF RingQuiet
  <2>5. CASE (PublishMore \/ PublishLast \/ PublishBlockEnd) /\ UNCHANGED laserVars
    <3>1. /\ UNCHANGED <<fill, tail>> /\ plb' \in {plb, NoBlock} /\ Publish /\ pc = "publish"
          /\ pc' \in {"loop", "top", "wake"}
      BY <2>5 DEF PublishMore, PublishLast, PublishBlockEnd, Publish, Caller, isrVars, laserVars
    <3>2. \A i \in Slots : Queued(i)' => i = head \/ Queued(i)
      BY <3>1, PublishQueue
    <3> QED BY <2>1, <3>1, <3>2 DEF RingQuiet
  <2>6. CASE CalmBuffer /\ CalmPowers
    BY <2>1, <2>6, CalmQuiet
  <2> QED BY <1>4, <2>2, <2>3, <2>4, <2>5, <2>6, LaserKinds
<1> QED BY <1>2, <1>3, <1>4

\* The main task turns no beam on and remembers no power to restore.
LEMMA MainQuiet ==
  ASSUME TypeInv, DoorInv, BeamInv, PlbRight, SuspRight, Aborting, OneSpindle, Quiet,
         [LaserNext]_allVars, Clean', gc'.spindle = "Disable"
  PROVE  /\ beam'.power = 0
         /\ susp'.inside => susp'.restore.spindle = "Disable"
<1>1. Clean /\ DOMAIN susp = {"inside", "due", "restore", "phase", "stop", "request", "resume"}
  BY LaserFrame DEF SuspRight
<1> DEFINE Stays == (susp'.inside => susp.inside) /\ susp'.restore = susp.restore
<1>2. CASE \E l \in Lines : Line(l)
  <2>1. PICK l \in Lines : Line(l)
    BY <1>2
  <2>2. /\ ~susp.inside /\ UNCHANGED susp /\ gc'.spindle = l.spindle
        /\ SpindleSync(l) => beam' = State(l.spindle, DataSpeed(l))
        /\ ~SpindleSync(l) => gc.spindle = "Disable" /\ (beam' = beam \/ gc.spindle # "Disable")
    BY <2>1, LineEffect
  <2> QED BY <1>1, <2>2 DEF Quiet, State
<1>3. CASE Abort
  BY <1>3 DEF Abort, SuspInit, Dark
<1>4. CASE ~Abort /\ ~(\E l \in Lines : Line(l))
  <2>1. /\ gc' = gc /\ beam.power = 0 /\ gc.spindle = "Disable"
        /\ susp.inside => susp.restore.spindle = "Disable"
    BY <1>1, <1>4, LaserFrame DEF Quiet
  <2>2. CASE LoadNew \/ LoadSame \/ Segment \/ Fill \/ Parks \/ Parked \/ ResetKills \/ Cleared
             \/ UNCHANGED allVars
    <3>1. UNCHANGED <<beam, susp>>
      BY <2>2 DEF LoadNew, LoadSame, Segment, Fill, Parks, Parked, ResetKills, Cleared, laserVars, allVars
    <3> QED BY <2>1, <3>1
  <2>3. CASE Step
    <3>1. UNCHANGED susp /\ beam' = IF st.loaded THEN beam ELSE [power |-> fill.seg[tail], by |-> "segment"]
      BY <2>3 DEF Step
    <3>2. timer /\ tail # head
      BY <2>3 DEF Step, IsrStep, TypeInv, Positions
    <3>3. Queued(tail) /\ tail \in Slots
      BY <3>2, SlotsType DEF Queued, TypeInv, TypeOK, PrepTypes, IsrTypes
    <3>4. reset # "aborting"
      BY <1>1, <3>2 DEF Aborting
    <3>5. fill.seg[tail] = 0
      BY <1>1, <2>1, <3>3, <3>4 DEF Quiet, RingQuiet
    <3> QED BY <2>1, <3>1, <3>5
  <2>4. CASE Empty
    BY <2>1, <2>4 DEF Empty, EmptyBeam
  <2>5. CASE Hold \/ CycleStopped \/ Restoring \/ Reopened \/ QuietPass \/ Override
    <3>1. /\ \/ susp' = PassEnd(susp)
             \/ susp' = PassEnd([susp EXCEPT !.resume = FALSE])
             \/ susp' = PassEnd([susp EXCEPT !.phase = "hold", !.resume = FALSE])
          /\ beam' = beam
      BY <2>1, <2>5 DEF Hold, CycleStopped, Restoring, Reopened, QuietPass, Override
    <3> DEFINE a == [susp EXCEPT !.resume = FALSE]
               b == [susp EXCEPT !.phase = "hold", !.resume = FALSE]
    <3>2. /\ DOMAIN a = DOMAIN susp /\ a.inside = susp.inside /\ a.restore = susp.restore
          /\ DOMAIN b = DOMAIN susp /\ b.inside = susp.inside /\ b.restore = susp.restore
          /\ susp' = PassEnd(susp) \/ susp' = PassEnd(a) \/ susp' = PassEnd(b)
      BY <1>1, <3>1
    <3> HIDE DEF a, b
    <3> QED BY <1>1, <2>1, <3>1, <3>2, PassEndEffect
  <2>6. CASE ResumeStopped \/ ResumeBlocked
    <3> DEFINE a == [susp EXCEPT !.resume = FALSE]
               b == [susp EXCEPT !.request = FALSE]
    <3>1. /\ UNCHANGED beam
          /\ susp' = PassEnd(a) \/ susp' = [PassEnd(b) EXCEPT !.stop = "restoreCycle"]
      BY <2>6 DEF ResumeStopped, ResumeBlocked
    <3>2. /\ DOMAIN a = DOMAIN susp /\ a.inside = susp.inside /\ a.restore = susp.restore
          /\ DOMAIN b = DOMAIN susp /\ b.inside = susp.inside /\ b.restore = susp.restore
      BY <1>1
    <3> HIDE DEF a, b
    <3> QED BY <1>1, <2>1, <3>1, <3>2, PassEndEffect
  <2>7. CASE Resume
    <3> DEFINE s == [SuspInit EXCEPT !.request = susp.request]
    <3>1. UNCHANGED beam /\ susp' = PassEnd(s)
      BY <2>7 DEF Resume
    <3>2. /\ DOMAIN s = {"inside", "due", "restore", "phase", "stop", "request", "resume"}
          /\ ~s.inside
      BY DEF SuspInit
    <3> HIDE DEF s
    <3> QED BY <2>1, <3>1, <3>2, PassEndEffect
  <2>8. CASE StopCharacter \/ ResetStops
    <3>1. Stays /\ (beam' = beam \/ beam' = Dark)
      BY <1>1, <2>8 DEF StopCharacter, ResetStops
    <3> QED BY <2>1, <3>1 DEF Dark
  <2>9. CASE EnterSuspend
    <3>1. susp'.restore = IF plan = <<>> THEN [spindle |-> gc.spindle, speed |-> gc.speed]
                                         ELSE work[Head(plan)]
      BY <1>1, <2>9 DEF EnterSuspend
    <3>2. UNCHANGED beam /\ reset # "aborting"
      BY <2>9 DEF EnterSuspend, Main
    <3>3. plan # <<>> => work[Head(plan)].spindle = "Disable"
      BY <1>1, <2>1, <3>2, PlbQuiet
    <3> QED BY <2>1, <3>1, <3>2, <3>3
  <2>10. CASE HoldTurn
    <3>1. susp.inside /\ Stays
      BY <1>1, <2>10 DEF HoldTurn, Due
    <3>2. beam' \in {beam, Dark, State(susp.restore.spindle, susp.restore.speed)}
      BY <2>1, <2>10 DEF HoldTurn, PowerRestored
    <3> QED BY <2>1, <3>1, <3>2 DEF Dark, State
  <2>11. CASE Deenergize \/ Reenergize \/ DoorTurn
    <3>1. Stays /\ beam' \in {beam, Dark}
      BY <1>1, <2>1, <2>11 DEF Deenergize, Reenergize, DoorTurn, PowerRestored
    <3> QED BY <2>1, <3>1 DEF Dark
  <2> QED BY <1>4, <2>2, <2>3, <2>4, <2>5, <2>6, <2>7, <2>8, <2>9, <2>10, <2>11 DEF LaserNext
<1> QED BY <1>2, <1>3, <1>4

\* A parking motion turns the spindle no more than the suspend loop restores it.
LEMMA QuietStep ==
  ASSUME TypeInv, DoorInv, BeamInv, PlbRight, SuspRight, Aborting, OneSpindle, Quiet,
         ~HoldAtRest, [LaserNext]_allVars
  PROVE  Quiet'
<1> SUFFICES ASSUME Clean', gc'.spindle = "Disable", reset' # "aborting", sys'.ctl.executeSysMotion
             PROVE  work'[Park].spindle = "Disable"
  BY MainQuiet, RingStep DEF Quiet
<1>1. Clean /\ DOMAIN work = Blocks /\ Park \in Blocks
  BY LaserFrame, BlocksType DEF BeamInv, FillShape
<1>2. CASE \E l \in Lines : Line(l)
  <2>1. ~sys.ctl.executeSysMotion /\ UNCHANGED sys
    BY <1>2, LineEffect
  <2> QED BY <2>1
<1>3. CASE Cleared
  BY <1>3 DEF Cleared, Reset, SysReset, NoControl
<1>4. CASE ~Cleared /\ ~(\E l \in Lines : Line(l))
  <2>1. /\ reset # "aborting" /\ gc' = gc
        /\ sys.ctl.executeSysMotion => work[Park].spindle = "Disable"
        /\ susp.inside => susp.restore.spindle = "Disable"
    BY <1>1, <1>4, LaserFrame DEF Abort, Quiet
  <2>2. CASE Parks
    <3>1. susp.inside /\ work' = [work EXCEPT ![Park] = IF susp.phase = "off" THEN Off ELSE susp.restore]
      BY <2>2 DEF Parks, Due
    <3> QED BY <1>1, <2>1, <3>1 DEF Off
  <2>3. CASE ~Parks
    <3>1. UNCHANGED work
      BY <1>4, <2>3 DEF LaserNext, LoadNew, LoadSame, Segment, Fill, Step, Empty, Hold, Resume,
         ResumeStopped, ResumeBlocked, CycleStopped, Restoring, Reopened, QuietPass, Override,
         StopCharacter, EnterSuspend, HoldTurn, Deenergize, Reenergize, DoorTurn, Parked, ResetStops,
         ResetKills, Abort, laserVars, allVars
    <3>2. sys'.ctl.executeSysMotion => sys.ctl.executeSysMotion
      <4>1. CASE LoadNew \/ LoadSame \/ Segment \/ Fill \/ Step \/ Empty
        BY <4>1, PrepSys DEF LoadNew, LoadSame, Segment, Fill, Step, Empty, Prep, SameSys
      <4>2. CASE Hold
        BY <4>2, HoldSys DEF Hold
      <4>3. CASE Resume
        BY <4>3, StartSys DEF Resume
      <4>4. CASE CycleStopped
        BY <4>4, CycleStopSys DEF CycleStopped
      <4>5. CASE Restoring \/ Reopened \/ Parked \/ ResetKills
        <5>1. StartRestore \/ DoorReopened \/ Others \/ ParkRestore
          BY <4>5 DEF Restoring, Reopened, Parked, ResetKills, Others
        <5> QED BY <5>1, DoorSys, ReopenedSys
      <4>6. CASE ResumeStopped \/ ResumeBlocked \/ QuietPass \/ Override
        \/ StopCharacter \/ EnterSuspend \/ HoldTurn \/ Deenergize \/ Reenergize \/ DoorTurn \/ ResetStops
        \/ Abort \/ UNCHANGED allVars
        BY <4>6 DEF ResumeStopped, ResumeBlocked, QuietPass, Override,
           StopCharacter, EnterSuspend, HoldTurn, Deenergize, Reenergize, DoorTurn, ResetStops, Abort,
           allVars, vars, protocolVars
      <4> QED BY <1>4, <2>3, <4>1, <4>2, <4>3, <4>4, <4>5, <4>6 DEF LaserNext
    <3> QED BY <2>1, <3>1, <3>2
  <2> QED BY <2>2, <2>3
<1> QED BY <1>2, <1>3, <1>4

-----------------------------------------------------------------------------
\* In M4 (of laser mode) every queued segment is marked for the interrupt to switch the
\* beam off behind it, and a beam that a segment has lit is still the interrupt's.
Dimmed == Clean /\ reset # "aborting" /\ laserMode /\ gc.spindle = "Ccw" =>
  /\ \A i \in Slots : Queued(i) => fill.adjusted[seg[i].slot]
  /\ beam.by = "segment" => exec /\ fill.adjusted[st.slot]
  /\ beam.by = "segment" /\ ~timer /\ reset = "no" => beam.power = 0

\* What the steps of the main task leave to the interrupt.
LEMMA MainFrame ==
  ASSUME TypeInv, DoorInv, ~HoldAtRest, [LaserNext]_allVars
  PROVE  \/ \E l \in Lines : Line(l)
         \/ Step \/ Empty \/ Cleared \/ Abort
         \/ /\ exec' = exec /\ st' = st /\ (beam' = beam \/ beam'.by = "main")
            /\ reset' = "no" => reset = "no" /\ (timer => timer')
<1> DEFINE Goal == /\ exec' = exec /\ st' = st /\ (beam' = beam \/ beam'.by = "main")
                   /\ reset' = "no" => reset = "no" /\ (timer => timer')
<1>1. CASE LoadNew \/ LoadSame \/ Segment
  BY <1>1 DEF LoadNew, LoadSame, Segment, PrepLoadNew, PrepLoadSame, PrepSegment, isrVars
<1>2. CASE Fill
  <2>1. UNCHANGED <<exec, beam, reset>>
    BY <1>2 DEF Fill, laserVars
  <2>2. st' = st /\ (timer => timer')
    BY <1>2 DEF Fill, PrepEnter, PrepReturn, PrepKeep, PublishMore, PublishLast, PublishBlockEnd,
                Publish, WakeUp, isrVars
  <2> QED BY <2>1, <2>2
<1>3. CASE Hold \/ Resume
  <2>1. UNCHANGED <<exec, beam, reset>>
    BY <1>3 DEF Hold, Resume
  <2>2. FeedHold \/ SafetyDoor \/ CycleStart \/ DoorResume
    BY <1>3 DEF Hold, Resume
  <2>3. UNCHANGED isrVars
    BY <2>2, HoldSys, StartSys
  <2> QED BY <2>1, <2>3 DEF isrVars
<1>4. CASE CycleStopped
  <2>1. UNCHANGED <<exec, beam, reset, st, timer>>
    BY <1>4 DEF CycleStopped, HandleCycleStop
  <2> QED BY <2>1
<1>5. CASE Restoring \/ Parks \/ Parked
  <2>1. UNCHANGED <<exec, beam, reset>>
    BY <1>5 DEF Restoring, Parks, Parked, laserVars
  <2>2. UNCHANGED isrVars
    BY <1>5 DEF Restoring, Parks, Parked, StartRestore, ParkMotion, ParkRestore
  <2> QED BY <2>1, <2>2 DEF isrVars
<1>6. CASE Reopened
  <2>1. UNCHANGED <<exec, beam, reset, isrVars>>
    BY <1>6 DEF Reopened, DoorReopened
  <2> QED BY <2>1 DEF isrVars
<1>7. CASE ResumeStopped \/ ResumeBlocked \/ QuietPass \/ Override \/ StopCharacter \/ EnterSuspend
           \/ HoldTurn \/ Deenergize \/ Reenergize \/ DoorTurn \/ ResetStops \/ UNCHANGED allVars
  <2>1. UNCHANGED vars /\ exec' = exec
    BY <1>7 DEF ResumeStopped, ResumeBlocked, QuietPass, Override, StopCharacter, EnterSuspend,
                HoldTurn, Deenergize, Reenergize, DoorTurn, ResetStops, allVars, laserVars
  <2>2. beam' = beam \/ beam'.by = "main"
    <3>1. Dark.by = "main" /\ \A s, p : State(s, p).by = "main"
      BY DEF Dark, State
    <3>2. HoldTurn => beam' = beam \/ beam'.by = "main"
      BY <3>1 DEF HoldTurn, PowerRestored
    <3>3. Reenergize \/ Override => beam' = beam \/ beam'.by = "main"
      BY <3>1 DEF Reenergize, PowerRestored, Override
    <3>4. Deenergize \/ ResetStops => beam' = Dark
      BY DEF Deenergize, ResetStops
    <3>5. ResumeStopped \/ ResumeBlocked \/ QuietPass \/ StopCharacter \/ EnterSuspend \/ DoorTurn
            \/ UNCHANGED allVars => beam' = beam
      BY DEF ResumeStopped, ResumeBlocked, QuietPass, StopCharacter, EnterSuspend, DoorTurn,
             allVars, laserVars
    <3> QED BY <1>7, <3>1, <3>2, <3>3, <3>4, <3>5
  <2>3. reset' = "no" => reset = "no"
    BY <1>7 DEF ResumeStopped, ResumeBlocked, QuietPass, Override, StopCharacter, EnterSuspend,
                HoldTurn, Deenergize, Reenergize, DoorTurn, ResetStops, allVars, laserVars
  <2> QED BY <2>1, <2>2, <2>3 DEF vars, isrVars
<1>8. CASE ResetKills
  BY <1>8 DEF ResetKills
<1> QED BY <1>1, <1>2, <1>3, <1>4, <1>5, <1>6, <1>7, <1>8 DEF LaserNext

\* The mark is set with the block, read with the segment and obeyed at the end of the ring.
LEMMA DimmedStep ==
  ASSUME TypeInv, DoorInv, BeamInv, PlbRight, SuspRight, Aborting, OneSpindle, Dimmed,
         ~HoldAtRest, [LaserNext]_allVars
  PROVE  Dimmed'
<1> SUFFICES ASSUME Clean', reset' # "aborting", laserMode', gc'.spindle = "Ccw"
             PROVE  /\ \A i \in Slots : Queued(i)' => fill'.adjusted[seg'[i].slot]
                    /\ beam'.by = "segment" => exec' /\ fill'.adjusted[st'.slot]
                    /\ beam'.by = "segment" /\ ~timer' /\ reset' = "no" => beam'.power = 0
  BY DEF Dimmed
<1>1. /\ Clean /\ laserMode /\ Positions /\ FillShape /\ AdjustedRight /\ Unparked /\ PrepTypes
      /\ head \in Slots /\ tail \in Slots
  BY LaserFrame, LaserSteps DEF TypeInv, TypeOK, PrepTypes, IsrTypes, BeamInv
<1>2. CASE \E l \in Lines : Line(l)
  <2>1. PICK l \in Lines : Line(l)
    BY <1>2
  <2>2. /\ reset # "aborting" /\ UNCHANGED <<fill, seg, head, tail, exec, st, timer, reset>>
        /\ SpindleSync(l) => head = tail /\ beam'.by = "main"
        /\ ~SpindleSync(l) => gc.spindle = "Ccw" /\ (beam' = beam \/ beam'.by = "main")
    <3>1. State(l.spindle, DataSpeed(l)).by = "main"
      BY DEF State
    <3> QED BY <2>1, <3>1, LineEffect
  <2>3. head = tail => \A i \in Slots : ~Queued(i)'
    BY <1>1, <2>2, SlotsType DEF Queued
  <2> QED BY <1>1, <2>2, <2>3 DEF Dimmed, Queued
<1>3. CASE ~(\E l \in Lines : Line(l))
  <2>1. gc' = gc /\ reset # "aborting"
    <3>1. gc' = gc
      BY <1>3, LaserFrame DEF Abort
    <3>2. reset = "aborting" => gc.spindle = "Disable"
      BY DEF Aborting, GcInit
    <3> QED BY <3>1, <3>2
  <2>2. ~Cleared /\ ~Abort
    BY <2>1 DEF Cleared, Abort
  <2>3. /\ \A i \in Slots : Queued(i) => fill.adjusted[seg[i].slot]
        /\ beam.by = "segment" => exec /\ fill.adjusted[st.slot]
        /\ beam.by = "segment" /\ ~timer /\ reset = "no" => beam.power = 0
    BY <1>1, <2>1 DEF Dimmed
  <2>4. CASE Step
    <3>1. /\ UNCHANGED <<fill, seg, head, timer>> /\ exec' = TRUE /\ timer
          /\ tail' = tail \/ (tail # head /\ tail' = NextSlot(tail))
          /\ beam' = IF st.loaded THEN beam ELSE [power |-> fill.seg[tail], by |-> "segment"]
          /\ tail # head
      BY <1>1, <2>4 DEF Step, IsrStep, prepVars, Positions
    <3>2. \A i \in Slots : Queued(i)' => Queued(i)
      BY <3>1, ConsumeQueue DEF Queued
    <3>3. Queued(tail)
      BY <1>1, <3>1, SlotsType DEF Queued
    <3>4. st'.slot = IF st.loaded THEN st.slot ELSE seg[tail].slot
      <4>1. \E a, b, c : st' = [Loaded EXCEPT !.count = a, !.loaded = b, !.counter = c]
        BY <2>4 DEF Step, IsrStep
      <4>2. DOMAIN Loaded = {"loaded", "slot", "count", "counter"}
        BY DEF Loaded, TypeInv, TypeOK, IsrTypes, StType
      <4>3. Loaded.slot = IF st.loaded THEN st.slot ELSE seg[tail].slot
        BY DEF Loaded
      <4> QED BY <4>1, <4>2, <4>3
    <3> QED BY <1>1, <2>3, <3>1, <3>2, <3>3, <3>4
  <2>5. CASE Empty
    <3>1. /\ UNCHANGED <<fill, seg, head, tail, st, exec>> /\ beam' = EmptyBeam
      BY <2>5 DEF Empty, IsrEmpty, prepVars
    <3>2. beam'.by = "segment" => exec /\ fill.adjusted[st.slot] /\ beam'.power = 0
      BY <2>3, <3>1 DEF EmptyBeam
    <3> QED BY <2>3, <3>1, <3>2 DEF Queued
  <2>6. CASE ~Step /\ ~Empty
    <3>1. /\ exec' = exec /\ st' = st /\ (beam' = beam \/ beam'.by = "main")
          /\ reset' = "no" => reset = "no" /\ (timer => timer')
      BY <1>3, <2>2, <2>6, MainFrame
    <3>2. /\ beam'.by = "segment" /\ ~timer' /\ reset' = "no" => beam'.power = 0
          /\ beam'.by = "segment" => beam.by = "segment"
      BY <2>3, <3>1
    <3>4. \A i \in BlkSlots : fill.adjusted[i] => fill'.adjusted[i]
      <4>1. CASE LoadNew
        <5>1. /\ UNCHANGED <<sys, plan>> /\ QueryBlock # NoBlock
              /\ fill' = [fill EXCEPT !.adjusted[NextBlk(prep.slot)] = RateAdjusted(QueryBlock),
                                      !.update = TRUE]
          BY <4>1 DEF LoadNew, PrepLoadNew, protocolVars
        <5>2. plan \in Seq(Planned) /\ NoBlock \notin Planned
          BY PlannedNumbers DEF TypeInv, TypeOK, ProtocolTypes
        <5>3. plan # <<>> /\ QueryBlock = Head(plan)
          BY <1>1, <5>1, <5>2 DEF QueryBlock, CurrentBlock, Unparked
        <5>4. Head(plan) = plan[1] /\ 1 \in DOMAIN plan /\ Head(plan) \in Planned
          BY <5>2, <5>3
        <5>5. RateAdjusted(QueryBlock)
          BY <1>1, <2>1, <5>3, <5>4 DEF RateAdjusted, OneSpindle, Live
        <5> QED BY <1>1, <5>1, <5>5 DEF FillShape
      <4>2. CASE LoadSame \/ Segment
        <5>1. fill'.adjusted = fill.adjusted
          BY <1>1, <4>2 DEF LoadSame, Segment, FillShape
        <5> QED BY <5>1
      <4>3. CASE UNCHANGED laserVars
        BY <4>3 DEF laserVars
      <4>4. CASE CalmBuffer /\ CalmPowers
        BY <4>4 DEF CalmPowers
      <4> QED BY <1>3, <2>6, <4>1, <4>2, <4>3, <4>4, LaserKinds
    <3>5. \A i \in Slots : Queued(i)' => seg'[i].slot \in BlkSlots /\ fill.adjusted[seg'[i].slot]
      <4>1. \A i \in Slots : seg[i].slot \in BlkSlots
        BY <1>1 DEF PrepTypes, SegmentType
      <4>2. CASE LoadNew \/ LoadSame
        <5>1. UNCHANGED <<seg, head, tail>>
          BY <4>2 DEF LoadNew, LoadSame, PrepLoadNew, PrepLoadSame, isrVars
        <5> QED BY <2>3, <4>1, <5>1 DEF Queued
      <4>3. CASE Segment
        <5>1. UNCHANGED <<head, tail>> /\ \E s : seg' = [seg EXCEPT ![head] = s]
          BY <4>3 DEF Segment, PrepSegment, isrVars
        <5>2. ~Queued(head)
          BY <1>1, SlotsType DEF Queued
        <5>3. \A i \in Slots : Queued(i)' => Queued(i) /\ seg'[i] = seg[i]
          BY <1>1, <5>1, <5>2 DEF Queued, PrepTypes
        <5> QED BY <2>3, <4>1, <5>3
      <4>4. CASE (PublishMore \/ PublishLast \/ PublishBlockEnd) /\ UNCHANGED laserVars
        <5>1. UNCHANGED <<seg, tail>> /\ Publish /\ pc = "publish"
          BY <4>4 DEF PublishMore, PublishLast, PublishBlockEnd, Publish, isrVars
        <5>2. \A i \in Slots : Queued(i)' => i = head \/ Queued(i)
          BY <5>1, PublishQueue
        <5>3. seg[head].slot = prep.slot /\ InMaking /\ plb \in Planned /\ plb # NoBlock
          BY <1>1, <5>1 DEF Positions, InMaking, PrepTypes, Blocks, Unparked, PlbRight
        <5>4. work[plb].spindle = "Ccw" /\ plb = Head(plan)
          BY <1>1, <2>1, <5>3 DEF OneSpindle, Live, PlbRight
        <5>5. fill.adjusted[seg[head].slot]
          BY <1>1, <5>3, <5>4 DEF AdjustedRight
        <5> QED BY <2>3, <4>1, <5>1, <5>2, <5>5
      <4>5. CASE CalmBuffer /\ CalmPowers
        BY <2>3, <4>1, <4>5 DEF CalmBuffer
      <4> QED BY <1>3, <2>6, <4>2, <4>3, <4>4, <4>5, LaserKinds
    <3>6. st.slot \in BlkSlots
      BY DEF TypeInv, TypeOK, IsrTypes, StType
    <3> QED BY <2>3, <3>1, <3>2, <3>4, <3>5, <3>6
  <2> QED BY <2>4, <2>5, <2>6
<1> QED BY <1>2, <1>3

-----------------------------------------------------------------------------
\* Position and power are restored behind a door only.
RestoresInDoor == sys.restoring => sys.state = "SafetyDoor"

\* The door is the only way into a restore, and a start the only way on.
LEMMA RestoringStep ==
  ASSUME TypeInv, DoorInv, RestoresInDoor, ~HoldAtRest, [LaserNext]_allVars
  PROVE  RestoresInDoor'
<1>1. sys \in SysType
  BY DEF TypeInv, TypeOK, ProtocolTypes
<1>2. [Next]_vars \/ Others
  BY LaserSteps
<1>3. CASE Prep \/ BufferLine \/ IsrStep \/ IsrEmpty \/ UNCHANGED vars
  BY <1>3, PrepSys DEF SameSys, RestoresInDoor
<1>4. CASE CycleStart \/ DoorResume
  BY <1>1, <1>4 DEF CycleStart, DoorResume, Start, RestoresInDoor, SysType
<1>5. CASE FeedHold \/ SafetyDoor
  <2>1. sys'.restoring = sys.restoring
    BY <1>1, <1>5 DEF FeedHold, SafetyDoor, Suspend, SysType
  <2> QED BY <1>5, <2>1, HoldSys DEF RestoresInDoor
<1>6. CASE HandleCycleStop
  <2>1. sys'.restoring = sys.restoring
    BY <1>1, <1>6 DEF HandleCycleStop, Stopped, SysType
  <2> QED BY <1>6, <2>1, CycleStopSys DEF RestoresInDoor, Held
<1>7. CASE StartRestore \/ Others \/ ParkRestore \/ ParkMotion
  <2>1. (sys'.restoring => sys.restoring) \/ StartRestore
    <3>1. ParkRestore \/ ParkMotion => sys'.restoring = sys.restoring
      BY <1>1 DEF ParkRestore, ParkMotion, SysType
    <3>2. Others => ~sys'.restoring \/ sys' = sys
      BY <1>1 DEF Others, protocolVars, SysType
    <3> QED BY <1>7, <3>1, <3>2
  <2>2. sys'.state = sys.state /\ (StartRestore => sys.state = "SafetyDoor")
    BY <1>7, DoorSys, ParkSys DEF StartRestore
  <2> QED BY <2>1, <2>2 DEF RestoresInDoor
<1>8. CASE DoorReopened
  BY <1>8, ReopenedSys DEF RestoresInDoor
<1>9. CASE Reset
  BY <1>9 DEF Reset, SysReset, RestoresInDoor
<1> QED BY <1>2, <1>3, <1>4, <1>5, <1>6, <1>7, <1>8, <1>9
        DEF Next, Prep, Protocol, Handlers, Parking, Interrupt

\* A hold that the suspend loop has seen asks for the spindle stop, is about to take it
\* up, or is dark: stopped, about to be resumed by the loop, or with no power to stop.
HoldDark ==
  laserMode /\ excused = {} /\ sys.state = "Hold" /\ susp.inside =>
    \/ susp.request /\ susp.stop = "none" /\ ~susp.resume
    \/ susp.stop = "initiate" /\ susp.due /\ ~susp.request /\ ~susp.resume
    \/ /\ beam.power = 0 /\ ~susp.request
       /\ \/ susp.stop \in {"enabled", "restoreCycle"} /\ ~susp.resume
          \/ susp.stop = "none" /\ susp.resume /\ ~susp.due
          \/ susp.stop = "none" /\ gc.spindle = "Disable"

\* The beam of a door that has been de-energised.
DoorDark ==
  laserMode /\ excused = {} /\ sys.state = "SafetyDoor" /\ susp.phase # "hold"
    => beam.power = 0

\* A hold that the loop is in, and a door that has been de-energised, stand still.
LEMMA HeldQuiet ==
  ASSUME TypeInv, DoorInv, BeamInv, SuspRight, laserMode,
         (sys.state = "Hold" /\ susp.inside) \/ susp.phase # "hold"
  PROVE  /\ ~timer /\ ~cycle_stop /\ sys.holdComplete /\ ~sys.parkCall
         /\ ~Step /\ ~Empty /\ ~CycleStopped
<1>1. /\ HeldStill /\ Unparked
  BY DEF DoorInv, BeamInv
<1>2. Held /\ sys.holdComplete /\ ~sys.ctl.executeSysMotion /\ ~sys.parkCall
  BY <1>1 DEF SuspRight, Held, Unparked
<1>3. ~timer /\ ~cycle_stop
  BY <1>1, <1>2 DEF HeldStill
<1> QED BY <1>2, <1>3 DEF Step, Empty, IsrStep, IsrEmpty, CycleStopped, HandleCycleStop

\* Passes and turns of the loop take the stop from one state to the next.
LEMMA HoldDarkStep ==
  ASSUME TypeInv, DoorInv, BeamInv, PlbRight, SuspRight, Aborting, OneSpindle, Quiet,
         RestoresInDoor, HoldDark, ~HoldAtRest, [LaserNext]_allVars
  PROVE  HoldDark'
<1> SUFFICES ASSUME laserMode', excused' = {}, sys'.state = "Hold", susp'.inside
             PROVE  HoldDark'
  BY DEF HoldDark
<1>1. /\ laserMode /\ Unparked /\ sys \in SysType
      /\ DOMAIN susp = {"inside", "due", "restore", "phase", "stop", "request", "resume"}
  BY LaserSteps DEF BeamInv, SuspRight, TypeInv, TypeOK, ProtocolTypes
<1>2. ~Resume /\ ~Hold /\ ~Abort /\ ~Cleared /\ \A l \in Lines : ~Line(l)
  <2>1. ~Resume
    <3>1. Resume => CycleStart \/ DoorResume
      BY DEF Resume
    <3> QED BY <3>1, StartSys
  <2>2. ~Hold
    <3>1. Hold => (FeedHold \/ SafetyDoor) /\ susp' = PassEnd([susp EXCEPT !.resume = FALSE])
      BY DEF Hold
    <3>2. Hold => sys.state = "Cycle" /\ susp'.inside = susp.inside
      <4> DEFINE s == [susp EXCEPT !.resume = FALSE]
      <4>1. DOMAIN s = DOMAIN susp /\ s.inside = susp.inside
        BY <1>1
      <4>2. Hold => susp' = PassEnd(s)
        BY <3>1
      <4> HIDE DEF s
      <4> QED BY <1>1, <3>1, <4>1, <4>2, HoldSys, PassEndEffect
    <3> QED BY <3>2 DEF SuspRight, Held
  <2>3. ~Abort /\ ~Cleared
    <3>1. (Abort => susp' = SuspInit) /\ (Cleared => sys' = SysReset)
      BY DEF Abort, Cleared, Reset
    <3> QED BY <3>1 DEF SuspInit, SysReset
  <2>4. \A l \in Lines : ~Line(l)
    BY LineEffect DEF Held
  <2> QED BY <2>1, <2>2, <2>3, <2>4
<1>3. excused = {} /\ Clean /\ gc' = gc
  BY <1>2, LaserFrame DEF Clean
<1> DEFINE Old == sys.state = "Hold" /\ susp.inside
<1>4. Old => \/ susp.request /\ susp.stop = "none" /\ ~susp.resume
             \/ susp.stop = "initiate" /\ susp.due /\ ~susp.request /\ ~susp.resume
             \/ /\ beam.power = 0 /\ ~susp.request
                /\ \/ susp.stop \in {"enabled", "restoreCycle"} /\ ~susp.resume
                   \/ susp.stop = "none" /\ susp.resume /\ ~susp.due
                   \/ susp.stop = "none" /\ gc.spindle = "Disable"
  BY <1>1, <1>3 DEF HoldDark
<1>5. CASE LoadNew \/ LoadSame \/ Segment \/ Fill \/ ResetKills \/ UNCHANGED allVars
  <2>1. UNCHANGED <<susp, beam>>
    BY <1>5 DEF LoadNew, LoadSame, Segment, Fill, ResetKills, laserVars, allVars
  <2>2. sys'.state = sys.state
    <3>1. Prep \/ Others \/ UNCHANGED vars
      BY <1>5 DEF LoadNew, LoadSame, Segment, Fill, ResetKills, Prep, Others, allVars
    <3> QED BY <3>1, PrepSys, DoorSys DEF SameSys
  <2> QED BY <1>3, <1>4, <2>1, <2>2 DEF HoldDark
<1>6. ~(Step \/ Empty)
  <2>1. Step \/ Empty => sys'.state = sys.state /\ susp' = susp
    BY PrepSys DEF Step, Empty, SameSys
  <2> QED BY <1>1, <2>1, HeldQuiet
<1>7. ~ResumeBlocked /\ ~Override /\ ~StopCharacter
  BY DEF ResumeBlocked, Override, StopCharacter
<1>8. ~CycleStopped
  <2>1. CycleStopped => HandleCycleStop /\ susp' = PassEnd(susp)
    BY DEF CycleStopped
  <2>2. CycleStopped => sys.state = "Hold" /\ susp.inside
    BY <1>1, <2>1, CycleStopSys, PassEndEffect DEF Held
  <2> QED BY <1>1, <2>2, HeldQuiet
<1>9. ~Restoring /\ ~Reopened /\ ~Deenergize /\ ~Reenergize /\ ~DoorTurn /\ ~Parks /\ ~Parked
  <2>1. Restoring => sys.state = "SafetyDoor" /\ sys'.state = sys.state
    BY DoorSys DEF Restoring, StartRestore
  <2>2. Reopened => sys.state = "SafetyDoor" /\ sys'.state = sys.state
    <3>1. Reopened => DoorReopened \/ (Others /\ sys.restoring)
      BY DEF Reopened, Others
    <3> QED BY <3>1, DoorSys, ReopenedSys DEF RestoresInDoor
  <2>3. Deenergize \/ Reenergize \/ DoorTurn => sys.state = "SafetyDoor" /\ sys' = sys
    BY DEF Deenergize, Reenergize, DoorTurn, vars, protocolVars, SuspRight
  <2>4. ~Parks /\ ~Parked
    BY <1>1 DEF Parks, Parked, ParkRestore, Unparked
  <2> QED BY <2>1, <2>2, <2>3, <2>4
<1>10. CASE ResumeStopped
  <2> DEFINE s == [susp EXCEPT !.request = FALSE]
  <2>1. /\ UNCHANGED <<sys, beam>> /\ susp.stop # "none" /\ ~susp.resume /\ Pass
        /\ susp' = [PassEnd(s) EXCEPT !.stop = "restoreCycle"]
        /\ sys.state = "Hold" /\ sys.holdComplete
    BY <1>10 DEF ResumeStopped, vars, protocolVars
  <2>2. DOMAIN s = DOMAIN susp /\ s.inside = susp.inside /\ s.resume = susp.resume
    BY <1>1
  <2> HIDE DEF s
  <2>3. susp.inside /\ ~susp.due
    <3>1. Suspended
      BY <2>1 DEF Suspended
    <3>2. susp.inside
      BY <2>1, <3>1 DEF Pass
    <3> QED BY <1>1, <2>1, <3>1, <3>2, HeldQuiet DEF Pass
  <2>4. susp'.stop = "restoreCycle" /\ ~susp'.request /\ ~susp'.resume
    BY <1>1, <2>1, <2>2, PassEndEffect
  <2> QED BY <1>4, <2>1, <2>3, <2>4 DEF HoldDark
<1>11. CASE QuietPass
  <2>1. UNCHANGED <<sys, beam>> /\ susp' = PassEnd(susp) /\ ~susp.resume
    BY <1>11 DEF QuietPass
  <2>2. /\ susp.inside /\ ~susp'.request /\ ~susp'.resume /\ susp'.due
        /\ ~susp.request => susp'.stop = susp.stop
        /\ susp.request /\ susp.stop = "none" => susp'.stop = "initiate"
    BY <1>1, <2>1, PassEndEffect
  <2> QED BY <1>3, <1>4, <2>1, <2>2 DEF HoldDark
<1>12. CASE EnterSuspend
  <2>1. /\ ~susp.inside /\ susp'.request /\ susp'.stop = susp.stop /\ susp'.resume = susp.resume
    BY <1>1, <1>12 DEF EnterSuspend
  <2> QED BY <1>3, <2>1 DEF SuspRight, HoldDark
<1>13. CASE HoldTurn
  <2>1. Old /\ susp.due
    BY <1>13 DEF HoldTurn, Due
  <2>2. gc.spindle = "Disable" => beam.power = 0 /\ susp.restore.spindle = "Disable"
    BY <1>3, <2>1 DEF Quiet
  <2>3. CASE /\ susp.stop = "initiate"
             /\ beam' = IF gc.spindle = "Disable" THEN beam ELSE Dark
             /\ susp' = [susp EXCEPT !.due = FALSE,
                           !.stop = IF gc.spindle = "Disable" THEN "none" ELSE "enabled"]
    BY <1>1, <1>3, <1>4, <2>1, <2>2, <2>3 DEF HoldDark, Dark
  <2>4. CASE /\ susp.stop \in {"restore", "restoreCycle"}
             /\ PowerRestored
             /\ susp' = [susp EXCEPT !.due = FALSE, !.stop = "none",
                                     !.resume = (susp.stop = "restoreCycle")]
    <3>1. beam' = beam
      BY <1>1, <2>4 DEF PowerRestored
    <3> QED BY <1>1, <1>3, <1>4, <2>1, <2>2, <2>4, <3>1 DEF HoldDark
  <2>5. CASE /\ susp.stop = "none"
             /\ beam' = IF fill.update THEN State(susp.restore.spindle, susp.restore.speed)
                                       ELSE beam
             /\ susp' = [susp EXCEPT !.due = FALSE]
    BY <1>1, <1>3, <1>4, <2>1, <2>2, <2>5 DEF HoldDark, State
  <2>6. CASE /\ susp.stop = "enabled"
             /\ susp' = [susp EXCEPT !.due = FALSE]
             /\ UNCHANGED <<beam, fill>>
    BY <1>1, <1>3, <1>4, <2>1, <2>6 DEF HoldDark
  <2> QED BY <1>13, <2>3, <2>4, <2>5, <2>6 DEF HoldTurn
<1>14. CASE ResetStops
  <2>1. UNCHANGED <<sys, susp>> /\ beam' = Dark
    BY <1>14 DEF ResetStops, vars, protocolVars
  <2> QED BY <1>3, <1>4, <2>1 DEF HoldDark, Dark
<1> QED BY <1>2, <1>5, <1>6, <1>7, <1>8, <1>9, <1>10, <1>11, <1>12, <1>13, <1>14 DEF LaserNext

\* The beam is off before the door counts as de-energised, and nothing puts it on again.
LEMMA DoorDarkStep ==
  ASSUME TypeInv, DoorInv, BeamInv, PlbRight, SuspRight, Aborting, DoorDark,
         ~HoldAtRest, [LaserNext]_allVars
  PROVE  DoorDark'
<1> SUFFICES ASSUME laserMode', excused' = {}, sys'.state = "SafetyDoor", susp'.phase # "hold"
             PROVE  beam'.power = 0
  BY DEF DoorDark
<1>1. /\ laserMode /\ sys \in SysType
      /\ DOMAIN susp = {"inside", "due", "restore", "phase", "stop", "request", "resume"}
  BY LaserSteps DEF BeamInv, SuspRight, TypeInv, TypeOK, ProtocolTypes
<1>2. susp.phase # "hold" => beam.power = 0 \/ Resume
  BY <1>1, LaserFrame DEF DoorDark, SuspRight
<1>3. ~Resume /\ ~Abort /\ ~Cleared /\ ~Override /\ \A l \in Lines : ~Line(l)
  <2>1. ~Resume
    <3>1. Resume => CycleStart \/ DoorResume
      BY DEF Resume
    <3> QED BY <3>1, StartSys
  <2>2. ~Abort /\ ~Cleared
    <3>1. (Abort => susp' = SuspInit) /\ (Cleared => sys' = SysReset)
      BY DEF Abort, Cleared, Reset
    <3> QED BY <3>1 DEF SuspInit, SysReset
  <2>3. ~Override
    BY DEF Override
  <2>4. \A l \in Lines : ~Line(l)
    BY LineEffect DEF Held
  <2> QED BY <2>1, <2>2, <2>3, <2>4
<1>4. CASE Deenergize \/ ResetStops
  <2>1. beam' = Dark
    BY <1>4 DEF Deenergize, ResetStops
  <2> QED BY <2>1 DEF Dark
<1>5. CASE susp.phase # "hold"
  <2>1. ~Step /\ ~Empty
    BY <1>1, <1>5, HeldQuiet
  <2>2. ~HoldTurn
    BY <1>5 DEF HoldTurn, SuspRight
  <2>3. CASE Reenergize
    BY <1>1, <1>2, <1>3, <1>5, <2>3 DEF Reenergize, PowerRestored
  <2>4. CASE ~Reenergize /\ ~Deenergize /\ ~ResetStops
    <3>1. beam' = beam
      BY <1>3, <2>1, <2>2, <2>4 DEF LaserNext, LoadNew, LoadSame, Segment, Fill, Hold, ResumeStopped,
         ResumeBlocked, CycleStopped, Restoring, Reopened, QuietPass, StopCharacter, EnterSuspend,
         DoorTurn, Parks, Parked, ResetKills, laserVars, allVars
    <3> QED BY <1>2, <1>3, <1>5, <3>1
  <2> QED BY <1>4, <2>3, <2>4
<1>6. CASE susp.phase = "hold" /\ ~Deenergize /\ ~ResetStops
  <2>1. ~Reenergize
    BY <1>6 DEF Reenergize
  <2>2. CASE Hold \/ ResumeStopped \/ ResumeBlocked \/ CycleStopped \/ Restoring \/ Reopened \/ QuietPass
    <3> DEFINE a == [susp EXCEPT !.resume = FALSE]
               b == [susp EXCEPT !.request = FALSE]
               c == [susp EXCEPT !.phase = "hold", !.resume = FALSE]
    <3>1. \/ susp' \in {PassEnd(susp), PassEnd(a), PassEnd(c)}
          \/ susp' = [PassEnd(b) EXCEPT !.stop = "restoreCycle"]
      BY <2>2 DEF Hold, ResumeStopped, ResumeBlocked, CycleStopped, Restoring, Reopened, QuietPass
    <3>2. /\ DOMAIN a = DOMAIN susp /\ DOMAIN b = DOMAIN susp /\ DOMAIN c = DOMAIN susp
          /\ a.phase = susp.phase /\ b.phase = susp.phase /\ c.phase = "hold"
      BY <1>1
    <3> HIDE DEF a, b, c
    <3>3. susp'.phase = "hold"
      BY <1>1, <1>6, <3>1, <3>2, PassEndEffect
    <3> QED BY <3>3
  <2>3. CASE LoadNew \/ LoadSame \/ Segment \/ Fill \/ Step \/ Empty \/ Parks \/ Parked \/ ResetKills
             \/ UNCHANGED allVars
    <3>1. UNCHANGED susp
      BY <2>3 DEF LoadNew, LoadSame, Segment, Fill, Step, Empty, Parks, Parked, ResetKills, laserVars,
                  allVars
    <3> QED BY <1>6, <3>1
  <2>4. CASE StopCharacter \/ EnterSuspend \/ HoldTurn \/ DoorTurn
    <3>1. susp'.phase = susp.phase
      BY <1>1, <2>4 DEF StopCharacter, EnterSuspend, HoldTurn, DoorTurn
    <3> QED BY <1>6, <3>1
  <2> QED BY <1>3, <1>6, <2>1, <2>2, <2>3, <2>4 DEF LaserNext
<1> QED BY <1>4, <1>5, <1>6

\* The inductive invariant.
DarkInv == /\ PlbRight /\ RestoresInDoor /\ Aborting /\ SuspRight /\ OneSpindle /\ Quiet /\ Dimmed
           /\ HoldDark /\ DoorDark

\* Nothing is lit at power-up.
LEMMA DarkInit == LaserInit => DarkInv
<1> SUFFICES ASSUME LaserInit PROVE DarkInv
  OBVIOUS
<1>1. /\ plan = <<>> /\ plb = NoBlock /\ pc = "top" /\ head = 0 /\ tail = 0
      /\ sys = SysReset /\ gc = GcInit /\ susp = SuspInit /\ beam = Dark /\ reset = "no"
      /\ excused = {}
  BY DEF LaserInit, Init
<1>2. \A i \in Slots : ~Queued(i)
  BY <1>1 DEF Queued, Slots
<1>3. NoBlock \notin Planned /\ NoBlock # Park
  BY DEF NoBlock, Planned, Park
<1>4. PlbRight /\ RestoresInDoor /\ Aborting
  BY <1>1, <1>3 DEF PlbRight, RestoresInDoor, Aborting, SysReset
<1>5. SuspRight
  BY <1>1 DEF SuspRight, SuspInit
<1>6. OneSpindle
  BY <1>1, <1>2, <1>3 DEF OneSpindle, Live
<1>7. Quiet
  BY <1>1, <1>2 DEF Quiet, RingQuiet, SuspInit, Dark, SysReset, NoControl
<1>8. Dimmed /\ HoldDark /\ DoorDark
  BY <1>1 DEF Dimmed, HoldDark, DoorDark, GcInit, SysReset
<1> QED BY <1>4, <1>5, <1>6, <1>7, <1>8 DEF DarkInv

\* Every step of Laser keeps it.
LEMMA DarkNext ==
  ASSUME ~HoldAtRest
  PROVE  TypeInv /\ DoorInv /\ BeamInv /\ DarkInv /\ [LaserNext]_allVars => DarkInv'
<1> SUFFICES ASSUME TypeInv, DoorInv, BeamInv, DarkInv, [LaserNext]_allVars PROVE DarkInv'
  OBVIOUS
<1>1. /\ PlbRight /\ RestoresInDoor /\ Aborting /\ SuspRight /\ OneSpindle /\ Quiet /\ Dimmed
      /\ HoldDark /\ DoorDark
  BY DEF DarkInv
<1>2. PlbRight' /\ RestoresInDoor' /\ Aborting' /\ SuspRight'
  BY <1>1, PlbStep, RestoringStep, AbortingStep, SuspStep, LaserSteps
<1>3. OneSpindle' /\ Quiet' /\ Dimmed'
  BY <1>1, SpindleStep, QuietStep, DimmedStep
<1>4. HoldDark' /\ DoorDark'
  BY <1>1, HoldDarkStep, DoorDarkStep
<1> QED BY <1>2, <1>3, <1>4 DEF DarkInv

\* The invariant leaves no beam burning.
LEMMA DarkLaser == DarkInv => LaserDark
<1> SUFFICES ASSUME DarkInv, reset = "no", excused \cap Causes = {}
             PROVE  DarkAtRest /\ DarkInHold /\ DarkBehindDoor
  BY DEF LaserDark, DarkBut
<1>1. Quiet /\ Dimmed /\ HoldDark /\ DoorDark /\ excused = {}
  BY DEF DarkInv, SuspRight
<1>2. Clean
  BY <1>1 DEF Clean
<1>3. DarkAtRest
  BY <1>1, <1>2 DEF Quiet, Dimmed, DarkAtRest
<1>4. DarkInHold /\ DarkBehindDoor
  BY <1>1 DEF HoldDark, DoorDark, DarkInHold, DarkBehindDoor
<1> QED BY <1>3, <1>4

\* The laser, between the parser, st_prep_buffer, the interrupt, the suspend loop and
\* mc_reset: the beam is not left burning at the end of a motion, in a hold or behind an
\* open door, for every program, ring size and number of holds, doors, stop characters,
\* overrides, resumes and resets, unless one of Causes has come in.  The interrupt drains
\* the ring in time and holds come to a machine in motion, as in the runs.
THEOREM LaserStaysDark ==
  ASSUME ~Underrun, ~HoldAtRest
  PROVE  LaserSpec => []LaserDark
<1>1. LaserInit => TypeInv /\ DoorInv /\ BeamInv /\ DarkInv
  BY InitTypeInv, DoorInit, BeamInit, DarkInit DEF LaserInit
<1>2. TypeInv /\ DoorInv /\ BeamInv /\ DarkInv /\ [LaserNext]_allVars
        => TypeInv' /\ DoorInv' /\ BeamInv' /\ DarkInv'
  BY LaserSteps, NextTypeInv, DoorNext, OthersTypeInv, OthersDoorInv, BeamNext, DarkNext
<1>3. DarkInv => LaserDark
  BY DarkLaser
<1> QED BY <1>1, <1>2, <1>3, PTL DEF LaserSpec

-----------------------------------------------------------------------------
(***************************************************************************)
(* Why the data of the blocks survives a parking motion.  st_prep_buffer   *)
(* puts the parking motion into the slot after the one that holds the rest *)
(* of a held block, and goes back there when it is over (HeldSaved).  The  *)
(* ring is empty at both ends of the motion, so the distances of its slots *)
(* are those of a motion like any other.  What st_parking_restore_buffer   *)
(* goes back to is that block only if the flag that a block was held is    *)
(* true (PartialRight), and it stays set after the motion (segment_park2): *)
(* so the theorem is about doors that find it cleared (FreshDoor).         *)
(***************************************************************************)

\* A safety door that a parking motion may follow comes to a program that has not been
\* parked in the middle of a block before, since the last reset.
FreshDoor ==
  sys.state # "SafetyDoor" /\ sys'.state = "SafetyDoor" /\ budget.parks > 0
    => ~prep.flag.parking

\* The block st_prep_buffer works on, and its data at prep.slot.
Making == IF sys.parkCall THEN Park ELSE CurrentBlock
MakingRight ==
  /\ InMaking => Making # NoBlock /\ sblk[prep.slot] = Making
  /\ plb # NoBlock => plb = Making

\* During a parking motion the slot of the held block is remembered, and not in use.
HeldSaved == sys.parkCall =>
  /\ sys.ctl.executeHold => sys.ctl.executeSysMotion
  /\ prep.flag.holdPartial =>
       /\ plan # <<>> /\ sblk[prep.lastSlot] = Head(plan)
       /\ prep.slot = prep.lastSlot <=> ~InMaking

\* Where the flag that a block was held will be used, one is.
PartialRight ==
  /\ prep.flag.holdPartial /\ ~sys.parkCall
       /\ (prep.flag.parking => sys.state = "SafetyDoor" /\ budget.parks > 0)
     => prep.flag.recalculate \/ (plb # NoBlock /\ sys.ctl.endMotion)
  /\ sys.state = "SafetyDoor" /\ prep.flag.parking /\ budget.parks > 0
     => sys.holdComplete \/ sys.parkCall

\* Only a hold ends a motion early, and its end takes the block from st_prep_buffer.
HoldCuts ==
  /\ ~Held \/ pc \in {"loop", "seg", "publish"} => ~sys.ctl.endMotion
  /\ plb # NoBlock /\ prep.complete > 0 => sys.ctl.executeHold
  /\ Held /\ sys.holdComplete /\ ~sys.ctl.executeSysMotion => plb = NoBlock
  /\ sys.restoring => sys.state = "SafetyDoor" /\ sys.holdComplete

ParkInv == /\ MakingRight /\ HeldSaved /\ PartialRight /\ HoldCuts
           /\ DistInv /\ BlockDataIntact

\* With an empty ring there is no data to lose ...
LEMMA DataGone ==
  ASSUME \A i \in Slots : ~Queued(i)'
  PROVE  DistInv' /\ BlockDataIntact'
BY DEF DistInv, BlockDataIntact

\* ... and none is lost where the head, the slots and the block in the making stay.
LEMMA DataKept ==
  ASSUME DistInv, BlockDataIntact,
         UNCHANGED <<sblk, seg, head>>, prep'.slot = prep.slot, InMaking' <=> InMaking,
         \A i \in Slots : Queued(i)' => Queued(i)
  PROVE  DistInv' /\ BlockDataIntact'
<1>1. \A i \in Slots : /\ SegDist(i)' = SegDist(i)
                       /\ BlkDist(seg[i].slot, prep.slot)' = BlkDist(seg[i].slot, prep.slot)
  BY DEF SegDist, BlkDist
<1>2. DistInv'
  BY <1>1 DEF DistInv
<1>3. BlockDataIntact'
  BY DEF BlockDataIntact
<1> QED BY <1>2, <1>3

LEMMA ParkInit == Init => ParkInv
<1> SUFFICES ASSUME Init PROVE ParkInv
  OBVIOUS
<1>1. /\ sys = SysReset /\ prep = PrepReset /\ plb = NoBlock /\ pc = "top"
      /\ head = 0 /\ tail = 0
  BY DEF Init
<1>2. ~InMaking /\ MakingRight /\ HeldSaved /\ PartialRight /\ HoldCuts
  BY <1>1 DEF InMaking, MakingRight, HeldSaved, PartialRight, HoldCuts, SysReset, NoControl,
              PrepReset, NoFlags
<1>3. \A i \in Slots : ~Queued(i)
  BY <1>1, SlotsType DEF Queued
<1> QED BY <1>2, <1>3 DEF ParkInv, DistInv, BlockDataIntact

\* Between the parking motions of a door nothing is under way.
LEMMA ParkedStill ==
  ASSUME TypeInv, DoorInv, ParkInv, Held, ~sys.ctl.executeSysMotion,
         sys.holdComplete \/ sys.parkCall
  PROVE  /\ head = tail /\ ~timer /\ ~cycle_stop /\ sys.holdComplete /\ plb = NoBlock
         /\ \A i \in Slots : ~Queued(i)
         /\ pc \in {"top", "loop"}
         /\ pc = "loop" => plan = <<>> /\ QueryBlock = NoBlock
<1>1. HoldEnds /\ HeldStill /\ HeldSaved /\ HoldCuts
  BY DEF DoorInv, ParkInv
<1>2. sys.holdComplete
  BY <1>1 DEF HeldSaved, HoldEnds
<1>3. head = tail /\ AllPrepped /\ ~timer /\ ~cycle_stop /\ plb = NoBlock
  BY <1>1, <1>2 DEF HeldStill, HoldCuts
<1>4. \A i \in Slots : ~Queued(i)
  BY <1>3, EmptyRing
<1>5. pc \in {"top", "loop"} /\ (pc = "loop" => plan = <<>>)
  BY <1>3 DEF AllPrepped
<1> QED BY <1>2, <1>3, <1>4, <1>5 DEF QueryBlock, CurrentBlock

\* So a parking call at work in st_prep_buffer is in its motion.
LEMMA AtWork ==
  ASSUME TypeInv, DoorInv, ParkInv, pc \in {"seg", "publish"} \/ (pc = "loop" /\ QueryBlock # NoBlock)
  PROVE  /\ sys.parkCall <=> sys.ctl.executeSysMotion
         /\ QueryBlock = Making
         /\ Held /\ sys.holdComplete => sys.parkCall
<1>1. DoorParks
  BY DEF DoorInv
<1>2. Held /\ (sys.holdComplete \/ sys.parkCall) => sys.ctl.executeSysMotion
  BY ParkedStill
<1>3. sys.parkCall <=> sys.ctl.executeSysMotion
  BY <1>1, <1>2 DEF DoorParks, Held
<1> QED BY <1>1, <1>2, <1>3 DEF QueryBlock, Making

\* Nor has the block that is at work a hold behind it.
LEMMA AtWorkWhole ==
  ASSUME TypeInv, DoorInv, ParkInv,
         \/ pc \in {"seg", "publish"}
         \/ pc = "loop" /\ QueryBlock # NoBlock /\ plb = NoBlock /\ ~prep.flag.recalculate
  PROVE  ~( prep.flag.holdPartial /\ ~sys.parkCall
            /\ (prep.flag.parking => sys.state = "SafetyDoor" /\ budget.parks > 0) )
<1>1. PartialRight /\ HoldCuts /\ Positions
  BY DEF ParkInv, TypeInv
<1>2. pc \in {"loop", "seg", "publish"} => ~sys.ctl.endMotion
  BY <1>1 DEF HoldCuts
<1>3. ~prep.flag.recalculate
  BY <1>1 DEF Positions
<1> QED BY <1>1, <1>2, <1>3 DEF PartialRight

\* Going through the loop of st_prep_buffer takes up and cuts nothing.
LEMMA ParkMoves ==
  ASSUME TypeInv, DoorInv, ParkInv, PrepEnter \/ PrepReturn \/ PrepKeep \/ WakeUp \/ UNCHANGED vars
  PROVE  ParkInv'
<1>1. /\ MakingRight /\ HeldSaved /\ PartialRight /\ HoldCuts /\ DistInv /\ BlockDataIntact
  BY DEF ParkInv
<1>2. /\ UNCHANGED <<sys, plan, budget, plb, prep, sblk, seg, head, tail>>
      /\ pc' \in {"loop", "seg", "publish"}
           => pc \in {"loop", "seg", "publish"} \/ ~sys.ctl.endMotion
  BY DEF PrepEnter, PrepReturn, PrepKeep, WakeUp, Caller, vars, protocolVars, prepVars, isrVars
<1>3. MakingRight' /\ HeldSaved' /\ PartialRight'
  BY <1>1, <1>2 DEF MakingRight, Making, CurrentBlock, HeldSaved, PartialRight, InMaking
<1>4. HoldCuts'
  BY <1>1, <1>2 DEF HoldCuts, Held
<1>5. DistInv' /\ BlockDataIntact'
  BY <1>1, <1>2, DataKept DEF InMaking, Queued
<1> QED BY <1>3, <1>4, <1>5 DEF ParkInv

\* A new block goes to a slot that nobody refers to, be it the parking motion or one of
\* the plan.
LEMMA ParkLoadNew ==
  ASSUME TypeInv, DoorInv, ParkInv, PrepLoadNew
  PROVE  ParkInv'
<1>1. /\ MakingRight /\ HeldSaved /\ PartialRight /\ HoldCuts /\ DistInv /\ BlockDataIntact
      /\ PrepTypes /\ ProtocolTypes
  BY DEF ParkInv, TypeInv, TypeOK
<1>2. /\ tail # nhead /\ plb = NoBlock /\ ~prep.flag.recalculate /\ pc = "loop" /\ pc' = "seg"
      /\ plb' = QueryBlock /\ QueryBlock # NoBlock
      /\ sblk' = [sblk EXCEPT ![NextBlk(prep.slot)] = QueryBlock]
      /\ UNCHANGED <<sys, plan, budget, seg, head, tail>>
  BY DEF PrepLoadNew, protocolVars, isrVars
<1>3. /\ prep'.slot = NextBlk(prep.slot) /\ prep'.lastSlot = prep.lastSlot
      /\ prep'.flag = prep.flag
      /\ prep'.complete > 0 => sys.ctl.executeHold
  <2>1. PICK q \in Profiles(QueryBlock, prep.stop) :
          prep' = [prep EXCEPT !.slot = NextBlk(@), !.steps = Steps[QueryBlock],
                               !.complete = q.complete, !.stop = q.stop]
    BY DEF PrepLoadNew
  <2>2. q.complete > 0 => sys.ctl.executeHold
    BY DEF Profiles
  <2> QED BY <1>1, <2>1, <2>2 DEF PrepTypes, PrepType
<1>4. prep.slot \in BlkSlots /\ NextBlk(prep.slot) \in BlkSlots /\ NextBlk(prep.slot) # prep.slot
  BY <1>1, NextBlkRing, NextBlkOther DEF PrepTypes, PrepType
<1>5. /\ QueryBlock = Making /\ ~InMaking /\ InMaking'
  BY <1>2, AtWork DEF InMaking
<1>6. sblk'[prep'.slot] = QueryBlock
  BY <1>1, <1>2, <1>3, <1>4 DEF PrepTypes
<1>7. MakingRight'
  BY <1>2, <1>3, <1>5, <1>6 DEF MakingRight, Making, CurrentBlock
<1>8. HeldSaved'
  <2>1. prep.lastSlot \in BlkSlots
    BY <1>1 DEF PrepTypes, PrepType
  <2> QED BY <1>1, <1>2, <1>3, <1>4, <1>5, <2>1 DEF HeldSaved, PrepTypes
<1>9. PartialRight'
  BY <1>1, <1>2, <1>3, AtWorkWhole DEF PartialRight
<1>10. HoldCuts'
  BY <1>1, <1>2, <1>3, AtWork DEF HoldCuts, Held
<1>11. ASSUME NEW i \in Slots, Queued(i)
       PROVE  /\ sblk'[seg[i].slot] = sblk[seg[i].slot]
              /\ BlkDist(seg[i].slot, NextBlk(prep.slot)) <= SegDist(i)
  <2>1. seg[i].slot \in BlkSlots
    BY <1>1 DEF PrepTypes, SegmentType
  <2>2. BlkDist(seg[i].slot, prep.slot) <= SegDist(i) - 1
    BY <1>1, <1>5, <1>11 DEF DistInv
  <2>3. SegDist(i) \in Nat /\ SegDist(i) <= SEGMENT_BUFFER_SIZE - 2
    BY <1>2, <1>11, SegDistBound
  <2>4. BlkDist(seg[i].slot, prep.slot) \in Nat
    BY <1>4, <2>1, BlkDistType
  <2>5. BlkDist(seg[i].slot, prep.slot) <= SEGMENT_BUFFER_SIZE - 3
    BY <2>2, <2>3, <2>4, BufferAssumption DEF BufferAssumption
  <2>6. /\ NextBlk(prep.slot) # seg[i].slot
        /\ BlkDist(seg[i].slot, NextBlk(prep.slot)) = BlkDist(seg[i].slot, prep.slot) + 1
    BY <1>4, <2>1, <2>5, BlkDistNext
  <2>7. sblk'[seg[i].slot] = sblk[seg[i].slot]
    BY <1>1, <1>2, <2>1, <2>6 DEF PrepTypes
  <2> QED BY <2>2, <2>3, <2>4, <2>6, <2>7
<1>12. \A i \in Slots : Queued(i)' => Queued(i) /\ SegDist(i)' = SegDist(i)
  BY <1>2 DEF Queued, SegDist
<1>13. DistInv'
  <2>1. \A i \in Slots : Queued(i)' => BlkDist(seg[i].slot, NextBlk(prep.slot)) <= SegDist(i)'
    BY <1>11, <1>12
  <2>2. \A i \in Slots : BlkDist(seg[i].slot, prep.slot)' = BlkDist(seg[i].slot, NextBlk(prep.slot))
    BY <1>2, <1>3 DEF BlkDist
  <2> QED BY <1>5, <2>1, <2>2 DEF DistInv
<1>14. BlockDataIntact'
  BY <1>1, <1>2, <1>11, <1>12 DEF BlockDataIntact
<1> QED BY <1>7, <1>8, <1>9, <1>10, <1>13, <1>14 DEF ParkInv

\* The rest of a block is taken up in the slot that has its data.
LEMMA ParkLoadSame ==
  ASSUME TypeInv, DoorInv, ParkInv, PrepLoadSame
  PROVE  ParkInv'
<1>1. /\ MakingRight /\ HeldSaved /\ PartialRight /\ HoldCuts /\ DistInv /\ BlockDataIntact
      /\ PrepTypes /\ Positions
  BY DEF ParkInv, TypeInv, TypeOK
<1>2. /\ plb = NoBlock /\ prep.flag.recalculate /\ pc = "loop" /\ pc' = "seg"
      /\ plb' = QueryBlock /\ QueryBlock # NoBlock
      /\ UNCHANGED <<sys, plan, budget, sblk, seg, head, tail>>
  BY DEF PrepLoadSame, protocolVars, isrVars
<1>3. /\ prep'.slot = prep.slot /\ prep'.lastSlot = prep.lastSlot
      /\ prep.flag.parking => /\ prep'.flag.parking
                              /\ prep'.flag.holdPartial <=> prep.flag.holdPartial
      /\ ~prep.flag.parking => ~prep'.flag.parking /\ ~prep'.flag.holdPartial
      /\ prep'.complete > 0 => sys.ctl.executeHold
  <2>1. PICK q \in Profiles(QueryBlock, FALSE) :
          prep' = [prep EXCEPT !.complete = q.complete, !.stop = q.stop,
                               !.flag = IF @.parking THEN [@ EXCEPT !.recalculate = FALSE]
                                                     ELSE NoFlags]
    BY DEF PrepLoadSame
  <2>2. q.complete > 0 => sys.ctl.executeHold
    BY DEF Profiles
  <2>3. prep \in PrepType /\ prep.flag \in FlagType
    BY <1>1 DEF PrepTypes, PrepType
  <2>4. /\ prep'.slot = prep.slot /\ prep'.lastSlot = prep.lastSlot
        /\ prep'.complete = q.complete
        /\ prep'.flag = IF prep.flag.parking THEN [prep.flag EXCEPT !.recalculate = FALSE]
                                             ELSE NoFlags
    BY <2>1, <2>3 DEF PrepType
  <2> QED BY <2>2, <2>3, <2>4 DEF FlagType, NoFlags
<1>4. /\ QueryBlock = Making /\ InMaking /\ InMaking'
      /\ Held /\ sys.holdComplete => sys.parkCall
  BY <1>2, AtWork DEF InMaking
<1>5. MakingRight'
  BY <1>1, <1>2, <1>3, <1>4 DEF MakingRight, Making, CurrentBlock
<1>6. HeldSaved'
  BY <1>1, <1>2, <1>3, <1>4 DEF HeldSaved, Positions
<1>7. PartialRight'
  BY <1>1, <1>2, <1>3, <1>4 DEF PartialRight, Held
<1>8. HoldCuts'
  BY <1>1, <1>2, <1>3, AtWork DEF HoldCuts, Held
<1>9. DistInv' /\ BlockDataIntact'
  BY <1>1, <1>2, <1>3, <1>4, DataKept DEF Queued
<1> QED BY <1>5, <1>6, <1>7, <1>8, <1>9 DEF ParkInv

\* A segment in the making is not queued yet; a hold may end with it.
LEMMA ParkSegment ==
  ASSUME TypeInv, DoorInv, ParkInv, PrepSegment
  PROVE  ParkInv'
<1>1. /\ MakingRight /\ HeldSaved /\ PartialRight /\ HoldCuts /\ DistInv /\ BlockDataIntact
      /\ PrepTypes /\ IsrTypes /\ Positions /\ SameSys
  BY PrepSys DEF ParkInv, TypeInv, TypeOK, Prep
<1>2. /\ UNCHANGED <<plan, budget, plb, sblk, head, tail>> /\ pc = "seg" /\ plb # NoBlock
      /\ ~prep.flag.recalculate
      /\ Held /\ sys.holdComplete => sys.parkCall
      /\ sys.parkCall <=> sys.ctl.executeSysMotion
  BY <1>1, AtWork DEF PrepSegment, isrVars, Positions
<1>3. \/ prep' = HoldPartial(prep) /\ EndMotion /\ sys.ctl.executeHold /\ pc' \in {"wake", "top"}
      \/ (\E d : prep' = [prep EXCEPT !.rem = d]) /\ UNCHANGED sys
  BY DEF PrepSegment, Caller
<1>4. /\ prep'.slot = prep.slot /\ prep'.lastSlot = prep.lastSlot
      /\ prep'.complete = prep.complete
      /\ ~prep'.flag.recalculate /\ (prep'.flag.parking <=> prep.flag.parking)
      /\ prep'.flag.parking => (prep'.flag.holdPartial <=> prep.flag.holdPartial)
  BY <1>1, <1>2, <1>3, HoldPartialEffect DEF PrepTypes, PrepType, FlagType, HoldPartial
<1>5. EndMotion => sys'.ctl.endMotion
  BY DEF EndMotion, TypeInv, TypeOK, ProtocolTypes, SysType, ControlType
<1>6. \/ sys'.ctl.endMotion /\ pc' \in {"wake", "top"} /\ sys.ctl.executeHold
      \/ (prep'.flag.holdPartial <=> prep.flag.holdPartial) /\ UNCHANGED sys
  BY <1>1, <1>3, <1>5 DEF PrepTypes, PrepType
<1>7. InMaking /\ InMaking'
  BY <1>2 DEF InMaking
<1>8. MakingRight'
  BY <1>1, <1>2, <1>4, <1>7 DEF MakingRight, Making, CurrentBlock, SameSys
<1>9. HeldSaved'
  BY <1>1, <1>2, <1>4, <1>7 DEF HeldSaved, SameSys, Positions
<1>10. PartialRight'
  <2>1. ~( prep.flag.holdPartial /\ ~sys.parkCall
           /\ (prep.flag.parking => sys.state = "SafetyDoor" /\ budget.parks > 0) )
    BY <1>2, AtWorkWhole
  <2> QED BY <1>1, <1>2, <1>4, <1>6, <2>1 DEF PartialRight, SameSys
<1>11. HoldCuts'
  <2>1. sys.ctl.executeHold => Held
    BY DEF DoorInv, Running
  <2> QED BY <1>1, <1>2, <1>4, <1>6, <2>1 DEF HoldCuts, SameSys, Held
<1>12. \A i \in Slots : i # head => seg'[i] = seg[i]
  BY <1>1 DEF PrepSegment, PrepTypes
<1>13. \A i \in Slots : Queued(i)' => Queued(i) /\ i # head
  BY <1>1, <1>2, SlotsType DEF PrepTypes, IsrTypes, Queued
<1>14. DistInv' /\ BlockDataIntact'
  BY <1>1, <1>2, <1>4, <1>7, <1>12, <1>13 DEF DistInv, SegDist, BlkDist, BlockDataIntact
<1> QED BY <1>8, <1>9, <1>10, <1>11, <1>14 DEF ParkInv

\* A published segment has the data of the block in the making.
LEMMA ParkPublish ==
  ASSUME TypeInv, DoorInv, ParkInv, PublishMore \/ PublishLast \/ PublishBlockEnd
  PROVE  ParkInv'
<1>1. /\ MakingRight /\ HeldSaved /\ PartialRight /\ HoldCuts /\ DistInv /\ BlockDataIntact
      /\ PrepTypes /\ Positions /\ SameSys
  BY PrepSys DEF ParkInv, TypeInv, TypeOK, Prep
<1>2. Publish /\ pc = "publish" /\ UNCHANGED <<sblk, seg, tail, budget>>
  BY DEF PublishMore, PublishLast, PublishBlockEnd, Publish, isrVars
<1>3. /\ plb # NoBlock /\ ~prep.flag.recalculate
      /\ seg[head].slot = prep.slot /\ seg[head].owner = plb /\ head \in Slots
      /\ Held /\ sys.holdComplete => sys.parkCall
      /\ sys.parkCall <=> sys.ctl.executeSysMotion
  BY <1>1, <1>2, AtWork DEF Positions, PrepTypes
<1>4. InMaking /\ plb = Making /\ sblk[prep.slot] = plb
  BY <1>1, <1>3 DEF MakingRight, InMaking
<1>5. EndMotion => sys'.ctl.endMotion
  BY DEF EndMotion, TypeInv, TypeOK, ProtocolTypes, SysType, ControlType
<1>6. /\ Cut.slot = prep.slot /\ Cut.lastSlot = prep.lastSlot /\ Cut.complete = prep.complete
      /\ Cut.flag = prep.flag /\ Cut \in PrepType
  BY <1>1, CutEffect DEF Cut, PrepTypes, PrepType
<1>7. /\ prep'.slot = prep.slot /\ prep'.lastSlot = prep.lastSlot
      /\ prep'.complete = prep.complete
      /\ ~prep'.flag.recalculate /\ (prep'.flag.parking <=> prep.flag.parking)
      /\ prep'.flag.parking => (prep'.flag.holdPartial <=> prep.flag.holdPartial)
      /\ (prep'.flag.holdPartial <=> prep.flag.holdPartial) \/ PublishLast
  <2>1. prep' = Cut \/ (PublishLast /\ prep' = HoldPartial(Cut))
    BY DEF PublishMore, PublishLast, PublishBlockEnd
  <2> QED BY <1>3, <1>6, <2>1, HoldPartialEffect DEF HoldPartial, PrepType, FlagType
<1>8. \/ sys' = sys /\ plb' = plb /\ plan' = plan /\ PublishMore
      \/ /\ sys'.ctl.endMotion /\ plb' = plb /\ plan' = plan /\ pc' \in {"wake", "top"}
         /\ prep.complete > 0 \/ sys.ctl.executeSysMotion
      \/ PublishBlockEnd /\ sys' = sys /\ plb' = NoBlock /\ ~sys.ctl.executeSysMotion
  BY <1>1, <1>5 DEF PublishMore, PublishLast, PublishBlockEnd, Caller
<1>9. MakingRight'
  BY <1>1, <1>2, <1>4, <1>7, <1>8 DEF MakingRight, Making, CurrentBlock, SameSys, InMaking
<1>10. HeldSaved'
  BY <1>1, <1>2, <1>3, <1>4, <1>7, <1>8 DEF HeldSaved, SameSys, InMaking, Positions
<1>11. PartialRight'
  <2>1. ~( prep.flag.holdPartial /\ ~sys.parkCall
           /\ (prep.flag.parking => sys.state = "SafetyDoor" /\ budget.parks > 0) )
    BY <1>2, AtWorkWhole
  <2>2. PublishLast => sys'.ctl.endMotion /\ plb' = plb
    BY <1>5 DEF PublishLast
  <2> QED BY <1>1, <1>2, <1>3, <1>7, <1>8, <2>1, <2>2 DEF PartialRight, SameSys
<1>12. HoldCuts'
  <2>1. (sys.ctl.executeHold => Held) /\ (sys.ctl.executeSysMotion => Held)
    BY DEF DoorInv, Running
  <2> QED BY <1>1, <1>2, <1>3, <1>7, <1>8, <2>1 DEF HoldCuts, SameSys, Held
<1>13. \A i \in Slots : Queued(i)' => i = head \/ Queued(i)
  BY <1>2, PublishQueue
<1>14. /\ \A i \in Slots : i = head => SegDist(i)' = 1
       /\ \A i \in Slots : Queued(i) => SegDist(i)' = SegDist(i) + 1 /\ SegDist(i) \in Nat
  BY <1>2, SegDistPublish
<1>15. DistInv'
  <2> SUFFICES ASSUME NEW i \in Slots, Queued(i)'
               PROVE  /\ BlkDist(seg[i].slot, prep.slot)' <= SegDist(i)'
                      /\ BlkDist(seg[i].slot, prep.slot)' <= SegDist(i)' - 1
    BY DEF DistInv
  <2>1. seg[i].slot \in BlkSlots /\ prep.slot \in BlkSlots
    BY <1>1 DEF PrepTypes, PrepType, SegmentType
  <2>2. BlkDist(seg[i].slot, prep.slot)' = BlkDist(seg[i].slot, prep.slot)
    BY <1>2, <1>7 DEF BlkDist
  <2>3. CASE i = head
    BY <1>3, <1>14, <2>1, <2>2, <2>3, BlkDistZero
  <2>4. CASE Queued(i)
    <3>1. BlkDist(seg[i].slot, prep.slot) <= SegDist(i)
      BY <1>1, <1>4, <2>4 DEF DistInv
    <3> QED BY <1>14, <2>1, <2>2, <2>4, <3>1, BlkDistType
  <2> QED BY <1>13, <2>3, <2>4
<1>16. BlockDataIntact'
  BY <1>1, <1>2, <1>3, <1>4, <1>13 DEF BlockDataIntact
<1> QED BY <1>9, <1>10, <1>11, <1>12, <1>15, <1>16 DEF ParkInv

\* The interrupt takes segments from the ring, and the two steps of the laser's module
\* leave both alone.
LEMMA ParkInterrupt ==
  ASSUME TypeInv, DoorInv, ParkInv, Interrupt \/ Others
  PROVE  ParkInv'
<1>1. /\ MakingRight /\ HeldSaved /\ PartialRight /\ HoldCuts /\ DistInv /\ BlockDataIntact
      /\ Positions /\ ProtocolTypes
  BY DEF ParkInv, TypeInv, TypeOK
<1>2. UNCHANGED <<plan, plb, prep, sblk, seg, head, pc>>
  BY DEF Interrupt, IsrStep, IsrEmpty, Others, protocolVars, prepVars
<1>3. /\ sys'.state = sys.state /\ sys'.parkCall = sys.parkCall
      /\ sys'.holdComplete = sys.holdComplete /\ sys'.ctl = sys.ctl
      /\ budget'.parks = budget.parks /\ (sys'.restoring => sys.restoring)
  <2>1. CASE UNCHANGED <<sys, budget>>
    BY <2>1
  <2>2. CASE sys' = [sys EXCEPT !.restoring = FALSE] /\ budget' = [budget EXCEPT !.holds = @ - 1]
    BY <1>1, <2>2 DEF ProtocolTypes, SysType
  <2> QED BY <2>1, <2>2 DEF Interrupt, IsrStep, IsrEmpty, Others, protocolVars
<1>4. MakingRight' /\ HeldSaved' /\ PartialRight' /\ HoldCuts'
  BY <1>1, <1>2, <1>3
     DEF MakingRight, Making, CurrentBlock, HeldSaved, PartialRight, HoldCuts, InMaking, Held
<1>5. \A i \in Slots : Queued(i)' => Queued(i)
  <2>1. CASE UNCHANGED tail
    BY <1>2, <2>1 DEF Queued
  <2>2. CASE tail # head /\ tail' = NextSlot(tail)
    BY <1>2, <2>2, ConsumeQueue
  <2>3. IsrStep => tail # head
    BY <1>1 DEF IsrStep, Positions
  <2> QED BY <2>1, <2>2, <2>3 DEF Interrupt, IsrStep, IsrEmpty, Others, isrVars
<1>6. DistInv' /\ BlockDataIntact'
  BY <1>1, <1>2, <1>5, DataKept DEF InMaking
<1> QED BY <1>4, <1>6 DEF ParkInv

\* st_update_plan_block_parameters marks the block in the making to be taken up again.
LEMMA UpdatedFacts ==
  ASSUME TypeInv, StUpdate
  PROVE  /\ prep'.slot = prep.slot /\ prep'.lastSlot = prep.lastSlot /\ plb' = NoBlock
         /\ prep'.flag.holdPartial <=> prep.flag.holdPartial
         /\ prep'.flag.parking <=> prep.flag.parking
         /\ prep'.flag.recalculate <=> InMaking
         /\ InMaking' <=> InMaking
<1>1. prep' = UpdatedPrep /\ plb' = NoBlock /\ PrepTypes
  BY DEF StUpdate, TypeInv, TypeOK
<1>2. prep'.flag.recalculate <=> InMaking
  BY <1>1, UpdatedPrepEffect
<1>3. InMaking' <=> InMaking
  BY <1>1, <1>2 DEF InMaking
<1> QED BY <1>1, <1>2, <1>3, UpdatedPrepEffect

\* A new line waits behind the block in the making.
LEMMA ParkBufferLine ==
  ASSUME TypeInv, DoorInv, ParkInv, BufferLine
  PROVE  ParkInv'
<1>1. /\ MakingRight /\ HeldSaved /\ PartialRight /\ HoldCuts /\ DistInv /\ BlockDataIntact
      /\ ProtocolTypes /\ Running /\ ~Held
  BY DEF ParkInv, TypeInv, TypeOK, DoorInv, BufferLine, Held
<1>2. /\ UNCHANGED <<sys, budget, sblk, seg, head, tail, pc>> /\ ~sys.parkCall
      /\ plan' = Append(plan, added + 1)
      /\ UNCHANGED <<prep, plb>> \/ StUpdate
  BY <1>1 DEF BufferLine, Running, isrVars
<1>3. added + 1 \in Planned
  BY <1>1, BufferAssumption DEF BufferAssumption, ProtocolTypes, Planned, BufferLine
<1>4. plan # <<>> => plan' # <<>> /\ Head(plan') = Head(plan)
  BY <1>1, <1>2, <1>3 DEF ProtocolTypes
<1>5. /\ prep'.slot = prep.slot /\ plb' \in {plb, NoBlock} /\ (InMaking' <=> InMaking)
      /\ prep'.flag.holdPartial <=> prep.flag.holdPartial
      /\ prep'.flag.parking <=> prep.flag.parking
      /\ prep'.flag.recalculate <=> (prep.flag.recalculate \/ (InMaking /\ plb' = NoBlock))
      /\ prep'.complete = prep.complete \/ plb' = NoBlock
  BY <1>2, UpdatedFacts DEF InMaking
<1>6. MakingRight'
  BY <1>1, <1>2, <1>4, <1>5 DEF MakingRight, Making, CurrentBlock
<1>7. HeldSaved' /\ PartialRight'
  BY <1>1, <1>2, <1>5 DEF HeldSaved, PartialRight, InMaking, Held
<1>8. HoldCuts'
  BY <1>1, <1>2, <1>5 DEF HoldCuts, Held
<1>9. DistInv' /\ BlockDataIntact'
  BY <1>1, <1>2, <1>5, DataKept DEF Queued
<1> QED BY <1>6, <1>7, <1>8, <1>9 DEF ParkInv

\* A start finds the block of a hold marked, whatever has been parked in between.
LEMMA ParkStart ==
  ASSUME TypeInv, DoorInv, ParkInv, CycleStart \/ DoorResume
  PROVE  ParkInv'
<1>1. /\ MakingRight /\ HeldSaved /\ PartialRight /\ HoldCuts /\ DistInv /\ BlockDataIntact
      /\ sys \in SysType /\ Running /\ HoldEnds /\ DoorParks
  BY DEF ParkInv, TypeInv, TypeOK, DoorInv, ProtocolTypes
<1>2. /\ Start(sys) /\ UNCHANGED <<budget, plan, plb, prep, sblk, seg, head, tail>>
      /\ ~sys.parkCall /\ ~sys.ctl.executeSysMotion
      /\ Held => sys.holdComplete
  BY <1>1 DEF CycleStart, DoorResume, Start, DoorParks, Running, HoldCuts, Held, isrVars
<1>3. /\ sys'.state \in {"Idle", "Cycle"} /\ ~sys'.holdComplete /\ sys'.ctl = NoControl
      /\ ~sys'.parkCall /\ ~sys'.restoring
  BY <1>1, <1>2 DEF Start, SysType
<1>4. MakingRight' /\ HeldSaved'
  BY <1>1, <1>2, <1>3 DEF MakingRight, Making, CurrentBlock, HeldSaved, InMaking
<1>5. PartialRight'
  BY <1>1, <1>2, <1>3 DEF PartialRight, HoldCuts
<1>6. HoldCuts'
  BY <1>1, <1>2, <1>3 DEF HoldCuts, Held, NoControl, Running
<1>7. DistInv' /\ BlockDataIntact'
  BY <1>1, <1>2, DataKept DEF Queued, InMaking
<1> QED BY <1>4, <1>5, <1>6, <1>7 DEF ParkInv

\* A hold marks the block in the making; a door that may be followed by a parking motion
\* finds no flags of an earlier one.
LEMMA ParkSuspend ==
  ASSUME TypeInv, DoorInv, ParkInv, ~HoldAtRest, FeedHold \/ SafetyDoor, FreshDoor
  PROVE  ParkInv'
<1>1. /\ MakingRight /\ HeldSaved /\ PartialRight /\ HoldCuts /\ DistInv /\ BlockDataIntact
      /\ sys \in SysType /\ Running /\ HoldEnds /\ DoorParks /\ ProtocolTypes
  BY DEF ParkInv, TypeInv, TypeOK, DoorInv, ProtocolTypes
<1>2. PICK s \in {"Hold", "SafetyDoor"} : Suspend(s)
  BY DEF FeedHold, SafetyDoor
<1>3. /\ UNCHANGED <<plan, sblk, seg, head, tail, pc>> /\ budget'.parks = budget.parks
      /\ sys'.state = s /\ sys'.parkCall = sys.parkCall /\ sys'.restoring = sys.restoring
      /\ sys'.ctl = IF sys.state = "Cycle" THEN [NoControl EXCEPT !.executeHold = TRUE]
                                           ELSE sys.ctl
      /\ IF sys.state = "Cycle" THEN StUpdate ELSE UNCHANGED <<prep, plb>>
  BY <1>1, <1>2 DEF Suspend, SysType, ProtocolTypes, isrVars
<1>4. /\ pc = "top" /\ sys.state \in {"Cycle", "Hold"} /\ ~sys.parkCall
      /\ sys'.holdComplete = sys.holdComplete /\ sys'.state \in {"Hold", "SafetyDoor"}
      /\ sys.state # "SafetyDoor"
  BY <1>1, <1>3, HoldSys DEF DoorParks, Held
<1>5. /\ prep'.slot = prep.slot /\ (InMaking' <=> InMaking) /\ plb' \in {plb, NoBlock}
      /\ prep'.flag.holdPartial <=> prep.flag.holdPartial
      /\ prep'.flag.parking <=> prep.flag.parking
      /\ sys.state = "Cycle" => plb' = NoBlock /\ (prep'.flag.recalculate <=> InMaking)
      /\ sys.state = "Hold" => plb' = plb /\ prep' = prep
  BY <1>3, <1>4, UpdatedFacts DEF InMaking
<1>6. MakingRight' /\ HeldSaved'
  BY <1>1, <1>3, <1>4, <1>5 DEF MakingRight, Making, CurrentBlock, HeldSaved
<1>7. PartialRight'
  <2>1. sys'.state = "SafetyDoor" /\ budget'.parks > 0 => ~prep.flag.parking
    BY <1>3, <1>4 DEF FreshDoor
  <2> QED BY <1>1, <1>3, <1>4, <1>5, <2>1 DEF PartialRight, InMaking
<1>8. HoldCuts'
  BY <1>1, <1>3, <1>4, <1>5 DEF HoldCuts, Held
<1>9. DistInv' /\ BlockDataIntact'
  BY <1>1, <1>3, <1>5, DataKept DEF Queued
<1> QED BY <1>6, <1>7, <1>8, <1>9 DEF ParkInv

\* The cycle stop marks it again, or with it the parking motion.
LEMMA ParkCycleStop ==
  ASSUME TypeInv, DoorInv, ParkInv, HandleCycleStop
  PROVE  ParkInv'
<1>1. /\ MakingRight /\ HeldSaved /\ PartialRight /\ HoldCuts /\ DistInv /\ BlockDataIntact
      /\ sys \in SysType /\ Running /\ HoldEnds
  BY DEF ParkInv, TypeInv, TypeOK, DoorInv, ProtocolTypes
<1>2. /\ UNCHANGED <<budget, plan, sblk, seg, head, tail, pc>> /\ pc = "top"
      /\ Held => StUpdate /\ sys' = Stopped
      /\ ~Held => /\ sys' = [sys EXCEPT !.state = "Idle", !.holdComplete = FALSE]
                  /\ UNCHANGED <<prep, plb>>
  BY DEF HandleCycleStop, Held
<1>3. /\ prep'.slot = prep.slot /\ prep'.lastSlot = prep.lastSlot
      /\ InMaking' <=> InMaking
      /\ prep'.flag.holdPartial <=> prep.flag.holdPartial
      /\ prep'.flag.parking <=> prep.flag.parking
      /\ Held => plb' = NoBlock /\ (prep'.flag.recalculate <=> InMaking)
      /\ ~Held => UNCHANGED <<prep, plb>>
  BY <1>2, UpdatedFacts DEF InMaking
<1>4. CASE Held
  <2>1. /\ sys'.state = sys.state /\ sys'.parkCall = sys.parkCall
        /\ sys'.restoring = sys.restoring
    BY <1>1, <1>2, <1>4 DEF Stopped, SysType
  <2>2. ~sys'.ctl.executeHold /\ ~sys'.ctl.executeSysMotion
    <3>1. sys'.ctl = [sys.ctl EXCEPT !.executeHold = FALSE, !.executeSysMotion = FALSE]
      BY <1>1, <1>2, <1>4 DEF Stopped, SysType, ControlType
    <3> QED BY <1>1, <3>1 DEF SysType, ControlType
  <2>3. sys'.holdComplete
    <3> DEFINE hold == sys.holdComplete \/ sys.ctl.executeHold
               ctl  == [sys.ctl EXCEPT !.executeHold = FALSE, !.executeSysMotion = FALSE]
    <3>1. hold
      BY <1>1, <1>4 DEF HoldEnds
    <3>2. sys' = [sys EXCEPT !.holdComplete = hold, !.ctl = ctl]
      BY <1>1, <1>2, <1>4 DEF Stopped, SysType, ControlType
    <3> HIDE DEF hold, ctl
    <3>3. sys'.holdComplete = hold
      BY <1>1, <3>2 DEF SysType
    <3> QED BY <3>1, <3>3
  <2>4. MakingRight' /\ HeldSaved'
    BY <1>1, <1>2, <1>3, <1>4, <2>1, <2>2 DEF MakingRight, Making, CurrentBlock, HeldSaved
  <2>5. PartialRight'
    BY <1>1, <1>2, <1>3, <1>4, <2>1, <2>3 DEF PartialRight, InMaking
  <2>6. HoldCuts'
    BY <1>1, <1>2, <1>3, <1>4, <2>1, <2>2, <2>3 DEF HoldCuts, Held
  <2>7. DistInv' /\ BlockDataIntact'
    BY <1>1, <1>2, <1>3, DataKept DEF Queued
  <2> QED BY <2>4, <2>5, <2>6, <2>7 DEF ParkInv
<1>5. CASE ~Held
  <2>1. /\ sys'.state = "Idle" /\ sys'.parkCall = sys.parkCall /\ sys'.ctl = sys.ctl
        /\ sys'.restoring = sys.restoring /\ ~sys.parkCall /\ UNCHANGED <<prep, plb>>
    BY <1>1, <1>2, <1>5 DEF SysType, Running
  <2>2. MakingRight' /\ HeldSaved' /\ PartialRight'
    BY <1>1, <1>2, <1>5, <2>1
       DEF MakingRight, Making, CurrentBlock, HeldSaved, PartialRight, InMaking, Held
  <2>3. HoldCuts'
    BY <1>1, <1>2, <1>5, <2>1 DEF HoldCuts, Held
  <2>4. DistInv' /\ BlockDataIntact'
    BY <1>1, <1>2, <1>3, DataKept DEF Queued
  <2> QED BY <2>2, <2>3, <2>4 DEF ParkInv
<1> QED BY <1>4, <1>5

\* A parking motion begins with the ring empty and remembers the slot of the held block.
LEMMA ParkBegins ==
  ASSUME TypeInv, DoorInv, ParkInv, ParkMotion
  PROVE  ParkInv'
<1>1. /\ MakingRight /\ HeldSaved /\ PartialRight /\ HoldCuts /\ DistInv /\ BlockDataIntact
      /\ sys \in SysType /\ PrepTypes /\ HoldEnds /\ DoorParks /\ Positions
  BY DEF ParkInv, TypeInv, TypeOK, DoorInv, ProtocolTypes
<1>2. /\ sys.state = "SafetyDoor" /\ sys.holdComplete /\ ~sys.parkCall /\ budget.parks > 0
      /\ UNCHANGED <<plan, sblk, seg, head, tail>> /\ plb' = NoBlock
      /\ ~sys.ctl.executeSysMotion /\ ~sys.ctl.executeHold
  BY <1>1 DEF ParkMotion, isrVars, DoorParks, HoldEnds, Held
<1>3. /\ sys'.state = sys.state /\ sys'.parkCall /\ sys'.holdComplete
      /\ sys'.restoring = sys.restoring
      /\ ~sys'.ctl.executeHold /\ sys'.ctl.executeSysMotion /\ ~sys'.ctl.endMotion
  BY <1>1, <1>2 DEF ParkMotion, SysType, ControlType
<1>4. /\ prep'.slot = prep.slot /\ ~prep'.flag.recalculate
      /\ prep'.flag.holdPartial <=> prep.flag.holdPartial
      /\ prep.flag.holdPartial => prep'.lastSlot = prep.slot
  <2> DEFINE p == IF prep.flag.holdPartial
                  THEN [prep EXCEPT !.lastSlot = prep.slot, !.lastSteps = prep.steps]
                  ELSE prep
  <2>1. prep' = [p EXCEPT !.flag.parking = TRUE, !.flag.recalculate = FALSE]
    BY DEF ParkMotion
  <2>2. prep \in PrepType /\ prep.flag \in FlagType
    BY <1>1 DEF PrepTypes, PrepType
  <2>3. /\ p \in PrepType /\ p.flag = prep.flag /\ p.slot = prep.slot
        /\ prep.flag.holdPartial => p.lastSlot = prep.slot
    BY <2>2 DEF PrepType
  <2> HIDE DEF p
  <2> QED BY <2>1, <2>2, <2>3 DEF PrepType, FlagType
<1>5. ~InMaking'
  BY <1>2, <1>4 DEF InMaking
<1>6. prep.flag.holdPartial => plan # <<>> /\ sblk[prep.slot] = Head(plan)
  <2>1. prep.flag.holdPartial => InMaking
    BY <1>1, <1>2 DEF PartialRight, InMaking
  <2> QED BY <1>1, <1>2, <2>1 DEF MakingRight, Making, CurrentBlock
<1>7. MakingRight' /\ HeldSaved' /\ PartialRight' /\ HoldCuts'
  BY <1>1, <1>2, <1>3, <1>4, <1>5, <1>6
     DEF MakingRight, HeldSaved, PartialRight, HoldCuts, Held
<1>8. DistInv' /\ BlockDataIntact'
  BY <1>2, ParkedStill, DataGone DEF Queued, Held
<1> QED BY <1>7, <1>8 DEF ParkInv

\* Its end goes back to that slot, with the ring empty again.
LEMMA ParkEnds ==
  ASSUME TypeInv, DoorInv, ParkInv, ParkRestore
  PROVE  ParkInv'
<1>1. /\ MakingRight /\ HeldSaved /\ PartialRight /\ HoldCuts /\ DistInv /\ BlockDataIntact
      /\ sys \in SysType /\ PrepTypes /\ HoldEnds /\ DoorParks
  BY DEF ParkInv, TypeInv, TypeOK, DoorInv, ProtocolTypes
<1>2. /\ sys.parkCall /\ ~sys.ctl.executeSysMotion /\ pc = "top"
      /\ UNCHANGED <<plan, budget, sblk, seg, head, tail, pc>> /\ plb' = NoBlock
      /\ Held
  BY <1>1 DEF ParkRestore, isrVars, DoorParks, Held
<1>3. /\ sys'.state = sys.state /\ ~sys'.parkCall /\ sys'.holdComplete = sys.holdComplete
      /\ sys'.restoring = sys.restoring /\ sys'.ctl = sys.ctl
  BY <1>1 DEF ParkRestore, SysType
<1>4. /\ prep.flag.holdPartial => prep'.slot = prep.lastSlot /\ prep'.flag.recalculate
      /\ ~prep.flag.holdPartial => prep'.flag = NoFlags
  <2>1. prep' = Restored /\ prep \in PrepType /\ prep.flag \in FlagType
    BY <1>1 DEF ParkRestore, PrepTypes, PrepType
  <2>2. ASSUME prep.flag.holdPartial
        PROVE  prep' = [prep EXCEPT !.slot = prep.lastSlot, !.steps = prep.lastSteps,
                                    !.flag = [prep.flag EXCEPT !.recalculate = TRUE]]
    BY <2>1, <2>2 DEF Restored
  <2> QED BY <2>1, <2>2 DEF Restored, PrepType, FlagType
<1>5. sys.holdComplete
  BY <1>2, ParkedStill
<1>6. MakingRight'
  <2>1. CASE prep.flag.holdPartial
    <3>1. plan # <<>> /\ sblk[prep.lastSlot] = Head(plan)
      BY <1>1, <1>2, <2>1 DEF HeldSaved
    <3>2. Head(plan) # NoBlock
      BY <3>1, PlannedNumbers DEF TypeInv, TypeOK, ProtocolTypes
    <3> QED BY <1>2, <1>3, <1>4, <2>1, <3>1, <3>2 DEF MakingRight, Making, CurrentBlock
  <2>2. CASE ~prep.flag.holdPartial
    BY <1>2, <1>4, <2>2 DEF MakingRight, InMaking, NoFlags
  <2> QED BY <2>1, <2>2
<1>7. HeldSaved' /\ PartialRight'
  BY <1>2, <1>3, <1>4, <1>5 DEF HeldSaved, PartialRight, NoFlags
<1>8. HoldCuts'
  BY <1>1, <1>2, <1>3, <1>5 DEF HoldCuts, Held
<1>9. DistInv' /\ BlockDataIntact'
  BY <1>2, ParkedStill, DataGone DEF Queued
<1> QED BY <1>6, <1>7, <1>8, <1>9 DEF ParkInv

\* The restore, and a door that opens again in the middle of it.
LEMMA ParkDoor ==
  ASSUME TypeInv, DoorInv, ParkInv, StartRestore \/ DoorReopened
  PROVE  ParkInv'
<1>1. /\ MakingRight /\ HeldSaved /\ PartialRight /\ HoldCuts /\ DistInv /\ BlockDataIntact
      /\ sys \in SysType /\ DoorParks /\ ProtocolTypes
  BY DEF ParkInv, TypeInv, TypeOK, DoorInv, ProtocolTypes
<1>2. CASE StartRestore
  <2>1. /\ UNCHANGED <<plan, budget, plb, prep, sblk, seg, head, tail, pc>>
        /\ sys.state = "SafetyDoor" /\ sys.holdComplete
    BY <1>2 DEF StartRestore, prepVars, isrVars
  <2>2. /\ sys'.state = sys.state /\ sys'.parkCall = sys.parkCall
        /\ sys'.holdComplete = sys.holdComplete /\ sys'.ctl = sys.ctl
    BY <1>1, <1>2 DEF StartRestore, SysType
  <2>3. MakingRight' /\ HeldSaved' /\ PartialRight' /\ HoldCuts'
    BY <1>1, <2>1, <2>2
       DEF MakingRight, Making, CurrentBlock, HeldSaved, PartialRight, HoldCuts, InMaking, Held
  <2>4. DistInv' /\ BlockDataIntact'
    BY <1>1, <2>1, DataKept DEF InMaking, Queued
  <2> QED BY <2>3, <2>4 DEF ParkInv
<1>3. CASE DoorReopened
  <2>1. /\ UNCHANGED <<plan, sblk, seg, head, tail, pc>> /\ StUpdate
        /\ sys.ctl.executeSysMotion /\ sys.parkCall /\ sys.state = "SafetyDoor" /\ pc = "top"
        /\ budget'.parks = budget.parks
    BY <1>1, <1>3 DEF DoorReopened, isrVars, DoorParks, ProtocolTypes
  <2>2. /\ sys'.state = sys.state /\ sys'.parkCall = sys.parkCall /\ ~sys'.restoring
        /\ ~sys'.holdComplete
        /\ sys'.ctl.executeHold /\ sys'.ctl.executeSysMotion
    BY <1>1, <1>3 DEF DoorReopened, SysType
  <2>3. MakingRight' /\ HeldSaved' /\ PartialRight' /\ HoldCuts'
    BY <1>1, <2>1, <2>2, UpdatedFacts
       DEF MakingRight, Making, HeldSaved, PartialRight, HoldCuts, Held
  <2>4. DistInv' /\ BlockDataIntact'
    BY <1>1, <2>1, UpdatedFacts, DataKept DEF Queued
  <2> QED BY <2>3, <2>4 DEF ParkInv
<1> QED BY <1>2, <1>3

\* A reset forgets all of it.
LEMMA ParkReset ==
  ASSUME TypeInv, DoorInv, ParkInv, Reset
  PROVE  ParkInv'
<1>1. /\ sys' = SysReset /\ prep' = PrepReset /\ plb' = NoBlock /\ pc' = "top"
      /\ head' = 0 /\ tail' = 0
  BY DEF Reset
<1>2. MakingRight' /\ HeldSaved' /\ PartialRight' /\ HoldCuts'
  BY <1>1 DEF InMaking, MakingRight, HeldSaved, PartialRight, HoldCuts, SysReset, NoControl,
              PrepReset, NoFlags
<1>3. \A i \in Slots : ~Queued(i)'
  BY <1>1, SlotsType DEF Queued
<1> QED BY <1>2, <1>3, DataGone DEF ParkInv

LEMMA ParkNext ==
  ASSUME ~HoldAtRest, TypeInv, DoorInv, ParkInv, [Next]_vars \/ Others, [FreshDoor]_vars
  PROVE  ParkInv'
<1>1. CASE UNCHANGED vars
  BY <1>1, ParkMoves
<1>2. CASE Others
  BY <1>2, ParkInterrupt
<1>3. CASE Next /\ FreshDoor
  BY <1>3, ParkMoves, ParkLoadNew, ParkLoadSame, ParkSegment, ParkPublish, ParkBufferLine,
     ParkStart, ParkSuspend, ParkCycleStop, ParkBegins, ParkEnds, ParkDoor, ParkReset,
     ParkInterrupt DEF Next, Prep, Protocol, Handlers, Parking
<1> QED BY <1>1, <1>2, <1>3

\* st_parking_setup_buffer and st_parking_restore_buffer: the interrupt steps every segment
\* with the data of its block also where parking motions come in between, any number of
\* them behind each door and behind doors that open again, as long as a door finds no flags
\* of an earlier one.
THEOREM ParkedDataIntact ==
  ASSUME ~Underrun, ~HoldAtRest
  PROVE  Spec /\ [][FreshDoor]_vars => []BlockDataIntact
<1>1. Init => TypeInv /\ DoorInv /\ ParkInv
  BY InitTypeInv, DoorInit, ParkInit
<1>2. TypeInv /\ DoorInv /\ ParkInv /\ [Next]_vars /\ [FreshDoor]_vars
        => TypeInv' /\ DoorInv' /\ ParkInv'
  BY NextTypeInv, DoorNext, ParkNext
<1>3. ParkInv => BlockDataIntact
  BY DEF ParkInv
<1> QED BY <1>1, <1>2, <1>3, PTL DEF Spec

\* The flags of a parking motion are there only after one.
ParksLeft == budget.parks <= MaxParks /\ (prep.flag.parking => budget.parks < MaxParks)

LEMMA ParksLeftStep ==
  ASSUME TypeInv, ParksLeft, [Next]_vars \/ Others
  PROVE  ParksLeft'
<1>1. /\ budget \in [holds: Nat, resets: Nat, parks: Nat] /\ MaxParks \in Nat
      /\ prep \in PrepType /\ prep.flag \in FlagType
  BY BufferAssumption DEF BufferAssumption, TypeInv, TypeOK, ProtocolTypes, PrepTypes, PrepType
<1>2. (prep'.flag.parking => prep.flag.parking) /\ budget'.parks = budget.parks => ParksLeft'
  BY DEF ParksLeft
<1>3. CASE UNCHANGED <<prep, budget>>
  BY <1>2, <1>3
<1>4. StUpdate => (prep'.flag.parking => prep.flag.parking)
  BY UpdatedFacts
<1>5. CASE PrepLoadNew
  <2>1. prep'.flag = prep.flag /\ UNCHANGED budget
    BY <1>1, <1>5 DEF PrepLoadNew, PrepType, protocolVars
  <2> QED BY <1>2, <2>1
<1>6. CASE PrepLoadSame
  <2>1. /\ UNCHANGED budget
        /\ prep'.flag = IF prep.flag.parking THEN [prep.flag EXCEPT !.recalculate = FALSE]
                                             ELSE NoFlags
    BY <1>1, <1>6 DEF PrepLoadSame, PrepType, protocolVars
  <2> QED BY <1>1, <1>2, <2>1 DEF FlagType, NoFlags
<1>7. CASE PrepSegment
  <2>1. UNCHANGED budget /\ (prep' = HoldPartial(prep) \/ \E d : prep' = [prep EXCEPT !.rem = d])
    BY <1>7 DEF PrepSegment
  <2> QED BY <1>1, <1>2, <2>1, HoldPartialEffect DEF PrepType
<1>8. CASE PublishMore \/ PublishLast \/ PublishBlockEnd
  <2>1. UNCHANGED budget /\ (prep' = Cut \/ prep' = HoldPartial(Cut))
    BY <1>8 DEF PublishMore, PublishLast, PublishBlockEnd, Publish
  <2>2. Cut \in PrepType /\ Cut.flag = prep.flag
    BY CutEffect DEF TypeInv, TypeOK
  <2> QED BY <1>2, <2>1, <2>2, HoldPartialEffect
<1>9. CASE BufferLine \/ HandleCycleStop
  <2>1. UNCHANGED budget /\ (UNCHANGED <<prep, plb>> \/ StUpdate)
    BY <1>9 DEF BufferLine, HandleCycleStop
  <2> QED BY <1>2, <1>4, <2>1
<1>10. CASE FeedHold \/ SafetyDoor \/ DoorReopened
  <2>1. budget' = [budget EXCEPT !.holds = @ - 1] /\ (UNCHANGED <<prep, plb>> \/ StUpdate)
    BY <1>10 DEF FeedHold, SafetyDoor, DoorReopened, Suspend
  <2> QED BY <1>1, <1>2, <1>4, <2>1
<1>11. CASE ParkMotion
  <2>1. budget'.parks = budget.parks - 1
    BY <1>1, <1>11 DEF ParkMotion
  <2> QED BY <1>1, <2>1 DEF ParksLeft
<1>12. CASE ParkRestore
  <2>1. UNCHANGED budget /\ prep' = Restored
    BY <1>12 DEF ParkRestore
  <2>2. Restored.flag.parking => prep.flag.parking
    BY <1>1 DEF Restored, PrepType, FlagType, NoFlags
  <2> QED BY <1>2, <2>1, <2>2
<1>13. CASE Reset
  <2>1. budget'.parks = budget.parks /\ ~prep'.flag.parking
    BY <1>1, <1>13 DEF Reset, PrepReset, NoFlags
  <2> QED BY <1>2, <2>1
<1>14. CASE Others
  <2>1. UNCHANGED prep /\ budget'.parks = budget.parks
    BY <1>1, <1>14 DEF Others, prepVars, protocolVars
  <2> QED BY <1>2, <2>1
<1>15. CASE \/ UNCHANGED vars \/ PrepEnter \/ PrepReturn \/ PrepKeep \/ WakeUp
            \/ CycleStart \/ DoorResume \/ StartRestore \/ Interrupt
  BY <1>3, <1>15 DEF vars, protocolVars, prepVars, PrepEnter, PrepReturn, PrepKeep, WakeUp,
     CycleStart, DoorResume, Start, StartRestore, Interrupt, IsrStep, IsrEmpty
<1> QED BY <1>5, <1>6, <1>7, <1>8, <1>9, <1>10, <1>11, <1>12, <1>13, <1>14, <1>15
        DEF Next, Prep, Protocol, Handlers, Parking

\* With one parking motion, every door finds them cleared.
LEMMA OnePark ==
  ASSUME MaxParks <= 1, TypeInv, ParksLeft
  PROVE  FreshDoor
BY BufferAssumption
   DEF BufferAssumption, FreshDoor, ParksLeft, TypeInv, TypeOK, ProtocolTypes

\* Laser.cpp around the same buffer, with one parking motion as in the run: whatever
\* parser, overrides, stop characters and a reset in another task do in between, no segment
\* is stepped with the data of another block.
THEOREM LaserDataIntact ==
  ASSUME MaxParks <= 1, ~Underrun, ~HoldAtRest
  PROVE  LaserSpec => []BlockDataIntact
<1>1. LaserInit => TypeInv /\ DoorInv /\ ParkInv /\ ParksLeft
  <2>1. Init => ParksLeft
    BY BufferAssumption DEF BufferAssumption, Init, ParksLeft, PrepReset, NoFlags
  <2> QED BY <2>1, InitTypeInv, DoorInit, ParkInit DEF LaserInit
<1>2. TypeInv /\ DoorInv /\ ParkInv /\ ParksLeft /\ [LaserNext]_allVars
        => TypeInv' /\ DoorInv' /\ ParkInv' /\ ParksLeft'
  BY LaserSteps, NextTypeInv, OthersTypeInv, DoorNext, OthersDoorInv, ParkNext, OnePark,
     ParksLeftStep
<1>3. ParkInv => BlockDataIntact
  BY DEF ParkInv
<1> QED BY <1>1, <1>2, <1>3, PTL DEF LaserSpec
=============================================================================
