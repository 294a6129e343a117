------------------------- MODULE MockModbusIoProofs -------------------------
(***************************************************************************)
(* The mock device tells the truth about its outputs, for every set of     *)
(* channels and every sequence of writes and injected outcomes.            *)
(***************************************************************************)
EXTENDS MockModbusIo, TLAPS

MioSpec == MioInit /\ [][MioNext]_mio_vars

\* What is confirmed differs from what was asked for only after a failure, and an
\* outcome that waits to be spent is one a write can end in.
MioInv ==
  /\ next_outcome \in Outcomes
  /\ outputs \in [Channels -> [requested : BOOLEAN, confirmed : BOOLEAN,
                               status : Outcomes \cup {"None"}]]
  /\ MockIsHonest

\* A write of one output leaves it honest, whatever it was before.
LEMMA WrittenIsHonest ==
  ASSUME NEW output \in [requested : BOOLEAN, confirmed : BOOLEAN,
                         status : Outcomes \cup {"None"}],
         NEW active \in BOOLEAN, next_outcome \in Outcomes
  PROVE  /\ Written(output, active) \in [requested : BOOLEAN, confirmed : BOOLEAN,
                                         status : Outcomes \cup {"None"}]
         /\ Written(output, active).confirmed # Written(output, active).requested =>
              Written(output, active).status \in Outcomes \ {"Confirmed"}
BY DEF Written

\* A write of any channels keeps the invariant: the others are untouched.
LEMMA WriteKeeps ==
  ASSUME MioInv, NEW channels \in SUBSET Channels, NEW active \in BOOLEAN,
         Write(channels, active)
  PROVE  MioInv'
<1> DEFINE Output == [requested : BOOLEAN, confirmed : BOOLEAN,
                      status : Outcomes \cup {"None"}]
<1>1. outputs' = [c \in Channels |->
                    IF c \in channels THEN Written(outputs[c], active) ELSE outputs[c]]
  BY DEF Write
<1>2. \A c \in Channels : outputs[c] \in Output  BY DEF MioInv
<1>3. \A c \in Channels : c \in channels =>
        /\ outputs'[c] \in Output
        /\ outputs'[c].confirmed # outputs'[c].requested =>
             outputs'[c].status \in Outcomes \ {"Confirmed"}
  <2> TAKE c \in Channels
  <2> HAVE c \in channels
  <2>1. outputs'[c] = Written(outputs[c], active)  BY <1>1
  <2>2. next_outcome \in Outcomes  BY DEF MioInv
  <2> HIDE DEF Output
  <2>3. outputs[c] \in Output  BY <1>2
  <2> USE DEF Output
  <2>4. QED  BY <2>1, <2>2, <2>3, WrittenIsHonest
<1>4. \A c \in Channels : c \notin channels => outputs'[c] = outputs[c]
  BY <1>1
<1>5. \A c \in Channels :
        /\ outputs'[c] \in Output
        /\ outputs'[c].confirmed # outputs'[c].requested =>
             outputs'[c].status \in Outcomes \ {"Confirmed"}
  <2> HIDE DEF Output
  <2>1. QED  BY <1>2, <1>3, <1>4 DEF MioInv, MockIsHonest
<1>6. next_outcome' \in Outcomes  BY DEF Write, Outcomes
<1>7. outputs' \in [Channels -> Output]
  <2> HIDE DEF Output
  <2>1. QED  BY <1>1, <1>5
<1>8. QED  BY <1>5, <1>6, <1>7 DEF MioInv, MockIsHonest

(***************************************************************************)
(* An output shown other than requested is always reported as one whose    *)
(* last write failed, in every sequence of scans, writes and injected      *)
(* outcomes.                                                               *)
(***************************************************************************)
THEOREM MockHonestTheorem == MioSpec => []MockIsHonest
<1>1. MioInit => MioInv
  <2> SUFFICES ASSUME MioInit PROVE MioInv  OBVIOUS
  <2>1. \A c \in Channels :
          outputs[c] = [requested |-> FALSE, confirmed |-> FALSE, status |-> "None"]
    BY DEF MioInit
  <2>2. MockIsHonest
    <3>1. ASSUME NEW c \in Channels PROVE outputs[c].confirmed = outputs[c].requested
      <4>1. outputs[c].confirmed = FALSE  BY <2>1
      <4>2. outputs[c].requested = FALSE  BY <2>1
      <4>3. QED  BY <4>1, <4>2
    <3>2. QED  BY <3>1, Zenon DEF MockIsHonest
  <2>3. outputs \in [Channels -> [requested : BOOLEAN, confirmed : BOOLEAN,
                                  status : Outcomes \cup {"None"}]]
    BY DEF MioInit
  <2>4. next_outcome \in Outcomes  BY DEF MioInit, Outcomes
  <2>5. QED  BY <2>2, <2>3, <2>4 DEF MioInv
<1>2. MioInv /\ [MioNext]_mio_vars => MioInv'
  <2> SUFFICES ASSUME MioInv, [MioNext]_mio_vars PROVE MioInv'  OBVIOUS
  <2>1. CASE begin_scan \/ complete_scan \/ UNCHANGED mio_vars
    BY <2>1 DEF begin_scan, complete_scan, mio_vars, MioInv, MockIsHonest
  <2>2. CASE write_all_outputs_off
    BY <2>2, WriteKeeps DEF write_all_outputs_off
  <2>3. ASSUME NEW c \in Channels, NEW active \in BOOLEAN, write_digital_output(c, active)
        PROVE  MioInv'
    <3>1. {c} \in SUBSET Channels  OBVIOUS
    <3>2. QED  BY <2>3, <3>1, WriteKeeps DEF write_digital_output
  <2>4. ASSUME NEW outcome \in Statuses, set_next_write_outcome(outcome)
        PROVE  MioInv'
    BY <2>4 DEF set_next_write_outcome, MioInv, MockIsHonest, Outcomes
  <2>5. QED  BY <2>1, <2>2, <2>3, <2>4 DEF MioNext
<1>3. MioInv => MockIsHonest  BY DEF MioInv
<1>4. QED  BY <1>1, <1>2, <1>3, PTL DEF MioSpec
=============================================================================
