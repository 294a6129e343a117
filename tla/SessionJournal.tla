--------------------------- MODULE SessionJournal ---------------------------
(***************************************************************************)
(* rcr_platform_next_session: the flash page from which each boot of the   *)
(* firmware takes the session that tells its commands from those of the    *)
(* boot before. A record is a value and, written after it, its complement; *)
(* power may fail between any two flash operations, and each may fail.     *)
(***************************************************************************)
EXTENDS Naturals, FiniteSets, FiniteSetsExt

CONSTANTS
  Records,    \* SESSION_RECORD_COUNT
  MaxSession, \* 0xFFFF
  MaxBoots    \* bound: boots in a behaviour; below MaxSession, see IdentityChanges

ASSUME JournalAssumption ==
  Records \in Nat \ {0} /\ MaxSession \in Nat \ {0, 1} /\ MaxBoots \in Nat

VARIABLES
  page,      \* the records: blank, or a value with or without its complement
  boot,      \* the step of the boot in progress, the record it writes, its session
  session,   \* the session the node runs with; 0 when it does not run
  ready,     \* identity_ready of the running node
  previous,  \* the session of the last boot that got an identity
  lost,      \* a boot since then has found the page without a complete record
  boots      \* how many boots there have been

sj_vars == <<page, boot, session, ready, previous, lost, boots>>

Blank == [value |-> 0, complete |-> FALSE]

\* All ones cannot be told from an erased half-word.
Torn(v) == IF v = MaxSession THEN Blank ELSE [value |-> v, complete |-> FALSE]

Written(v) == [value |-> v, complete |-> TRUE]

\* The scan keeps the last complete record and the first blank one; a torn
\* record is neither.
LastValue ==
  LET complete == {i \in 1 .. Records : page[i].complete}
  IN  IF complete = {} THEN 0 ELSE page[Max(complete)].value

BlankRecords == {i \in 1 .. Records : page[i] = Blank}

\* Mutant of NextSession: the counter stays at its largest value.
NextSessionSaturates ==
  IF LastValue = MaxSession THEN MaxSession ELSE LastValue + 1

NextSession == IF LastValue = MaxSession THEN 1 ELSE LastValue + 1

Off == [pc |-> "off", record |-> 0, next |-> 0]

-----------------------------------------------------------------------------
power_on ==
  /\ boot.pc = "off" /\ session = 0 /\ boots < MaxBoots
  /\ boots' = boots + 1
  /\ lost' = (lost \/ (LastValue = 0 /\ previous # 0))
  /\ boot' = IF BlankRecords = {}
               THEN [pc |-> "erase", record |-> 1, next |-> NextSession]
               ELSE [pc |-> "value", record |-> Min(BlankRecords), next |-> NextSession]
  /\ UNCHANGED <<page, session, ready, previous>>

\* The node comes up with the new session; only the answer says if it is durable.
Finish(ok) ==
  /\ boot' = Off
  /\ session' = boot.next
  /\ ready' = ok
  /\ previous' = IF ok THEN boot.next ELSE previous
  /\ lost' = (lost /\ ~ok)

\* A page erase that fails leaves the page as it was.
erase_page ==
  /\ boot.pc = "erase"
  /\ \/ /\ page' = [i \in 1 .. Records |-> Blank]
        /\ boot' = [boot EXCEPT !.pc = "value"]
        /\ UNCHANGED <<session, ready, previous, lost>>
     \/ Finish(FALSE) /\ UNCHANGED page
  /\ UNCHANGED boots

\* A programming step that reports an error may or may not have changed the flash.
program_value ==
  /\ boot.pc = "value"
  /\ \/ /\ page' = [page EXCEPT ![boot.record] = Torn(boot.next)]
        /\ boot' = [boot EXCEPT !.pc = "complement"]
        /\ UNCHANGED <<session, ready, previous, lost>>
     \/ /\ Finish(FALSE)
        /\ page' \in {page, [page EXCEPT ![boot.record] = Torn(boot.next)]}
  /\ UNCHANGED boots

\* Mutant of program_complement: the result of the second write is ignored.
program_complement_unchecked ==
  /\ boot.pc = "complement"
  /\ Finish(TRUE) /\ page' \in {page, [page EXCEPT ![boot.record] = Written(boot.next)]}
  /\ UNCHANGED boots

program_complement ==
  /\ boot.pc = "complement"
  /\ \/ Finish(TRUE) /\ page' = [page EXCEPT ![boot.record] = Written(boot.next)]
     \/ Finish(FALSE) /\ page' \in {page, [page EXCEPT ![boot.record] = Written(boot.next)]}
  /\ UNCHANGED boots

\* Power fails, or the node is reset, at any step.
power_off ==
  /\ boot' = Off /\ session' = 0 /\ ready' = FALSE
  /\ UNCHANGED <<page, previous, lost, boots>>

-----------------------------------------------------------------------------
\* A new page, or one that an earlier life has left with one record.
SjInit ==
  /\ \E v \in 0 .. MaxSession :
       /\ page = [i \in 1 .. Records |-> IF i = 1 /\ v # 0 THEN Written(v) ELSE Blank]
       /\ previous = v
  /\ boot = Off /\ session = 0 /\ ready = FALSE /\ lost = FALSE /\ boots = 0

SjNext == power_on \/ erase_page \/ program_value \/ program_complement \/ power_off

SjSpec == SjInit /\ [][SjNext]_sj_vars

-----------------------------------------------------------------------------
\* Types and bounds of the state; the first conjunct of IdentityIsDurable.
SjTypeOK ==
  /\ page \in [1 .. Records -> [value : 0 .. MaxSession, complete : BOOLEAN]]
  /\ boot.pc \in {"off", "erase", "value", "complement"}
  /\ boot.pc # "off" => boot.next \in 1 .. MaxSession /\ boot.record \in 1 .. Records
  /\ session \in 0 .. MaxSession /\ previous \in 0 .. MaxSession
  /\ ready \in BOOLEAN /\ boots \in 0 .. MaxBoots

(***************************************************************************)
(* The session of a node that may drive outputs is what the next boot's    *)
(* scan will find: the identity was durable before it was used, whatever   *)
(* torn records lie around it.                                             *)
(***************************************************************************)
IdentityIsDurable == SjTypeOK /\ (ready => session # 0 /\ LastValue = session)

(***************************************************************************)
(* Two boots in a row that get an identity get different ones, wherever    *)
(* power failed and whatever flash operation failed in between, until the  *)
(* counter has gone round; but for a page that was lost between its erase  *)
(* and the first record after it (which firmware SPEC 6.1 excludes).       *)
(***************************************************************************)
IdentityChanges ==
  [][ready' /\ ~ready /\ ~lost => session' # previous]_sj_vars
=============================================================================
