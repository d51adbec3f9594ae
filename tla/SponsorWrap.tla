----------------------------- MODULE SponsorWrap -----------------------------
(***************************************************************************)
(* sponsorWrapRawTx (rest-api/src/utils/solana.ts): a Solana transaction   *)
(* is taken apart and built again with another fee payer.  Its accounts    *)
(* are known by index: the keys the message holds, then those it looks up  *)
(* in address tables, first the writable ones.  Of a message only the      *)
(* counts that decide an account's flags are kept.                         *)
(***************************************************************************)
EXTENDS Integers

CONSTANT MaxKeys  \* bound on each of the counts of a message

VARIABLES
  msg,     \* the original message
  pc,
  signers, \* the accounts its instructions are rebuilt with as signers
  writable \* and those they are rebuilt with as writable

wrapVars == <<msg, pc, signers, writable>>

(* Signatures come first, then the other keys; of both the last ones are   *)
(* read-only.  The fee payer is a signer whose account is written.         *)
Messages(Count) ==
  {m \in [static : Count, signed : Count, roSigned : Count,
          roUnsigned : Count, lutWritable : Count, lutReadonly : Count] :
     /\ m.signed + m.roUnsigned <= m.static
     /\ m.signed = 0 \/ m.roSigned < m.signed}

Total(m) == m.static + m.lutWritable + m.lutReadonly

Indexes(m) == 0..(Total(m) - 1)

(* What the message format says. *)
OriginalSigners(m) == {i \in Indexes(m) : i < m.signed}

OriginalWritable(m) ==
  {i \in Indexes(m) :
     \/ i < m.signed - m.roSigned
     \/ m.signed <= i /\ i < m.static - m.roUnsigned
     \/ m.static <= i /\ i < m.static + m.lutWritable}

(* What flagsForIndex says. *)
RebuiltSigners(m) == {i \in Indexes(m) : i < m.signed}

RebuiltWritable(m) ==
  LET unsigned == Total(m) - m.signed
      writableUnsigned == unsigned - m.roUnsigned
  IN {i \in Indexes(m) :
        \/ i < m.signed - m.roSigned
        \/ m.signed <= i /\ i - m.signed < writableUnsigned}

-----------------------------------------------------------------------------

WrapInit ==
  /\ msg \in Messages(0..MaxKeys)
  /\ pc = "load"
  /\ signers = {}
  /\ writable = {}

(* loadLookupTables: a table may be missing. *)
LoadLookupTables ==
  /\ pc = "load"
  /\ \/ pc' = "rebuild"
     \/ msg.lutWritable + msg.lutReadonly > 0 /\ pc' = "error"
  /\ UNCHANGED <<msg, signers, writable>>

(* The instructions are rebuilt; without a signer there is no user. *)
Rebuild ==
  /\ pc = "rebuild"
  /\ \/ /\ msg.signed = 0
        /\ pc' = "error"
        /\ UNCHANGED <<signers, writable>>
     \/ /\ msg.signed > 0
        /\ pc' = "wrapped"
        /\ signers' = RebuiltSigners(msg)
        /\ writable' = RebuiltWritable(msg)
  /\ UNCHANGED msg

WrapNext == LoadLookupTables \/ Rebuild

WrapSpec == WrapInit /\ [][WrapNext]_wrapVars

-----------------------------------------------------------------------------

(* The wrapped transaction uses every account as the original does. *)
FlagsKept ==
  pc = "wrapped" => /\ signers = OriginalSigners(msg)
                    /\ writable = OriginalWritable(msg)
=============================================================================
