---------------------------- MODULE AnchorLedger ----------------------------
(***************************************************************************)
(* What a caller is promised about anchor IDs (the class AnchorManifest    *)
(* and docs/lifecycle.md: "allocated monotonically ... permanently         *)
(* invalidated ... never reused"), with no tree, no table and no batch:    *)
(* between two calls some IDs are valid; a call may retire any of them and *)
(* issue new ones, and the new ones are above every ID issued before.      *)
(***************************************************************************)
EXTENDS Integers

VARIABLES
    live,       \* the IDs that are valid
    issued      \* the highest ID ever shown to the caller

LedgerInit ==
    /\ issued \in Nat
    /\ live \subseteq 1..issued

(* One call: it retires some IDs and issues others. *)
Call ==
    /\ issued' \in Nat /\ issued <= issued'
    /\ live' \subseteq live \cup ((issued + 1)..issued')

LedgerSpec == LedgerInit /\ [][Call]_<<live, issued>>
=============================================================================
