---------------------------- MODULE TableLookup ----------------------------
(***************************************************************************)
(* The readers of sorted files: one reftable, one pack index or multi-pack *)
(* index, or one variable-length integer.  They share no state, so that a  *)
(* behaviour is the life of one of them.                                   *)
(***************************************************************************)
EXTENDS RefTable, OidLookup, Varint

readerVars == <<tableVars, lookupVars, varintVars>>

ReadersInit == RefTableInit /\ LookupInit /\ VarintInit

Unread == rpc = "none" /\ ipc = "none" /\ vpc = "none"

ReadTable ==
    /\ (Unread /\ TableWritten) \/ RefTableNext
    /\ UNCHANGED <<lookupVars, varintVars>>

ReadIndex ==
    /\ (Unread /\ IndexWritten) \/ LookupNext
    /\ UNCHANGED <<tableVars, varintVars>>

ReadVarint ==
    /\ (Unread /\ VarintStart) \/ VarintNext
    /\ UNCHANGED <<tableVars, lookupVars>>

Read == (RefTableDone \/ LookupDone \/ VarintDone) /\ UNCHANGED readerVars

ReadersNext == ReadTable \/ ReadIndex \/ ReadVarint \/ Read

ReadersSpec == ReadersInit /\ [][ReadersNext]_readerVars
=============================================================================
