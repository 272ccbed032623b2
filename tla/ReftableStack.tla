--------------------------- MODULE ReftableStack ---------------------------
(***************************************************************************)
(* Opening a stack of reftables (internal/reftable/stack.go).  tables.list *)
(* names the tables, oldest first; OpenStack reads it once, opens the      *)
(* tables one by one, and merges them.  Git may add a table, or replace    *)
(* several by one and unlink them, between any two of these reads; a table *)
(* itself never changes.                                                   *)
(*                                                                         *)
(* A table is a function from keys to records: an id or a name, Deleted,   *)
(* Bad for a record of a type the reader does not know, or None where it   *)
(* has no record.  Key 0 is HEAD.  How a table is laid out is RefTable's   *)
(* matter.                                                                 *)
(***************************************************************************)
EXTENDS Naturals, Sequences

CONSTANTS
    NumRefs,        \* how many ref names there are
    None, Bad, Deleted

ASSUME NumRefsAssumption == NumRefs \in Nat
ASSUME MarksAssumption == None # Bad /\ None # Deleted /\ Bad # Deleted

Keys == 0..NumRefs

VARIABLES
    tablesList, \* tables.list
    files,      \* the table files that exist
    spc,        \* where OpenStack is
    names,      \* the list it has read
    readers,    \* the tables it holds open
    merged      \* Stack.merged

tableVars == <<tablesList, files>>
stackVars == <<spc, names, readers, merged>>

Empty == [k \in Keys |-> None]

\* The last record each key has in a run of tables.
Latest(tables) ==
    LET upTo[i \in 0..Len(tables)] ==
            IF i = 0 THEN Empty
            ELSE [k \in Keys |-> IF tables[i][k] = None THEN upTo[i - 1][k] ELSE tables[i][k]]
    IN upTo[Len(tables)]

WithoutDeletions(table) == [k \in Keys |-> IF table[k] = Deleted THEN None ELSE table[k]]

\* Mutant: a deletion is skipped like a record that is not there.
MergeSkippingDeletions(tables) ==
    Latest([i \in DOMAIN tables |-> WithoutDeletions(tables[i])])

\* OpenStack's loop over the readers: later records replace earlier ones, and
\* deletions remove them.
Merge(tables) == WithoutDeletions(Latest(tables))

StackIdle ==
    /\ spc = "idle" /\ names = <<>> /\ readers = <<>> /\ merged = Empty

\* Mutant: the tables opened so far are left open.
StackFailsOpen == spc' = "failed" /\ UNCHANGED <<names, readers, merged>>

\* closeAll.
StackFails == spc' = "failed" /\ readers' = <<>> /\ UNCHANGED <<names, merged>>

ReadTablesList ==
    /\ spc = "idle"
    /\ \/ StackFails
       \/ spc' = "tables" /\ names' = tablesList /\ UNCHANGED <<readers, merged>>
    /\ UNCHANGED tableVars

\* parseTablesList finds an empty line.
TablesListInvalid == spc = "idle" /\ StackFails /\ UNCHANGED tableVars

\* OpenReader maps a file and copies it: unlinking it later does no harm, but
\* one that has been unlinked already, or is short or damaged, is an error.
OpenTable ==
    /\ spc = "tables" /\ Len(readers) < Len(names)
    /\ LET name == names[Len(readers) + 1] IN
       \/ StackFails
       \/ /\ name \in DOMAIN files
          /\ readers' = Append(readers, files[name])
          /\ UNCHANGED <<spc, names, merged>>
    /\ UNCHANGED tableVars

MergeTables ==
    /\ spc = "tables" /\ Len(readers) = Len(names)
    /\ LET unknown == \E i \in DOMAIN readers, k \in Keys : readers[i][k] = Bad IN
       \/ unknown /\ StackFails
       \/ /\ ~unknown
          /\ merged' = Merge(readers) /\ spc' = "open"
          /\ UNCHANGED <<names, readers>>
    /\ UNCHANGED tableVars

\* Stack.Close.
CloseStack == spc' = "closed" /\ readers' = <<>> /\ merged' = Empty /\ UNCHANGED names

OpenStackStep == ReadTablesList \/ TablesListInvalid \/ OpenTable \/ MergeTables

(***************************************************************************)
(* Git: a transaction adds a table; a compaction replaces the tables from  *)
(* the i-th on by one, which may forget deletions when there is nothing    *)
(* below it.  Files no longer listed are unlinked later.                   *)
(***************************************************************************)
GitAddsTable(id, table) ==
    /\ tablesList' = Append(tablesList, id)
    /\ files' = [f \in DOMAIN files \cup {id} |-> IF f = id THEN table ELSE files[f]]

GitCompactsTables(id) ==
    \E i \in 1..Len(tablesList) - 1 :
        LET top == Latest([j \in 1..Len(tablesList) - i + 1 |-> files[tablesList[i + j - 1]]])
            table == IF i = 1 THEN WithoutDeletions(top) ELSE top
        IN /\ tablesList' = Append(SubSeq(tablesList, 1, i - 1), id)
           /\ files' = [f \in DOMAIN files \cup {id} |-> IF f = id THEN table ELSE files[f]]

GitUnlinksTables ==
    LET listed == {tablesList[i] : i \in DOMAIN tablesList} IN
    /\ DOMAIN files # listed
    /\ files' = [f \in listed |-> files[f]]
    /\ UNCHANGED tablesList
=============================================================================
