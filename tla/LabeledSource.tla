---------------------------- MODULE LabeledSource ----------------------------
(***************************************************************************)
(* labeledSource: an instance of a source added with --path mode:label=dir *)
(* puts its label before the project and the cwd of every row, in the list *)
(* its wrapped source hands it, after that source has kept it.  A source   *)
(* of files hands out rows of a slice made for the call                    *)
(* (fileRecordCache.records), one with a database the very slice it keeps  *)
(* (dbSnapshotCache.load): List and Usage of OpenCode.  There nothing      *)
(* guards the rows: each is read, then written, while others do the same.  *)
(***************************************************************************)
EXTENDS Integers, FiniteSets, Sequences

CONSTANTS
  Askers,     \* the handlers and reports that list the source
  Rows,       \* how many rows the list has
  Sharing,    \* which of the two kinds: whether what is kept is handed out
  MaxWrites,  \* bound: writes to the store
  MaxLists,   \* bound: lists made
  MaxHands    \* bound: times one list is handed out

ASSUME LabelAssumption ==
  /\ IsFiniteSet(Askers) /\ Rows \in Nat \ {0} /\ Sharing \subseteq BOOLEAN
  /\ MaxWrites \in Nat /\ MaxLists \in Nat /\ MaxHands \in Nat

VARIABLES
  shares,  \* what is kept is what is handed out
  writes,  \* how often the store was written
  lists,   \* the lists in memory: how many labels each row bears
  handed,  \* to how many askers each list was handed
  kept,    \* [list, stamp] the source keeps; list 0 is none
  ask      \* each asker's [pc, stamp, list, row, was]

labelVars == <<shares, writes, lists, handed, kept, ask>>

Unasked == [pc |-> "idle", stamp |-> 0, list |-> 0, row |-> 0, was |-> 0]
Made == Len(lists)
Unlabelled == [row \in 1..Rows |-> 0]
CanMake == Made < MaxLists

-----------------------------------------------------------------------------
WriteStore ==
  /\ writes < MaxWrites
  /\ writes' = writes + 1
  /\ UNCHANGED <<shares, lists, handed, kept, ask>>

Stamp(a) ==
  /\ ask[a].pc = "idle"
  /\ ask' = [ask EXCEPT ![a] = [Unasked EXCEPT !.pc = "stamped", !.stamp = writes]]
  /\ UNCHANGED <<shares, writes, lists, handed, kept>>

Label(a, list) == [ask EXCEPT ![a].pc = "label", ![a].row = 1, ![a].list = list]

\* The wrapped source returns the list, or a copy of its rows
HandOutKept(a, list) ==
  /\ handed[list] < MaxHands
  /\ handed' = [handed EXCEPT ![list] = @ + 1]
  /\ ask' = Label(a, list)
  /\ UNCHANGED lists
HandOutCopy(a, list) ==
  /\ CanMake
  /\ lists' = Append(lists, lists[list])
  /\ handed' = Append(handed, 1)
  /\ ask' = Label(a, Made + 1)
\* mutant: a source of files returns what it keeps, too
HandOutAlways(a, list) == HandOutKept(a, list)
HandOut(a, list) == IF shares THEN HandOutKept(a, list) ELSE HandOutCopy(a, list)

Unmoved(a) == kept.list # 0 /\ kept.stamp = ask[a].stamp

ListKept(a) ==
  /\ ask[a].pc = "stamped" /\ Unmoved(a)
  /\ HandOut(a, kept.list)
  /\ UNCHANGED <<shares, writes, kept>>

ReadList(a) ==
  /\ ask[a].pc = "stamped" /\ ~Unmoved(a)
  /\ CanMake
  /\ lists' = Append(lists, Unlabelled)
  /\ handed' = Append(handed, 0)
  /\ ask' = [ask EXCEPT ![a].pc = "read", ![a].list = Made + 1]
  /\ UNCHANGED <<shares, writes, kept>>

KeepList(a) ==
  /\ ask[a].pc = "read"
  /\ kept' = [list |-> ask[a].list, stamp |-> ask[a].stamp]
  /\ HandOut(a, ask[a].list)
  /\ UNCHANGED <<shares, writes>>

\* One turn of the loop over the rows, recs[i].Cwd = label + recs[i].Cwd; the
\* last one returns the list
LoadRow(a) ==
  /\ ask[a].pc = "label"
  /\ ask' = [ask EXCEPT ![a].pc = "write", ![a].was = lists[ask[a].list][ask[a].row]]
  /\ UNCHANGED <<shares, writes, lists, handed, kept>>

StoreRow(a) ==
  LET one == ask[a]
  IN  /\ one.pc = "write"
      /\ lists' = [lists EXCEPT ![one.list][one.row] = one.was + 1]
      /\ ask' = [ask EXCEPT ![a] = IF one.row = Rows THEN [one EXCEPT !.pc = "reading"]
                                   ELSE [one EXCEPT !.pc = "label", !.row = @ + 1]]
      /\ UNCHANGED <<shares, writes, handed, kept>>

Finish(a) ==
  /\ ask[a].pc = "reading"
  /\ ask' = [ask EXCEPT ![a] = Unasked]
  /\ UNCHANGED <<shares, writes, lists, handed, kept>>

LabelInit ==
  /\ shares \in Sharing /\ writes = 0 /\ lists = <<>> /\ handed = <<>>
  /\ kept = [list |-> 0, stamp |-> 0]
  /\ ask = [a \in Askers |-> Unasked]

LabelNext ==
  \/ WriteStore
  \/ \E a \in Askers :
       \/ Stamp(a) \/ ListKept(a) \/ ReadList(a) \/ KeepList(a)
       \/ LoadRow(a) \/ StoreRow(a) \/ Finish(a)

LabelSpec == LabelInit /\ [][LabelNext]_labelVars

-----------------------------------------------------------------------------

\* A row an asker holds bears at least one label and at most one for each time
\* its list was handed out, whoever else reads and writes that row meanwhile: so
\* one in a source that makes its rows, where "a second List" has not
\* "double-prefixed the cwd" (source_paths_test.go:110).
LabelsPerHandOut ==
  \A a \in Askers : ask[a].pc = "reading" =>
    \A row \in 1..Rows :
      /\ lists[ask[a].list][row] \in 1..handed[ask[a].list]
      /\ ~shares => lists[ask[a].list][row] = 1

\* Every row an asker holds bears the label once: "writing to recs[i] cannot
\* reach what the wrapped source's cache hands out next time" (source.go:285-286).
LabelledOnce ==
  \A a \in Askers : ask[a].pc = "reading" => lists[ask[a].list] = [row \in 1..Rows |-> 1]

\* Nothing is written that another reads: the kept value "is JSON-encoded or
\* read, never written" (finalcache.go:14-16).
NobodyWritesWhatIsRead ==
  \A a, b \in Askers :
    ask[a].pc = "write" /\ ask[b].pc = "reading" => ask[a].list # ask[b].list
=============================================================================
