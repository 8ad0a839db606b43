------------------------------- MODULE Nodes -------------------------------
(***************************************************************************)
(* The node registry: nodes.conf, its backup copy nodes.conf.bak, and the  *)
(* commands `proxyctl node add | edit | remove | enable | disable |        *)
(* migrate` (src/cmd/proxyctl/node.go on top of src/internal/nodes).  A    *)
(* command loads the file, computes the new list, copies the file as it is *)
(* then to the backup copy and renames the new list into place.  Nothing   *)
(* is locked, so commands may overlap each other, and restores and editors *)
(* that replace the file.  A command that is killed takes no further step. *)
(* The list is a set of nodes: no command depends on its order.            *)
(***************************************************************************)
EXTENDS Integers, FiniteSets

CONSTANTS
    Cmds,       \* the commands
    NodeNames,  \* names of nodes
    Requests,   \* what the commands may be asked to do
    Injected,   \* the section that a value with line breaks goes on with
    Others,     \* what a restore, an editor or the installer may put in place
    MaxOthers   \* bound on how often they do

Types == {"hysteria2", "vless-reality"}

(* A field value is fine ("old", "new"), or refused by Validate ("refused": *)
(* a placeholder, an empty or malformed field), or passes Validate although *)
(* the parser, which trims every line and value, does not read it back:     *)
(* "unreadable" when nothing is left of it, or it holds a line break and    *)
(* then a line that cannot be parsed; "altered" when it loses blanks or     *)
(* lines that mean nothing, and is read back as "new"; "injecting" when the *)
(* rest of it is a section of its own.                                      *)
Texts == {"old", "new", "refused", "unreadable", "altered", "injecting"}
Plain == {"old", "new"}
Reckless == {"unreadable", "injecting"}

(* creds: the protocols whose credential fields are set.                   *)
Node == [name : NodeNames, type : Types, creds : SUBSET Types,
         text : Texts, enabled : BOOLEAN]

Validate(n) == n.creds = {n.type} /\ n.text # "refused"

Request ==
    [op : {"add"}, node : Node]
    \cup [op : {"edit"}, name : NodeNames, to : NodeNames,
          text : Texts \cup {"same"}, creds : SUBSET Types,
          enabled : {"same", "on", "off"}]
    \cup [op : {"remove", "enable", "disable"}, name : NodeNames]
    \cup [op : {"migrate"}]

(* A file: whether and how it can be parsed, and the nodes found in it.    *)
Missing == [form |-> "missing", nodes |-> {}]
Empty   == [form |-> "empty", nodes |-> {}]
Broken  == [form |-> "broken", nodes |-> {}]
Torn    == [form |-> "torn", nodes |-> {}]
File == [form : {"missing", "empty", "legacy", "sectioned", "broken", "torn"},
         nodes : SUBSET Node]

VARIABLES
    conf,      \* nodes.conf
    bak,       \* nodes.conf.bak
    pc,        \* where each command is; "failed" is exit 1, "usage" exit 2
    req,       \* what it was asked to do
    list,      \* the list it has computed
    copy,      \* the file it has read for the backup copy
    others,    \* how often something else has replaced the file
    stale,     \* history: commands since whose load the file has changed
    disturbed, \* history: ... or the backup copy was written by others
    spoiled    \* history: a reckless value, or an unreadable file from outside

vars == <<conf, bak, pc, req, list, copy, others, stale, disturbed, spoiled>>
PC == {"idle", "load", "backup", "open", "fill", "replace", "done", "failed", "usage"}
Running(c) == pc[c] \in {"backup", "open", "fill", "replace"}

Init ==
    /\ conf \in Others \cup {Missing}
    /\ bak = Missing
    /\ pc = [c \in Cmds |-> "idle"]
    /\ req = [c \in Cmds |-> [op |-> "migrate"]]
    /\ list = [c \in Cmds |-> {}]
    /\ copy = [c \in Cmds |-> Missing]
    /\ others = 0
    /\ stale = {} /\ disturbed = {}
    /\ spoiled = (conf = Broken)

Goto(c, to) == pc' = [pc EXCEPT ![c] = to]

----------------------------------------------------------------------------
(* The list operations of internal/nodes/store.go: the set of results, *)
(* which is empty when the operation is refused.                       *)

Find(ns, x) == {n \in ns : n.name = x}

(* Mutant: the name may be taken. *)
AddAnyName(ns, n) == {m \in {ns \cup {n}} : Validate(n)}

Add(ns, n) ==
    {m \in {ns \cup {n}} : Validate(n) /\ Find(ns, n.name) = {}}

(* Mutant: a rename does not look whether the new name is taken. *)
ReplaceAnyName(ns, old, n) ==
    {(ns \ {o}) \cup {n} : o \in {o \in Find(ns, old) : Validate(n)}}

Replace(ns, old, n) ==
    {(ns \ {o}) \cup {n} :
        o \in {o \in Find(ns, old) :
                 Validate(n) /\ (n.name # old => Find(ns, n.name) = {})}}

Remove(ns, x) == {ns \ {o} : o \in Find(ns, x)}

(* Mutant: every node is switched, not only the one that was named. *)
SetAllEnabled(ns, x, e) ==
    {{[o EXCEPT !.enabled = e] : o \in ns} : y \in Find(ns, x)}

SetEnabled(ns, x, e) ==
    {(ns \ {o}) \cup {[o EXCEPT !.enabled = e]} : o \in Find(ns, x)}

(* Lists as the parser returns them. *)
NamesOnce(ns) == \A m, n \in ns : m.name = n.name => m = n
Sound(ns) == (\A n \in ns : Validate(n) /\ n.text \in Plain) /\ NamesOnce(ns)

(* The legacy format only knows one protocol, and no disabled nodes. *)
SoundLegacy(ns) ==
    Sound(ns) /\ \A n \in ns : n.type = "hysteria2" /\ n.enabled

(* The sections that a node is read back as.  Its ENABLED key is written    *)
(* last, so it ends up in the injected section, if there is one.            *)
Sections(n) ==
    IF n.text = "injecting"
    THEN {[n EXCEPT !.text = "new"], [Injected EXCEPT !.enabled = n.enabled]}
    ELSE {[n EXCEPT !.text = IF @ = "altered" THEN "new" ELSE @]}

ReadBack(ns) == UNION {Sections(n) : n \in ns}

(* What parseSectioned accepts of what Serialize has written: every node    *)
(* still validates when it is read, and no two sections have the same name. *)
Parses(ns) ==
    /\ \A n \in ns : Validate(n) /\ n.text # "unreadable"
    /\ \A m, n \in ns : \A a \in Sections(m), b \in Sections(n) :
          a.name = b.name => m = n /\ a = b

(* A file, as a later Load sees it. *)
Serialize(ns) ==
    IF ns = {} THEN Empty
    ELSE IF Parses(ns) THEN [form |-> "sectioned", nodes |-> ReadBack(ns)]
    ELSE Broken

ASSUME InputAssumption ==
    /\ Requests \subseteq Request
    /\ Injected \in Node /\ Validate(Injected) /\ Injected.text = "old"
    /\ Others \subseteq File
    /\ \A f \in Others :
          /\ f.form \in {"missing", "empty", "broken"} => f.nodes = {}
          /\ f.form = "legacy" => SoundLegacy(f.nodes)
          /\ f.form = "sectioned" => Sound(f.nodes)
          /\ f.form # "torn"
    /\ MaxOthers \in Nat

----------------------------------------------------------------------------
(* The commands. *)

(* add: flags for the other protocol are refused before the file is read,  *)
(* and so are missing ones, unless they are asked for at the prompt.       *)
AddFlagsAllowed(n) == n.creds \subseteq {n.type}
AddFlagsMissing(n) == n.creds = {}

(* edit: flags that are not allowed for the type of the node. *)
EditFlagsAllowed(q, o) == q.creds \subseteq {o.type}

(* Mutant: flags that were not given overwrite the field as well. *)
EditedAll(q, o) == [o EXCEPT !.name = q.to, !.text = q.text, !.creds = @ \cup q.creds]

(* A flag that was not given leaves its field alone. *)
Edited(q, o) ==
    [o EXCEPT !.name = q.to,
              !.text = IF q.text = "same" THEN @ ELSE q.text,
              !.creds = @ \cup q.creds,
              !.enabled = IF q.enabled = "same" THEN @ ELSE q.enabled = "on"]

Start(c, q) ==
    /\ pc[c] = "idle"
    /\ req' = [req EXCEPT ![c] = q]
    /\ \/ /\ q.op = "add" => AddFlagsAllowed(q.node)
          /\ Goto(c, "load")
       \/ /\ q.op = "add"
          /\ ~AddFlagsAllowed(q.node) \/ AddFlagsMissing(q.node)
          /\ Goto(c, "usage")
    /\ spoiled' = (spoiled \/ (q.op = "add" /\ q.node.text \in Reckless)
                           \/ (q.op = "edit" /\ q.text \in Reckless))
    /\ UNCHANGED <<conf, bak, list, copy, others, stale, disturbed>>

(* Mutant: the legacy format is not refused. *)
MutableAnyFormat == conf.form \in {"missing", "empty", "legacy", "sectioned"}

(* What the commands may work on: loadForMutation refuses the legacy format, *)
(* and anything that cannot be parsed.  A file that is not there is an empty *)
(* list.                                                                     *)
Mutable == conf.form \in {"missing", "empty", "sectioned"}

(* The list a command goes on with; none means that it was refused.        *)
Computes(c, lists) ==
    /\ \E ns \in lists : list' = [list EXCEPT ![c] = ns]
    /\ Goto(c, "backup")
    /\ stale' = stale \ {c}
    /\ disturbed' = disturbed \ {c}
    /\ UNCHANGED <<conf, bak, req, copy, others, spoiled>>

Asked(c, ops) == pc[c] = "load" /\ req[c].op \in ops

NodeAdd(c) ==
    /\ Asked(c, {"add"})
    /\ Mutable
    /\ Computes(c, Add(conf.nodes, req[c].node))

NodeEdit(c) ==
    /\ Asked(c, {"edit"})
    /\ Mutable
    /\ \E o \in Find(conf.nodes, req[c].name) :
          /\ EditFlagsAllowed(req[c], o)
          /\ Computes(c, Replace(conf.nodes, req[c].name, Edited(req[c], o)))

(* edit was given credentials of the other protocol. *)
NodeEditRefused(c) ==
    /\ Asked(c, {"edit"})
    /\ Mutable
    /\ \E o \in Find(conf.nodes, req[c].name) : ~EditFlagsAllowed(req[c], o)
    /\ Goto(c, "usage")
    /\ UNCHANGED <<conf, bak, req, list, copy, others, stale, disturbed, spoiled>>

NodeRemove(c) ==
    /\ Asked(c, {"remove"})
    /\ Mutable
    /\ Computes(c, Remove(conf.nodes, req[c].name))

NodeSetEnabled(c) ==
    /\ Asked(c, {"enable", "disable"})
    /\ Mutable
    /\ Computes(c, SetEnabled(conf.nodes, req[c].name, req[c].op = "enable"))

(* migrate takes the legacy format only ... *)
NodeMigrate(c) ==
    /\ Asked(c, {"migrate"})
    /\ conf.form = "legacy"
    /\ Computes(c, {conf.nodes})

(* ... and has nothing to do when it finds the other one. *)
NodeMigrated(c) ==
    /\ Asked(c, {"migrate"})
    /\ conf.form = "sectioned"
    /\ Goto(c, "done")
    /\ UNCHANGED <<conf, bak, req, list, copy, others, stale, disturbed, spoiled>>

(* A file that cannot be read or parsed, or is of the wrong format; a node *)
(* that is missing, exists already or does not validate.                   *)
LoadFails(c) ==
    /\ pc[c] = "load"
    /\ Goto(c, "failed")
    /\ UNCHANGED <<conf, bak, req, list, copy, others, stale, disturbed, spoiled>>

----------------------------------------------------------------------------
(* WriteFile. *)

Valid(c) == \A n \in list[c] : Validate(n)

(* Without a file there is nothing to copy. *)
NoCopy(c) ==
    /\ pc[c] = "backup"
    /\ Valid(c)
    /\ conf = Missing
    /\ Goto(c, "replace")
    /\ UNCHANGED <<conf, bak, req, list, copy, others, stale, disturbed, spoiled>>

(* The file is read again ... *)
ReadCopy(c) ==
    /\ pc[c] = "backup"
    /\ Valid(c)
    /\ conf # Missing
    /\ copy' = [copy EXCEPT ![c] = conf]
    /\ Goto(c, "open")
    /\ UNCHANGED <<conf, bak, req, list, others, stale, disturbed, spoiled>>

(* The backup copy changes under the other commands. *)
Disturbs(c) == disturbed' = disturbed \cup {d \in Cmds \ {c} : Running(d)}

(* ... the backup copy is truncated ... *)
OpenCopy(c) ==
    /\ pc[c] = "open"
    /\ bak' = Empty
    /\ Disturbs(c)
    /\ Goto(c, "fill")
    /\ UNCHANGED <<conf, req, list, copy, others, stale, spoiled>>

(* Mutant: the new list is copied instead of the one it replaces. *)
FillCopyOfNew(c) ==
    /\ pc[c] = "fill"
    /\ bak' = Serialize(list[c])
    /\ Disturbs(c)
    /\ Goto(c, "replace")
    /\ UNCHANGED <<conf, req, list, copy, others, stale, spoiled>>

(* ... and written in place: over what another command may have written    *)
(* since, of which a longer rest stays behind.                             *)
FillCopy(c) ==
    /\ pc[c] = "fill"
    /\ bak' \in {copy[c]} \cup (IF bak \in {Empty, copy[c]} THEN {} ELSE {Torn})
    /\ Disturbs(c)
    /\ Goto(c, "replace")
    /\ UNCHANGED <<conf, req, list, copy, others, stale, spoiled>>

(* A complete temporary file is renamed over the registry. *)
Rename(c) ==
    /\ pc[c] = "replace"
    /\ conf' = Serialize(list[c])
    /\ stale' = stale \cup {d \in Cmds \ {c} : Running(d)}
    /\ Disturbs(c)
    /\ Goto(c, "done")
    /\ UNCHANGED <<bak, req, list, copy, others, spoiled>>

(* Reading, writing or renaming fails, or the copy is cut off. *)
WriteFails(c) ==
    /\ Running(c)
    /\ \/ UNCHANGED <<bak, disturbed>>
       \/ pc[c] = "fill" /\ bak' = Torn /\ Disturbs(c)
    /\ Goto(c, "failed")
    /\ UNCHANGED <<conf, req, list, copy, others, stale, spoiled>>

----------------------------------------------------------------------------
(* A restore publishes nodes.conf, or somebody edits it. *)
Replaced(f) ==
    /\ others < MaxOthers
    /\ others' = others + 1
    /\ conf' = f
    /\ spoiled' = (spoiled \/ f = Broken)
    /\ stale' = stale \cup {c \in Cmds : Running(c)}
    /\ disturbed' = disturbed \cup {c \in Cmds : Running(c)}
    /\ UNCHANGED <<bak, pc, req, list, copy>>

Ended == \A c \in Cmds : pc[c] \in {"done", "failed", "usage"}

Command(c) ==
    \/ \E q \in Requests : Start(c, q)
    \/ NodeAdd(c) \/ NodeEdit(c) \/ NodeEditRefused(c) \/ NodeRemove(c)
    \/ NodeSetEnabled(c) \/ NodeMigrate(c) \/ NodeMigrated(c) \/ LoadFails(c)
    \/ NoCopy(c) \/ ReadCopy(c) \/ OpenCopy(c) \/ FillCopy(c) \/ Rename(c) \/ WriteFails(c)

Next ==
    \/ \E c \in Cmds : Command(c)
    \/ \E f \in Others : Replaced(f)
    \/ Ended /\ UNCHANGED vars

Spec == Init /\ [][Next]_vars
=============================================================================
