----------------------------- MODULE NodesProps -----------------------------
(* What Nodes.tla must satisfy. *)
EXTENDS Nodes

(* Every variable has its type.  (node.go:87-443, nodes/store.go:36-126)   *)
TypeOK ==
    /\ conf \in File /\ bak \in File
    /\ pc \in [Cmds -> PC]
    /\ req \in [Cmds -> Request]
    /\ list \in [Cmds -> SUBSET Node]
    /\ copy \in [Cmds -> File]
    /\ others \in 0 .. MaxOthers
    /\ stale \subseteq Cmds /\ disturbed \subseteq Cmds
    /\ spoiled \in BOOLEAN

(* However commands overlap, and whatever they overwrite of each other:    *)
(* they never leave a registry that the next command cannot parse (names   *)
(* twice, a node that does not validate), unless it was unreadable from    *)
(* outside, or a value was given that is read back as nothing or as more   *)
(* than one value: blanks only, or a line break, which Validate lets pass. *)
(* ("every construction, parse, and write path in this package and its     *)
(* callers must go through it", nodes.go:83-85)                            *)
StaysReadable == conf.form \in {"broken", "torn"} => spoiled

(* The nodes a request names: it may change them, and no others.           *)
Named(q) ==
    IF q.op = "add" THEN {q.node.name}
    ELSE IF q.op = "edit" THEN {q.name, q.to}
    ELSE IF q.op = "migrate" THEN {}
    ELSE {q.name}

Writes(c) == pc[c] = "replace" /\ pc'[c] = "done"

(* The commands write the whole list.  A command whose list is not stale   *)
(* keeps every node it was not asked to change, as it was, if what it      *)
(* writes can be read at all, and no command but migrate rewrites a        *)
(* registry in the legacy format; with a stale list it may undo what       *)
(* others did (loadForMutation and WriteFile, node.go:87-98 and            *)
(* store.go:38-69, take no lock).                                          *)
OtherNodesKept ==
    [][\A c \in Cmds :
          Writes(c) /\ c \notin stale =>
              /\ conf.form = "legacy" => req[c].op = "migrate"
              /\ conf'.form # "broken" =>
                    \A n \in conf.nodes :
                        n.name \notin Named(req[c]) => n \in conf'.nodes]_vars

(* "backing up any existing file to path+.bak first" (store.go:36-37), and *)
(* "migrated %d node(s); backup at %s.bak" (node.go:441): when a command   *)
(* replaces the registry, the backup copy holds exactly the registry it    *)
(* replaces - unless another command or an editor wrote either file since  *)
(* it loaded the list.                                                     *)
BackupIsPrevious ==
    [][\A c \in Cmds :
          Writes(c) /\ c \notin disturbed /\ conf # Missing => bak = conf]_vars

(* The commands implement RegistryEdits: whatever they overlap, the whole   *)
(* outcome of one edit replaces the registry at once or not at all, and a   *)
(* stale list is still one edit of a registry that was in place.            *)
(* (node.go:87-443, store.go:36-126)                                        *)
Format(f) == IF f.form \in {"missing", "empty", "sectioned"} THEN "current" ELSE f.form
Found(f) == [form |-> Format(f), nodes |-> f.nodes]
Intended(c) ==
    IF Running(c) THEN Found(Serialize(list[c])) ELSE [form |-> "none", nodes |-> {}]

Edits == INSTANCE RegistryEdits
           WITH Editors <- Cmds,
                Outside <- {Found(f) : f \in Others},
                registry <- Found(conf),
                plan <- [c \in Cmds |-> Intended(c)],
                careless <- spoiled

KeepsEdits == Edits!Spec

(***************************************************************************)
(* The inductive invariant.                                                *)
(***************************************************************************)

(* Only what can be parsed has nodes, and what is parsed validates.        *)
RegistrySound ==
    /\ conf.form # "torn"
    /\ conf.form \in {"missing", "empty", "broken"} => conf.nodes = {}
    /\ conf.form \in {"legacy", "sectioned"} => Sound(conf.nodes)

RequestsClean ==
    ~spoiled =>
        \A c \in Cmds : pc[c] # "idle" =>
            /\ req[c].op = "add" => req[c].node.text \notin Reckless
            /\ req[c].op = "edit" => req[c].text \notin Reckless

(* Stale or not, what a command is going to write can be parsed.           *)
ListsParse ==
    /\ \A c \in Cmds : Running(c) => Valid(c)
    /\ ~spoiled => \A c \in Cmds : Running(c) => Parses(list[c])

(* A list that is not stale differs from the registry as requested.        *)
ListsFresh ==
    \A c \in Cmds : Running(c) /\ c \notin stale =>
        /\ conf.form = "legacy" => req[c].op = "migrate"
        /\ \A n \in conf.nodes : n.name \notin Named(req[c]) => n \in list[c]

(* The copy, step by step.                                                 *)
CopiesFresh ==
    \A c \in Cmds \ disturbed :
        /\ pc[c] \in {"open", "fill"} => copy[c] = conf
        /\ pc[c] = "fill" => bak = Empty
        /\ pc[c] = "replace" /\ conf # Missing => bak = conf

IInv ==
    /\ TypeOK /\ RegistrySound /\ RequestsClean /\ ListsParse /\ StaysReadable
    /\ ListsFresh /\ CopiesFresh
=============================================================================
