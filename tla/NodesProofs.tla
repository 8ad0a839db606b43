----------------------------- MODULE NodesProofs -----------------------------
(***************************************************************************)
(* What is true of the node registry for any number of commands, any names *)
(* and requests, and whatever else replaces the file.                      *)
(***************************************************************************)
EXTENDS NodesProps, TLAPS

(* Abbreviations of the specification. *)
USE DEF Goto, Disturbs

(***************************************************************************)
(* Requests, files, and what the list operations return.                   *)
(***************************************************************************)
LEMMA RequestFacts ==
    ASSUME NEW q \in Request
    PROVE  /\ q.op \in {"add", "edit", "remove", "enable", "disable", "migrate"}
           /\ q.op = "add" => q.node \in Node
           /\ q.op = "edit" => /\ q.name \in NodeNames /\ q.to \in NodeNames
                               /\ q.text \in Texts \cup {"same"}
                               /\ q.creds \in SUBSET Types
                               /\ q.enabled \in {"same", "on", "off"}
           /\ q.op \in {"remove", "enable", "disable"} => q.name \in NodeNames
BY DEF Request

LEMMA FileFacts ==
    /\ Missing \in File /\ Empty \in File /\ Broken \in File /\ Torn \in File
    /\ Missing.form = "missing" /\ Empty.form = "empty" /\ Broken.form = "broken"
    /\ Missing.nodes = {} /\ Empty.nodes = {} /\ Broken.nodes = {}
    /\ \A f \in File : f.nodes \subseteq Node
    /\ Empty # Missing /\ Broken # Missing
BY DEF Missing, Empty, Broken, Torn, File

(* What a node is read back as.                                            *)
LEMMA SectionFacts ==
    ASSUME NEW n \in Node, Validate(n), n.text # "unreadable"
    PROVE  /\ \A a \in Sections(n) : a \in Node /\ Validate(a) /\ a.text \in Plain
           /\ n.text \in Plain => Sections(n) = {n}
           /\ n.text # "injecting" => \E a : Sections(n) = {a} /\ a.name = n.name
           /\ n.text = "injecting" => \E a, e : Sections(n) = {a, e} /\ a # e
<1>1. CASE n.text = "injecting"
  <2> DEFINE a == [n EXCEPT !.text = "new"]
             e == [Injected EXCEPT !.enabled = n.enabled]
  <2>1. Sections(n) = {a, e}
    BY <1>1 DEF Sections
  <2>2. /\ a \in Node /\ a.name = n.name /\ a.type = n.type /\ a.creds = n.creds
        /\ a.text = "new"
    BY DEF Node, Texts
  <2>3. /\ e \in Node /\ e.type = Injected.type /\ e.creds = Injected.creds
        /\ e.text = "old"
    BY InputAssumption DEF Node
  <2>4. Validate(a) /\ Validate(e)
    BY <2>2, <2>3, InputAssumption DEF Validate
  <2> HIDE DEF a, e
  <2>5. a # e /\ a.text \in Plain /\ e.text \in Plain
    BY <2>2, <2>3 DEF Plain
  <2>6. n.text \notin Plain
    BY <1>1 DEF Plain
  <2> QED
    BY <1>1, <2>1, <2>2, <2>3, <2>4, <2>5, <2>6
<1>2. CASE n.text # "injecting"
  <2> DEFINE t == IF n.text = "altered" THEN "new" ELSE n.text
             a == [n EXCEPT !.text = t]
  <2>1. Sections(n) = {a}
    BY <1>2 DEF Sections
  <2>2. t \in Plain /\ t \in Texts /\ (n.text \in Plain => t = n.text)
    BY <1>2 DEF Node, Texts, Plain, Validate
  <2> HIDE DEF t
  <2>3. /\ a \in Node /\ a.name = n.name /\ a.type = n.type /\ a.creds = n.creds
        /\ a.text = t
        /\ t = n.text => a = n
    BY <2>2 DEF Node
  <2>4. Validate(a)
    BY <2>2, <2>3 DEF Validate, Plain
  <2> HIDE DEF a
  <2> QED
    BY <1>2, <2>1, <2>2, <2>3, <2>4
<1> QED
  BY <1>1, <1>2

(* What is read back can be written and read again, and is the list itself *)
(* if that came from the parser.                                           *)
LEMMA ReadBackFacts ==
    ASSUME NEW ns \in SUBSET Node, Parses(ns)
    PROVE  /\ ReadBack(ns) \in SUBSET Node /\ Sound(ReadBack(ns))
           /\ \A n \in ns : n.text \in Plain => n \in ReadBack(ns)
<1>1. \A n \in ns : n \in Node /\ Validate(n) /\ n.text # "unreadable"
  BY DEF Parses
<1>2. ASSUME NEW a \in ReadBack(ns) PROVE a \in Node /\ Validate(a) /\ a.text \in Plain
  BY <1>1, <1>2, SectionFacts DEF ReadBack
<1>3. ASSUME NEW a \in ReadBack(ns), NEW b \in ReadBack(ns), a.name = b.name PROVE a = b
  <2>1. PICK m \in ns : a \in Sections(m)
    BY DEF ReadBack
  <2>2. PICK n \in ns : b \in Sections(n)
    BY DEF ReadBack
  <2> QED
    BY <1>3, <2>1, <2>2 DEF Parses
<1>4. \A n \in ns : n.text \in Plain => n \in ReadBack(ns)
  BY <1>1, SectionFacts DEF ReadBack
<1> QED
  BY <1>2, <1>3, <1>4 DEF Sound, NamesOnce

LEMMA SoundFacts ==
    ASSUME NEW ns \in SUBSET Node, NamesOnce(ns),
           \A n \in ns : Validate(n) /\ n.text # "unreadable" /\ n.text # "injecting"
    PROVE  /\ Parses(ns)
           /\ Sound(ns) => ReadBack(ns) = ns
<1>1. \A n \in ns : /\ \E a : Sections(n) = {a} /\ a.name = n.name
                    /\ n.text \in Plain => Sections(n) = {n}
  BY SectionFacts
<1>2. ASSUME NEW m \in ns, NEW n \in ns, NEW a \in Sections(m), NEW b \in Sections(n),
             a.name = b.name
      PROVE  m = n /\ a = b
  <2>1. PICK x : Sections(m) = {x} /\ x.name = m.name
    BY <1>1
  <2>2. PICK y : Sections(n) = {y} /\ y.name = n.name
    BY <1>1
  <2>3. a = x /\ b = y
    BY <1>2, <2>1, <2>2
  <2>4. m = n
    BY <1>2, <2>1, <2>2, <2>3 DEF NamesOnce
  <2> QED
    BY <2>1, <2>2, <2>3, <2>4
<1>3. Parses(ns)
  BY <1>2 DEF Parses
<1>4. ASSUME Sound(ns) PROVE ReadBack(ns) = ns
  <2>1. \A n \in ns : Sections(n) = {n}
    BY <1>1, <1>4 DEF Sound
  <2>2. ASSUME NEW x PROVE x \in ReadBack(ns) <=> x \in ns
    BY <2>1 DEF ReadBack
  <2> QED
    BY <2>2
<1> QED
  BY <1>3, <1>4

(* A list as the parser returned it can be written and read back.          *)
LEMMA SoundParses ==
    ASSUME NEW ns \in SUBSET Node, Sound(ns)
    PROVE  Parses(ns) /\ ReadBack(ns) = ns
BY SoundFacts DEF Sound, Plain

LEMMA SerializeFacts ==
    ASSUME NEW ns \in SUBSET Node
    PROVE  /\ Serialize(ns) \in File
           /\ Serialize(ns) # Missing
           /\ Serialize(ns).form \in {"empty", "sectioned", "broken"}
           /\ Serialize(ns).form \in {"empty", "broken"} => Serialize(ns).nodes = {}
           /\ Serialize(ns).form = "sectioned" => Sound(Serialize(ns).nodes)
           /\ Serialize(ns).form # "broken" <=> Parses(ns)
           /\ Parses(ns) => Serialize(ns).nodes = ReadBack(ns)
<1>1. CASE ns = {}
  BY <1>1, FileFacts DEF Serialize, Parses, ReadBack
<1>2. CASE ns # {} /\ Parses(ns)
  <2>1. Serialize(ns) = [form |-> "sectioned", nodes |-> ReadBack(ns)]
    BY <1>2 DEF Serialize
  <2> QED
    BY <1>2, <2>1, ReadBackFacts DEF File, Missing
<1>3. CASE ns # {} /\ ~Parses(ns)
  BY <1>3, FileFacts DEF Serialize
<1> QED
  BY <1>1, <1>2, <1>3

LEMMA EditedType ==
    ASSUME NEW q \in Request, q.op = "edit", NEW o \in Node
    PROVE  /\ Edited(q, o) \in Node /\ Edited(q, o).name = q.to
           /\ q.text \notin Reckless /\ o.text \in Plain => Edited(q, o).text \notin Reckless
<1> DEFINE e == IF q.enabled = "same" THEN o.enabled ELSE q.enabled = "on"
<1>1. e \in BOOLEAN
  BY DEF Node
<1>2. Edited(q, o) = [o EXCEPT !.name = q.to,
                               !.text = IF q.text = "same" THEN @ ELSE q.text,
                               !.creds = @ \cup q.creds,
                               !.enabled = e]
  BY DEF Edited
<1> DEFINE t == IF q.text = "same" THEN o.text ELSE q.text
           k == o.creds \cup q.creds
<1>3. /\ t \in Texts /\ k \in SUBSET Types /\ q.to \in NodeNames
      /\ q.text \notin Reckless /\ o.text \in Plain => t \notin Reckless
  BY RequestFacts DEF Node, Plain, Reckless
<1>4. Edited(q, o) = [o EXCEPT !.name = q.to, !.text = t, !.creds = k, !.enabled = e]
  BY <1>2
<1> HIDE DEF e, t, k
<1>5. /\ Edited(q, o) = [name |-> q.to, type |-> o.type, creds |-> k, text |-> t,
                         enabled |-> e]
      /\ o.type \in Types
  BY <1>4 DEF Node
<1> QED
  BY <1>1, <1>3, <1>5 DEF Node

(* A list operation keeps what can be written, and what can be read unless *)
(* a value is reckless; other nodes stay in the list.                      *)
LEMMA AddFacts ==
    ASSUME NEW ns \in SUBSET Node, NEW n \in Node, NEW ms \in Add(ns, n),
           Sound(ns)
    PROVE  /\ ms \in SUBSET Node
           /\ \A m \in ms : Validate(m)
           /\ n.text \notin Reckless => /\ \A m \in ms : m.text \notin Reckless
                                       /\ Parses(ms)
           /\ ns \subseteq ms
<1>1. ms \in SUBSET Node /\ (\A m \in ms : Validate(m)) /\ NamesOnce(ms) /\ ns \subseteq ms
  BY DEF Add, Find, Sound, NamesOnce
<1>2. n.text \notin Reckless => \A m \in ms : m.text \notin Reckless
  BY DEF Add, Sound, Plain, Reckless
<1> QED
  BY <1>1, <1>2, SoundFacts DEF Reckless

LEMMA ReplaceFacts ==
    ASSUME NEW ns \in SUBSET Node, NEW old, NEW n \in Node,
           NEW ms \in Replace(ns, old, n), Sound(ns)
    PROVE  /\ ms \in SUBSET Node
           /\ \A m \in ms : Validate(m)
           /\ n.text \notin Reckless => /\ \A m \in ms : m.text \notin Reckless
                                       /\ Parses(ms)
           /\ \A m \in ns : m.name # old => m \in ms
<1>1. PICK o \in ns : /\ o.name = old /\ Validate(n)
                      /\ n.name # old => Find(ns, n.name) = {}
                      /\ ms = (ns \ {o}) \cup {n}
  BY DEF Replace, Find
<1>2. \A m \in ns \ {o} : m.name # n.name
  BY <1>1 DEF Find, Sound, NamesOnce
<1>3. /\ ms \in SUBSET Node /\ (\A m \in ms : Validate(m)) /\ NamesOnce(ms)
      /\ \A m \in ns : m.name # old => m \in ms
  BY <1>1, <1>2 DEF Sound, NamesOnce
<1>4. n.text \notin Reckless => \A m \in ms : m.text \notin Reckless
  BY <1>1 DEF Sound, Plain, Reckless
<1> QED
  BY <1>3, <1>4, SoundFacts DEF Reckless

LEMMA RemoveFacts ==
    ASSUME NEW ns \in SUBSET Node, NEW x \in NodeNames, NEW ms \in Remove(ns, x), Sound(ns)
    PROVE  /\ ms \in SUBSET Node /\ (\A m \in ms : Validate(m))
           /\ Sound(ms) /\ Parses(ms)
           /\ \A m \in ns : m.name # x => m \in ms
<1>1. /\ ms \in SUBSET Node /\ (\A m \in ms : Validate(m)) /\ Sound(ms)
      /\ \A m \in ns : m.name # x => m \in ms
  BY DEF Remove, Find, Sound, NamesOnce
<1> QED
  BY <1>1, SoundParses

LEMMA SetEnabledFacts ==
    ASSUME NEW ns \in SUBSET Node, NEW x \in NodeNames, NEW e \in BOOLEAN,
           NEW ms \in SetEnabled(ns, x, e), Sound(ns)
    PROVE  /\ ms \in SUBSET Node /\ (\A m \in ms : Validate(m))
           /\ Sound(ms) /\ Parses(ms)
           /\ \A m \in ns : m.name # x => m \in ms
<1>1. PICK o \in ns : o.name = x /\ ms = (ns \ {o}) \cup {[o EXCEPT !.enabled = e]}
  BY DEF SetEnabled, Find
<1> DEFINE n == [o EXCEPT !.enabled = e]
<1>2. /\ n \in Node /\ n.name = o.name /\ n.type = o.type /\ n.creds = o.creds
      /\ n.text = o.text
  BY DEF Node
<1>3. Validate(n) /\ n.text \in Plain
  BY <1>2 DEF Sound, Validate
<1>4. \A m \in ns \ {o} : m.name # n.name
  BY <1>1, <1>2 DEF Sound, NamesOnce
<1>5. ms = (ns \ {o}) \cup {n} /\ n \in Node
  BY <1>1, <1>2
<1> HIDE DEF n
<1>6. Sound(ms)
  BY <1>3, <1>4, <1>5 DEF Sound, NamesOnce
<1> QED
  BY <1>1, <1>5, <1>6, SoundParses DEF Sound

(***************************************************************************)
(* The inductive invariant is kept by each action.                         *)
(***************************************************************************)

(* A command goes on with a list that is good for every invariant.         *)
LEMMA ComputesKeeps ==
    ASSUME IInv, NEW c \in Cmds, pc[c] = "load", NEW lists, Computes(c, lists),
           \A ns \in lists :
               /\ ns \in SUBSET Node /\ \A n \in ns : Validate(n)
               /\ ~spoiled => Parses(ns)
               /\ conf.form = "legacy" => req[c].op = "migrate"
               /\ \A n \in conf.nodes : n.name \notin Named(req[c]) => n \in ns
    PROVE  IInv'
<1>1. PICK ns \in lists : list' = [list EXCEPT ![c] = ns]
  BY DEF Computes
<1>2. TypeOK'
  BY <1>1 DEF Computes, IInv, TypeOK, PC
<1>3. RegistrySound' /\ StaysReadable'
  BY DEF Computes, IInv, RegistrySound, StaysReadable
<1>4. RequestsClean'
  BY DEF Computes, IInv, TypeOK, RequestsClean
<1>5. ListsParse' /\ ListsFresh'
  BY <1>1, <1>2 DEF Computes, IInv, TypeOK, ListsParse, ListsFresh, Running, Valid
<1>6. CopiesFresh'
  BY DEF Computes, IInv, TypeOK, CopiesFresh
<1> QED
  BY <1>2, <1>3, <1>4, <1>5, <1>6 DEF IInv

(* The registry of a command that may work on it, and its request.         *)
LEMMA MutableFacts ==
    ASSUME IInv, NEW c \in Cmds, Mutable, pc[c] = "load"
    PROVE  /\ conf.nodes \in SUBSET Node /\ Sound(conf.nodes)
           /\ conf.form # "legacy"
           /\ req[c] \in Request
           /\ ~spoiled /\ req[c].op = "add" => req[c].node.text \notin Reckless
           /\ ~spoiled /\ req[c].op = "edit" => req[c].text \notin Reckless
<1>1. conf \in File /\ req[c] \in Request
  BY DEF IInv, TypeOK
<1>2. Sound(conf.nodes)
  BY DEF Mutable, IInv, RegistrySound, Sound, NamesOnce
<1> QED
  BY <1>1, <1>2, FileFacts DEF Mutable, IInv, RequestsClean

LEMMA NodeAddKeeps == ASSUME IInv, NEW c \in Cmds, NodeAdd(c) PROVE IInv'
<1>1. pc[c] = "load" /\ req[c].op = "add" /\ Mutable
      /\ Computes(c, Add(conf.nodes, req[c].node))
  BY DEF NodeAdd, Asked
<1>2. \A n \in conf.nodes : n.name \notin Named(req[c]) => n.name # req[c].node.name
  BY <1>1 DEF Named
<1>3. req[c].node \in Node
  BY <1>1, MutableFacts, RequestFacts
<1> QED
  BY <1>1, <1>2, <1>3, MutableFacts, AddFacts, ComputesKeeps

LEMMA NodeEditKeeps == ASSUME IInv, NEW c \in Cmds, NodeEdit(c) PROVE IInv'
<1>1. pc[c] = "load" /\ req[c].op = "edit" /\ Mutable
  BY DEF NodeEdit, Asked
<1>2. PICK o \in Find(conf.nodes, req[c].name) :
          Computes(c, Replace(conf.nodes, req[c].name, Edited(req[c], o)))
  BY DEF NodeEdit
<1>3. o \in conf.nodes /\ o \in Node /\ req[c] \in Request /\ o.text \in Plain
  BY <1>1, MutableFacts DEF Find, Sound
<1>4. /\ Edited(req[c], o) \in Node
      /\ ~spoiled => Edited(req[c], o).text \notin Reckless
  BY <1>1, <1>3, MutableFacts, EditedType
<1>5. \A n \in conf.nodes : n.name \notin Named(req[c]) => n.name # req[c].name
  BY <1>1 DEF Named
<1> QED
  BY <1>1, <1>2, <1>4, <1>5, MutableFacts, ReplaceFacts, ComputesKeeps

LEMMA NodeRemoveKeeps == ASSUME IInv, NEW c \in Cmds, NodeRemove(c) PROVE IInv'
<1>1. pc[c] = "load" /\ req[c].op = "remove" /\ Mutable
      /\ Computes(c, Remove(conf.nodes, req[c].name))
  BY DEF NodeRemove, Asked
<1>2. \A n \in conf.nodes : n.name \notin Named(req[c]) => n.name # req[c].name
  BY <1>1 DEF Named
<1>3. /\ conf.nodes \in SUBSET Node /\ Sound(conf.nodes) /\ conf.form # "legacy"
      /\ req[c].name \in NodeNames
  BY <1>1, MutableFacts, RequestFacts
<1>4. ASSUME NEW ns \in Remove(conf.nodes, req[c].name)
      PROVE  /\ ns \in SUBSET Node /\ (\A n \in ns : Validate(n)) /\ Parses(ns)
             /\ \A n \in conf.nodes : n.name # req[c].name => n \in ns
  BY <1>3, <1>4, RemoveFacts
<1> QED
  BY <1>1, <1>2, <1>3, <1>4, ComputesKeeps

(* What enable and disable make of the registry.                           *)
LEMMA SwitchedFacts ==
    ASSUME IInv, NEW c \in Cmds, Mutable, pc[c] = "load", req[c].op \in {"enable", "disable"}
    PROVE  \A ns \in SetEnabled(conf.nodes, req[c].name, req[c].op = "enable") :
               /\ ns \in SUBSET Node /\ (\A n \in ns : Validate(n))
               /\ Sound(ns) /\ Parses(ns)
               /\ \A n \in conf.nodes : n.name # req[c].name => n \in ns
<1> DEFINE e == req[c].op = "enable"
<1>1. e \in BOOLEAN
  OBVIOUS
<1>2. conf.nodes \in SUBSET Node /\ Sound(conf.nodes) /\ req[c].name \in NodeNames
  BY MutableFacts, RequestFacts
<1> HIDE DEF e
<1>3. ASSUME NEW ns \in SetEnabled(conf.nodes, req[c].name, e)
      PROVE  /\ ns \in SUBSET Node /\ (\A n \in ns : Validate(n))
             /\ Sound(ns) /\ Parses(ns)
             /\ \A n \in conf.nodes : n.name # req[c].name => n \in ns
  BY <1>1, <1>2, <1>3, SetEnabledFacts
<1> QED
  BY <1>3 DEF e

LEMMA NodeSetEnabledKeeps == ASSUME IInv, NEW c \in Cmds, NodeSetEnabled(c) PROVE IInv'
<1>1. pc[c] = "load" /\ req[c].op \in {"enable", "disable"} /\ Mutable
      /\ Computes(c, SetEnabled(conf.nodes, req[c].name, req[c].op = "enable"))
  BY DEF NodeSetEnabled, Asked
<1>2. \A n \in conf.nodes : n.name \notin Named(req[c]) => n.name # req[c].name
  BY <1>1 DEF Named
<1>3. conf.form # "legacy"
  BY <1>1, MutableFacts
<1> QED
  BY <1>1, <1>2, <1>3, SwitchedFacts, ComputesKeeps

LEMMA NodeMigrateKeeps == ASSUME IInv, NEW c \in Cmds, NodeMigrate(c) PROVE IInv'
<1>1. pc[c] = "load" /\ req[c].op = "migrate" /\ conf.form = "legacy"
      /\ Computes(c, {conf.nodes})
  BY DEF NodeMigrate, Asked
<1>2. conf.nodes \in SUBSET Node /\ Sound(conf.nodes)
  BY <1>1, FileFacts DEF IInv, TypeOK, RegistrySound
<1> QED
  BY <1>1, <1>2, SoundParses, ComputesKeeps DEF Sound

(* Everything else that changes neither file, nor what a command is going  *)
(* to write.                                                               *)
LEMMA QuietKeeps ==
    ASSUME IInv, NEW c \in Cmds,
           \/ NodeEditRefused(c) \/ NodeMigrated(c) \/ LoadFails(c)
    PROVE  IInv'
BY DEF NodeEditRefused, NodeMigrated, LoadFails, Asked, IInv, TypeOK, PC, RegistrySound,
       RequestsClean, ListsParse, StaysReadable, ListsFresh, CopiesFresh, Running, Valid

LEMMA StartKeeps ==
    ASSUME IInv, NEW c \in Cmds, NEW q \in Requests, Start(c, q) PROVE IInv'
<1>1. q \in Request
  BY InputAssumption
<1>2. TypeOK'
  BY <1>1 DEF Start, IInv, TypeOK, PC
<1>3. RequestsClean'
  BY <1>1, RequestFacts DEF Start, IInv, TypeOK, RequestsClean
<1>4. RegistrySound' /\ StaysReadable' /\ ListsParse' /\ ListsFresh' /\ CopiesFresh'
  BY DEF Start, IInv, TypeOK, RegistrySound, ListsParse, StaysReadable,
       ListsFresh, CopiesFresh, Running, Valid
<1> QED
  BY <1>2, <1>3, <1>4 DEF IInv

LEMMA NoCopyKeeps == ASSUME IInv, NEW c \in Cmds, NoCopy(c) PROVE IInv'
BY DEF NoCopy, IInv, TypeOK, PC, RegistrySound, RequestsClean, ListsParse, StaysReadable,
       ListsFresh, CopiesFresh, Running, Valid

LEMMA ReadCopyKeeps == ASSUME IInv, NEW c \in Cmds, ReadCopy(c) PROVE IInv'
BY DEF ReadCopy, IInv, TypeOK, PC, RegistrySound, RequestsClean, ListsParse, StaysReadable,
       ListsFresh, CopiesFresh, Running, Valid

LEMMA OpenCopyKeeps == ASSUME IInv, NEW c \in Cmds, OpenCopy(c) PROVE IInv'
BY FileFacts DEF OpenCopy, IInv, TypeOK, PC, RegistrySound, RequestsClean, ListsParse,
       StaysReadable, ListsFresh, CopiesFresh, Running, Valid

LEMMA FillCopyKeeps == ASSUME IInv, NEW c \in Cmds, FillCopy(c) PROVE IInv'
BY FileFacts DEF FillCopy, IInv, TypeOK, PC, RegistrySound, RequestsClean, ListsParse,
       StaysReadable, ListsFresh, CopiesFresh, Running, Valid

LEMMA WriteFailsKeeps == ASSUME IInv, NEW c \in Cmds, WriteFails(c) PROVE IInv'
BY FileFacts DEF WriteFails, IInv, TypeOK, PC, RegistrySound, RequestsClean, ListsParse,
       StaysReadable, ListsFresh, CopiesFresh, Running, Valid

LEMMA RenameKeeps == ASSUME IInv, NEW c \in Cmds, Rename(c) PROVE IInv'
<1>1. list[c] \in SUBSET Node /\ conf' = Serialize(list[c])
  BY DEF Rename, IInv, TypeOK
<1>2. ~spoiled => Parses(list[c])
  BY DEF Rename, IInv, ListsParse, Running
<1>3. TypeOK'
  BY <1>1, SerializeFacts DEF Rename, IInv, TypeOK, PC
<1>4. RegistrySound' /\ StaysReadable'
  BY <1>1, <1>2, SerializeFacts DEF Rename, RegistrySound, StaysReadable
<1>5. RequestsClean' /\ ListsParse'
  BY DEF Rename, IInv, TypeOK, RequestsClean, ListsParse, Running, Valid
<1>6. ListsFresh' /\ CopiesFresh'
  BY DEF Rename, IInv, TypeOK, ListsFresh, CopiesFresh, Running
<1> QED
  BY <1>3, <1>4, <1>5, <1>6 DEF IInv

LEMMA ReplacedKeeps == ASSUME IInv, NEW f \in Others, Replaced(f) PROVE IInv'
<1>1. /\ f \in File /\ f.form # "torn"
      /\ f.form \in {"missing", "empty", "broken"} => f.nodes = {}
      /\ f.form \in {"legacy", "sectioned"} => Sound(f.nodes)
  BY InputAssumption DEF SoundLegacy
<1>2. f.form = "broken" => f = Broken
  BY <1>1 DEF File, Broken
<1>3. TypeOK'
  BY <1>1, InputAssumption DEF Replaced, IInv, TypeOK
<1>4. RegistrySound' /\ StaysReadable'
  BY <1>1, <1>2 DEF Replaced, IInv, RegistrySound, StaysReadable
<1>5. RequestsClean' /\ ListsParse' /\ ListsFresh' /\ CopiesFresh'
  BY DEF Replaced, IInv, RequestsClean, ListsParse, Running, Valid, ListsFresh, CopiesFresh
<1> QED
  BY <1>3, <1>4, <1>5 DEF IInv

LEMMA StutterKeeps == IInv /\ UNCHANGED vars => IInv'
BY DEF vars, IInv, TypeOK, RegistrySound, RequestsClean, ListsParse, StaysReadable,
       ListsFresh, CopiesFresh, Running, Valid

LEMMA InitHolds == Init => IInv
<1> SUFFICES ASSUME Init PROVE IInv
  OBVIOUS
<1>1. /\ conf \in File /\ conf.form # "torn"
      /\ conf.form \in {"missing", "empty", "broken"} => conf.nodes = {}
      /\ conf.form \in {"legacy", "sectioned"} => Sound(conf.nodes)
  BY InputAssumption, FileFacts DEF Init, SoundLegacy
<1>2. conf.form = "broken" => conf = Broken
  BY <1>1 DEF File, Broken
<1>3. [op |-> "migrate"] \in Request
  BY DEF Request
<1>4. TypeOK
  BY <1>1, <1>3, FileFacts, InputAssumption DEF Init, TypeOK, PC
<1> QED
  BY <1>1, <1>2, <1>4 DEF Init, IInv, RegistrySound, RequestsClean, ListsParse,
     StaysReadable, ListsFresh, CopiesFresh, Running

(***************************************************************************)
(* The theorems.                                                           *)
(***************************************************************************)

(* The inductive invariant holds, however commands overlap.                *)
THEOREM NodesInductive == Spec => []IInv
<1>1. IInv /\ [Next]_vars => IInv'
  <2> SUFFICES ASSUME IInv, [Next]_vars PROVE IInv'
    OBVIOUS
  <2>1. ASSUME NEW c \in Cmds, Command(c) PROVE IInv'
    BY <2>1, StartKeeps, NodeAddKeeps, NodeEditKeeps, NodeRemoveKeeps,
       NodeSetEnabledKeeps, NodeMigrateKeeps, QuietKeeps, NoCopyKeeps, ReadCopyKeeps,
       OpenCopyKeeps, FillCopyKeeps, RenameKeeps, WriteFailsKeeps DEF Command
  <2> QED
    BY <2>1, ReplacedKeeps, StutterKeeps DEF Next
<1> QED
  BY InitHolds, <1>1, PTL DEF Spec

(* Every variable keeps its type.                                          *)
THEOREM NodesTypeCorrect == Spec => []TypeOK
<1>1. IInv => TypeOK
  BY DEF IInv
<1> QED
  BY <1>1, NodesInductive, PTL

(* No interleaving of commands makes the registry unreadable: only a value *)
(* that is read back as nothing or as several does, or another writer.     *)
THEOREM RegistryStaysReadable == Spec => []StaysReadable
<1>1. IInv => StaysReadable
  BY DEF IInv
<1> QED
  BY <1>1, NodesInductive, PTL

(* A command writes with pc "replace", and only then.                      *)
LEMMA WritesIsRename ==
    ASSUME IInv, [Next]_vars, NEW c \in Cmds, Writes(c) PROVE Rename(c)
<1>1. pc[c] = "replace" /\ pc'[c] = "done"
  BY DEF Writes
<1>2. \A d \in Cmds \ {c} : ~Command(d)
  BY <1>1 DEF IInv, TypeOK, Command, Start, NodeAdd, NodeEdit, NodeEditRefused, NodeRemove,
     NodeSetEnabled, NodeMigrate, NodeMigrated, LoadFails, NoCopy, ReadCopy, OpenCopy,
     FillCopy, Rename, WriteFails, Computes, Asked, Running
<1>3. Command(c) => Rename(c)
  BY <1>1 DEF IInv, TypeOK, Command, Start, NodeAdd, NodeEdit, NodeEditRefused, NodeRemove,
     NodeSetEnabled, NodeMigrate, NodeMigrated, LoadFails, NoCopy, ReadCopy, OpenCopy,
     FillCopy, WriteFails, Computes, Asked
<1>4. pc' # pc
  BY <1>1
<1> QED
  BY <1>2, <1>3, <1>4 DEF Next, Replaced, vars

(* A command whose list is not stale keeps the nodes it was not asked to   *)
(* change, as they were, if what it writes can be read at all, and only     *)
(* migrate rewrites the legacy format.                                     *)
THEOREM OthersAreKept == Spec => OtherNodesKept
<1> DEFINE Kept ==
      \A c \in Cmds :
          Writes(c) /\ c \notin stale =>
              /\ conf.form = "legacy" => req[c].op = "migrate"
              /\ conf'.form # "broken" =>
                    \A n \in conf.nodes :
                        n.name \notin Named(req[c]) => n \in conf'.nodes
<1>1. IInv /\ [Next]_vars => Kept
  <2> SUFFICES ASSUME IInv, [Next]_vars, NEW c \in Cmds, Writes(c), c \notin stale
               PROVE  /\ conf.form = "legacy" => req[c].op = "migrate"
                      /\ conf'.form # "broken" =>
                            \A n \in conf.nodes :
                                n.name \notin Named(req[c]) => n \in conf'.nodes
    OBVIOUS
  <2>1. Rename(c)
    BY WritesIsRename
  <2>2. Running(c) /\ list[c] \in SUBSET Node /\ conf' = Serialize(list[c])
    BY <2>1 DEF Rename, Running, IInv, TypeOK
  <2>3. ASSUME conf'.form # "broken" PROVE \A n \in list[c] : n.text \in Plain => n \in conf'.nodes
    BY <2>2, <2>3, SerializeFacts, ReadBackFacts
  <2>4. \A n \in conf.nodes : n.text \in Plain
    BY DEF IInv, TypeOK, File, RegistrySound, Sound
  <2> QED
    BY <2>2, <2>3, <2>4 DEF IInv, ListsFresh
<1> QED
  BY <1>1, NodesInductive, PTL DEF Spec, OtherNodesKept

(* The backup copy is the registry that a command replaces, unless         *)
(* something else wrote either file since it loaded its list.              *)
THEOREM BackupIsWhatWasReplaced == Spec => BackupIsPrevious
<1> DEFINE Copied ==
      \A c \in Cmds :
          Writes(c) /\ c \notin disturbed /\ conf # Missing => bak = conf
<1>1. IInv /\ [Next]_vars => Copied
  BY WritesIsRename DEF Rename, IInv, CopiesFresh
<1> QED
  BY <1>1, NodesInductive, PTL DEF Spec, BackupIsPrevious

(***************************************************************************)
(* The commands implement RegistryEdits.                                   *)
(***************************************************************************)

Plans == [c \in Cmds |-> Intended(c)]
EditVars == <<Found(conf), Plans, spoiled>>

(* A list operation takes out one node at most, and puts in one at most.   *)
LEMMA ListsAreOneEdit ==
    ASSUME NEW ns, NEW ms,
           \/ \E n : ms = ns \cup {n}
           \/ \E o : ms = ns \ {o}
           \/ \E o, n : ms = (ns \ {o}) \cup {n}
           \/ ms = ns
    PROVE  Edits!AtMostOne(ns \ ms) /\ Edits!AtMostOne(ms \ ns)
BY DEF Edits!AtMostOne

(* Read back, the outcome of one operation is one edit of what it worked   *)
(* on, or two when the rest of a value is a section.                       *)
LEMMA ReadBackIsOneEdit ==
    ASSUME NEW old \in SUBSET Node, NEW ns \in SUBSET Node, Sound(old), Parses(ns),
           Edits!AtMostOne(old \ ns), Edits!AtMostOne(ns \ old)
    PROVE  \/ Edits!OneEdit(old, ReadBack(ns))
           \/ /\ \E n \in ns : n.text \in Reckless
              /\ \E more \in ReadBack(ns) : Edits!OneEdit(old, ReadBack(ns) \ {more})
<1>1. \A n \in ns : n \in Node /\ Validate(n) /\ n.text # "unreadable"
  BY DEF Parses
<1>2. Edits!NamesUnique(ReadBack(ns))
  BY ReadBackFacts DEF Sound, NamesOnce, Edits!NamesUnique
<1>3. \A m \in ns \cap old : Sections(m) = {m}
  BY <1>1, SectionFacts DEF Sound
<1>4. ns \cap old \subseteq ReadBack(ns)
  BY <1>3 DEF ReadBack
<1>5. CASE \E n \in ns \ old : n.text = "injecting"
  <2>1. PICK n \in ns \ old : n.text = "injecting"
    BY <1>5
  <2>2. PICK a, e : Sections(n) = {a, e} /\ a # e
    <3>1. n \in Node /\ Validate(n) /\ n.text # "unreadable"
      BY <1>1
    <3> QED
      BY <2>1, <3>1, SectionFacts
  <2>3. e \in ReadBack(ns)
    BY <2>1, <2>2 DEF ReadBack
  <2>4. \A m \in ns \ {n} : m \in old
    BY <2>1 DEF Edits!AtMostOne
  <2>5. \A m \in ns \cap old : m # e
    BY <1>3, <2>1, <2>2 DEF Parses
  <2>6. old \ (ReadBack(ns) \ {e}) \subseteq old \ ns
    BY <1>4, <2>5
  <2>7. ASSUME NEW x \in (ReadBack(ns) \ {e}) \ old PROVE x = a
    <3>1. PICK m \in ns : x \in Sections(m)
      BY <2>7 DEF ReadBack
    <3>2. m = n
      BY <1>3, <2>4, <2>7, <3>1
    <3> QED
      BY <2>2, <2>7, <3>1, <3>2
  <2>8. Edits!OneEdit(old, ReadBack(ns) \ {e})
    BY <1>2, <2>6, <2>7 DEF Edits!OneEdit, Edits!AtMostOne, Edits!NamesUnique
  <2> QED
    BY <2>1, <2>3, <2>8 DEF Reckless
<1>6. CASE \A n \in ns \ old : n.text # "injecting"
  <2>1. \A n \in ns \ old : \E a : Sections(n) = {a}
    BY <1>1, <1>6, SectionFacts
  <2>2. old \ ReadBack(ns) \subseteq old \ ns
    BY <1>4
  <2>3. ASSUME NEW x \in ReadBack(ns) \ old, NEW y \in ReadBack(ns) \ old PROVE x = y
    <3>1. PICK m \in ns : x \in Sections(m)
      BY <2>3 DEF ReadBack
    <3>2. PICK n \in ns : y \in Sections(n)
      BY <2>3 DEF ReadBack
    <3>3. m \in ns \ old /\ n \in ns \ old
      BY <1>3, <2>3, <3>1, <3>2
    <3>4. m = n
      BY <3>3 DEF Edits!AtMostOne
    <3>5. PICK a : Sections(m) = {a}
      BY <2>1, <3>3
    <3> QED
      BY <3>1, <3>2, <3>4, <3>5
  <2> QED
    BY <1>2, <2>2, <2>3 DEF Edits!OneEdit, Edits!AtMostOne
<1> QED
  BY <1>5, <1>6

(* What is found of a list that is written.                                *)
LEMMA FoundFacts ==
    ASSUME NEW ns \in SUBSET Node
    PROVE  /\ Parses(ns) => Found(Serialize(ns)) = Edits!Current(ReadBack(ns))
           /\ ~Parses(ns) => Found(Serialize(ns)) = Edits!Broken
           /\ Found(Serialize(ns)) # Edits!NoPlan
<1>1. Edits!NoPlan.form = "none"
  BY DEF Edits!NoPlan
<1>2. CASE Parses(ns)
  <2>1. Serialize(ns).form \in {"empty", "sectioned"} /\ Serialize(ns).nodes = ReadBack(ns)
    BY <1>2, SerializeFacts
  <2>2. Found(Serialize(ns)) = Edits!Current(ReadBack(ns))
    BY <2>1 DEF Found, Format, Edits!Current
  <2>3. Edits!Current(ReadBack(ns)).form = "current"
    BY DEF Edits!Current
  <2> QED
    BY <1>1, <1>2, <2>2, <2>3
<1>3. CASE ~Parses(ns)
  <2>1. Serialize(ns) = Broken
    BY <1>3 DEF Serialize, Parses
  <2>2. Found(Serialize(ns)) = Edits!Broken
    BY <2>1 DEF Found, Format, Broken, Edits!Broken
  <2>3. Edits!Broken.form = "broken"
    BY DEF Edits!Broken
  <2> QED
    BY <1>1, <1>3, <2>2, <2>3
<1> QED
  BY <1>2, <1>3

LEMMA IntendedFacts ==
    ASSUME TypeOK, NEW c \in Cmds
    PROVE  /\ Plans[c] = Intended(c)
           /\ Running(c) => Plans[c] = Found(Serialize(list[c])) /\ Plans[c] # Edits!NoPlan
           /\ ~Running(c) => Plans[c] = Edits!NoPlan
BY FoundFacts DEF Plans, Intended, TypeOK, Edits!NoPlan

(* Only the plan of one command changes.                                   *)
LEMMA OnePlan ==
    ASSUME NEW c \in Cmds, \A d \in Cmds \ {c} : Intended(d)' = Intended(d)
    PROVE  /\ \A d \in Cmds \ {c} : Plans'[d] = Plans[d]
           /\ ~Running(c)' => Plans' = [Plans EXCEPT ![c] = Edits!NoPlan]
           /\ Intended(c)' = Intended(c) => Plans' = Plans
BY DEF Plans, Intended, Edits!NoPlan

(* A command that goes on with its list has planned one edit of what it    *)
(* has found.                                                              *)
LEMMA ComputesPlans ==
    ASSUME IInv, NEW c \in Cmds, pc[c] = "load", NEW lists, Computes(c, lists),
           conf.form # "broken", Sound(conf.nodes),
           \A ns \in lists :
               /\ ns \in SUBSET Node
               /\ ~spoiled => Parses(ns) /\ \A n \in ns : n.text \notin Reckless
               /\ Edits!AtMostOne(conf.nodes \ ns) /\ Edits!AtMostOne(ns \ conf.nodes)
               /\ conf.form = "legacy" => ns = conf.nodes
    PROVE  Edits!Next
<1>1. PICK ns \in lists : list' = [list EXCEPT ![c] = ns]
  BY DEF Computes
<1>2. /\ UNCHANGED <<conf, spoiled>> /\ pc' = [pc EXCEPT ![c] = "backup"]
      /\ ~Running(c) /\ Running(c)' /\ list'[c] = ns
      /\ ns \in SUBSET Node
  BY <1>1 DEF Computes, Running, IInv, TypeOK
<1>3. \A d \in Cmds \ {c} : Intended(d)' = Intended(d)
  BY <1>1, <1>2 DEF Intended, Running, IInv, TypeOK
<1>4. Plans[c] = Edits!NoPlan
  BY <1>2, IntendedFacts DEF IInv
<1>5. Plans'[c] = Found(Serialize(ns))
  BY <1>2 DEF Plans, Intended
<1>6. /\ Found(conf).form # "broken" /\ Found(conf).nodes = conf.nodes
      /\ Found(conf).form = "legacy" => conf.form = "legacy"
  BY DEF Found, Format
<1>7. conf.nodes \in SUBSET Node
  BY FileFacts DEF IInv, TypeOK
<1>8. CASE Parses(ns)
  <2>1. Plans'[c] = Edits!Current(ReadBack(ns)) /\ Plans'[c].nodes = ReadBack(ns)
    BY <1>2, <1>5, <1>8, FoundFacts DEF Edits!Current
  <2>2. Edits!NamesUnique(ReadBack(ns))
    BY <1>2, <1>8, ReadBackFacts DEF Sound, NamesOnce, Edits!NamesUnique
  <2>3. \/ Edits!OneEdit(Found(conf).nodes, ReadBack(ns))
        \/ /\ spoiled
           /\ \E more \in ReadBack(ns) :
                 Edits!OneEdit(Found(conf).nodes, ReadBack(ns) \ {more})
    BY <1>2, <1>6, <1>7, <1>8, ReadBackIsOneEdit
  <2>4. conf.form = "legacy" => Plans'[c] = Edits!Current(Found(conf).nodes)
    BY <1>2, <1>6, <1>7, <2>1, SoundParses
  <2>5. Edits!Follows(Plans'[c])
    BY <1>6, <2>1, <2>2, <2>3, <2>4 DEF Edits!Follows
  <2>6. Edits!Plan(c)
    BY <1>2, <1>3, <1>4, <2>5, OnePlan DEF Edits!Plan, Plans
  <2> QED
    BY <1>2, <1>4, <1>5, <2>6, FoundFacts DEF Edits!Next, Plans
<1>9. CASE ~Parses(ns)
  <2>1. Plans'[c] = Edits!Broken
    BY <1>2, <1>5, <1>9, FoundFacts
  <2>2. spoiled /\ conf.form # "legacy"
    BY <1>7, <1>9, SoundParses
  <2>3. Edits!Follows(Plans'[c])
    BY <1>6, <2>1, <2>2 DEF Edits!Follows
  <2>4. Edits!Plan(c)
    BY <1>2, <1>3, <1>4, <2>3, OnePlan DEF Edits!Plan, Plans
  <2> QED
    BY <1>2, <1>4, <1>5, <2>4, FoundFacts DEF Edits!Next, Plans
<1> QED
  BY <1>8, <1>9

LEMMA CommandsPlan ==
    ASSUME IInv, NEW c \in Cmds,
           \/ NodeAdd(c) \/ NodeEdit(c) \/ NodeRemove(c) \/ NodeSetEnabled(c) \/ NodeMigrate(c)
    PROVE  Edits!Next
<1>1. CASE NodeAdd(c)
  <2>1. /\ pc[c] = "load" /\ req[c].op = "add" /\ Mutable
        /\ Computes(c, Add(conf.nodes, req[c].node))
    BY <1>1 DEF NodeAdd, Asked
  <2>2. /\ conf.form # "broken" /\ conf.form # "legacy"
        /\ conf.nodes \in SUBSET Node /\ Sound(conf.nodes)
        /\ req[c].node \in Node /\ (~spoiled => req[c].node.text \notin Reckless)
    BY <2>1, MutableFacts, RequestFacts DEF Mutable
  <2>3. ASSUME NEW ns \in Add(conf.nodes, req[c].node)
        PROVE  Edits!AtMostOne(conf.nodes \ ns) /\ Edits!AtMostOne(ns \ conf.nodes)
    BY <2>3, ListsAreOneEdit DEF Add
  <2>4. ASSUME NEW ns \in Add(conf.nodes, req[c].node)
        PROVE  /\ ns \in SUBSET Node
               /\ ~spoiled => Parses(ns) /\ \A n \in ns : n.text \notin Reckless
    BY <2>2, <2>4, AddFacts
  <2> QED
    BY <2>1, <2>2, <2>3, <2>4, ComputesPlans
<1>2. CASE NodeEdit(c)
  <2>1. pc[c] = "load" /\ req[c].op = "edit" /\ Mutable
    BY <1>2 DEF NodeEdit, Asked
  <2>2. PICK o \in Find(conf.nodes, req[c].name) :
            Computes(c, Replace(conf.nodes, req[c].name, Edited(req[c], o)))
    BY <1>2 DEF NodeEdit
  <2>3. /\ conf.form # "broken" /\ conf.form # "legacy"
        /\ conf.nodes \in SUBSET Node /\ Sound(conf.nodes)
        /\ o \in Node /\ req[c] \in Request /\ o.text \in Plain
    BY <2>1, MutableFacts DEF Mutable, Find, Sound
  <2>4. /\ Edited(req[c], o) \in Node
        /\ ~spoiled => Edited(req[c], o).text \notin Reckless
    BY <2>1, <2>3, MutableFacts, EditedType
  <2>5. ASSUME NEW ns \in Replace(conf.nodes, req[c].name, Edited(req[c], o))
        PROVE  Edits!AtMostOne(conf.nodes \ ns) /\ Edits!AtMostOne(ns \ conf.nodes)
    BY <2>5, ListsAreOneEdit DEF Replace
  <2>6. ASSUME NEW ns \in Replace(conf.nodes, req[c].name, Edited(req[c], o))
        PROVE  /\ ns \in SUBSET Node
               /\ ~spoiled => Parses(ns) /\ \A n \in ns : n.text \notin Reckless
    BY <2>3, <2>4, <2>6, ReplaceFacts
  <2> QED
    BY <2>1, <2>2, <2>3, <2>5, <2>6, ComputesPlans
<1>3. CASE NodeRemove(c)
  <2>1. /\ pc[c] = "load" /\ req[c].op = "remove" /\ Mutable
        /\ Computes(c, Remove(conf.nodes, req[c].name))
    BY <1>3 DEF NodeRemove, Asked
  <2>2. /\ conf.form # "broken" /\ conf.form # "legacy"
        /\ conf.nodes \in SUBSET Node /\ Sound(conf.nodes) /\ req[c].name \in NodeNames
    BY <2>1, MutableFacts, RequestFacts DEF Mutable
  <2>3. ASSUME NEW ns \in Remove(conf.nodes, req[c].name)
        PROVE  /\ ns \in SUBSET Node /\ Sound(ns) /\ Parses(ns)
               /\ Edits!AtMostOne(conf.nodes \ ns) /\ Edits!AtMostOne(ns \ conf.nodes)
    <3>1. ns \in SUBSET Node /\ Sound(ns) /\ Parses(ns)
      BY <2>2, <2>3, RemoveFacts
    <3> QED
      BY <2>3, <3>1, ListsAreOneEdit DEF Remove
  <2>4. ASSUME NEW ns \in Remove(conf.nodes, req[c].name)
        PROVE  /\ ns \in SUBSET Node
               /\ ~spoiled => Parses(ns) /\ \A n \in ns : n.text \notin Reckless
    BY <2>3, <2>4 DEF Sound, Plain, Reckless
  <2> QED
    BY <2>1, <2>2, <2>3, <2>4, ComputesPlans
<1>4. CASE NodeSetEnabled(c)
  <2>1. /\ pc[c] = "load" /\ req[c].op \in {"enable", "disable"} /\ Mutable
        /\ Computes(c, SetEnabled(conf.nodes, req[c].name, req[c].op = "enable"))
    BY <1>4 DEF NodeSetEnabled, Asked
  <2>2. /\ conf.form # "broken" /\ conf.form # "legacy"
        /\ conf.nodes \in SUBSET Node /\ Sound(conf.nodes) /\ req[c].name \in NodeNames
    BY <2>1, MutableFacts, RequestFacts DEF Mutable
  <2>3. ASSUME NEW ns \in SetEnabled(conf.nodes, req[c].name, req[c].op = "enable")
        PROVE  /\ ns \in SUBSET Node /\ Sound(ns) /\ Parses(ns)
               /\ Edits!AtMostOne(conf.nodes \ ns) /\ Edits!AtMostOne(ns \ conf.nodes)
    <3>1. ns \in SUBSET Node /\ Sound(ns) /\ Parses(ns)
      BY <2>1, <2>3, SwitchedFacts
    <3>2. \E o, n : ns = (conf.nodes \ {o}) \cup {n}
      BY <2>3 DEF SetEnabled
    <3> QED
      BY <3>1, <3>2, ListsAreOneEdit
  <2>4. ASSUME NEW ns \in SetEnabled(conf.nodes, req[c].name, req[c].op = "enable")
        PROVE  /\ ns \in SUBSET Node
               /\ ~spoiled => Parses(ns) /\ \A n \in ns : n.text \notin Reckless
    BY <2>3, <2>4 DEF Sound, Plain, Reckless
  <2> DEFINE lists == SetEnabled(conf.nodes, req[c].name, req[c].op = "enable")
  <2>5. /\ Computes(c, lists)
        /\ \A ns \in lists :
              /\ ns \in SUBSET Node
              /\ ~spoiled => Parses(ns) /\ \A n \in ns : n.text \notin Reckless
              /\ Edits!AtMostOne(conf.nodes \ ns) /\ Edits!AtMostOne(ns \ conf.nodes)
    BY <2>1, <2>3, <2>4
  <2> HIDE DEF lists
  <2> QED
    BY <2>1, <2>2, <2>5, ComputesPlans
<1>5. CASE NodeMigrate(c)
  <2>1. pc[c] = "load" /\ conf.form = "legacy" /\ Computes(c, {conf.nodes})
    BY <1>5 DEF NodeMigrate, Asked
  <2>2. conf.nodes \in SUBSET Node /\ Sound(conf.nodes)
    BY <2>1, FileFacts DEF IInv, TypeOK, RegistrySound
  <2>3. Parses(conf.nodes) /\ \A n \in conf.nodes : n.text \notin Reckless
    BY <2>2, SoundParses DEF Sound, Plain, Reckless
  <2>4. \A ns \in {conf.nodes} : ns = conf.nodes
    OBVIOUS
  <2> QED
    BY <2>1, <2>2, <2>3, <2>4, ListsAreOneEdit, ComputesPlans
<1> QED
  BY <1>1, <1>2, <1>3, <1>4, <1>5

LEMMA RenameCommits == ASSUME IInv, NEW c \in Cmds, Rename(c) PROVE Edits!Next
<1>1. /\ Running(c) /\ ~Running(c)' /\ UNCHANGED <<list, spoiled>>
      /\ conf' = Serialize(list[c])
      /\ \A d \in Cmds \ {c} : pc'[d] = pc[d]
  BY DEF Rename, Running, IInv, TypeOK
<1>2. Plans[c] # Edits!NoPlan /\ Found(conf)' = Plans[c]
  BY <1>1, IntendedFacts DEF IInv, Found, Format
<1>3. Plans' = [Plans EXCEPT ![c] = Edits!NoPlan]
  BY <1>1, OnePlan DEF Intended, Running
<1>4. Edits!Commit(c)
  BY <1>1, <1>2, <1>3 DEF Edits!Commit, Plans
<1>5. Plans'[c] = Edits!NoPlan
  BY <1>3 DEF Plans
<1> QED
  BY <1>2, <1>4, <1>5 DEF Edits!Next, Plans

LEMMA FailureDrops == ASSUME IInv, NEW c \in Cmds, WriteFails(c) PROVE Edits!Next
<1>1. /\ Running(c) /\ ~Running(c)' /\ UNCHANGED <<conf, list, spoiled>>
      /\ \A d \in Cmds \ {c} : pc'[d] = pc[d]
  BY DEF WriteFails, Running, IInv, TypeOK
<1>2. Plans[c] # Edits!NoPlan
  BY <1>1, IntendedFacts DEF IInv
<1>3. Plans' = [Plans EXCEPT ![c] = Edits!NoPlan]
  BY <1>1, OnePlan DEF Intended, Running
<1>4. Edits!Drop(c)
  BY <1>1, <1>2, <1>3 DEF Edits!Drop, Plans
<1>5. Plans'[c] = Edits!NoPlan
  BY <1>3 DEF Plans
<1> QED
  BY <1>2, <1>4, <1>5 DEF Edits!Next, Plans

(* The other steps of a command change no plan.                            *)
LEMMA QuietPlans ==
    ASSUME IInv, NEW c \in Cmds,
           \/ \E q \in Requests : Start(c, q)
           \/ NodeEditRefused(c) \/ NodeMigrated(c) \/ LoadFails(c)
           \/ NoCopy(c) \/ ReadCopy(c) \/ OpenCopy(c) \/ FillCopy(c)
    PROVE  [Edits!Next]_EditVars
<1>1. /\ UNCHANGED <<conf, list>> /\ (spoiled' = spoiled \/ spoiled' = TRUE)
      /\ \A d \in Cmds : Running(d)' = Running(d)
  <2>1. CASE \E q \in Requests : Start(c, q)
    <3>1. /\ UNCHANGED <<conf, list>> /\ (spoiled => spoiled')
          /\ \A d \in Cmds : Running(d)' = Running(d)
      BY <2>1 DEF Start, Running, IInv, TypeOK
    <3>2. spoiled \in BOOLEAN /\ spoiled' \in BOOLEAN
      BY <2>1, StartKeeps DEF IInv, TypeOK
    <3> QED
      BY <3>1, <3>2
  <2>2. CASE NodeEditRefused(c) \/ NodeMigrated(c) \/ LoadFails(c)
    BY <2>2 DEF NodeEditRefused, NodeMigrated, LoadFails, Asked, Running, IInv, TypeOK
  <2>3. CASE NoCopy(c) \/ ReadCopy(c) \/ OpenCopy(c) \/ FillCopy(c)
    BY <2>3 DEF NoCopy, ReadCopy, OpenCopy, FillCopy, Running, IInv, TypeOK
  <2> QED
    BY <2>1, <2>2, <2>3
<1>2. Plans' = Plans /\ Found(conf)' = Found(conf)
  BY <1>1 DEF Plans, Intended, Found, Format
<1>3. CASE spoiled' = spoiled
  BY <1>2, <1>3 DEF EditVars
<1>4. CASE spoiled' = TRUE
  BY <1>2, <1>4 DEF Edits!Next, Edits!Carelessness, Plans
<1> QED
  BY <1>1, <1>3, <1>4

LEMMA ReplacedFromOutside ==
    ASSUME IInv, NEW f \in Others, Replaced(f) PROVE Edits!Next
<1>1. conf' = f /\ spoiled' = (spoiled \/ f = Broken) /\ UNCHANGED <<pc, list>>
  BY DEF Replaced
<1>2. f \in File /\ (f.form = "broken" => f.nodes = {})
  BY InputAssumption
<1>3. Found(f) = Edits!Broken <=> f = Broken
  <2>1. ASSUME f = Broken PROVE Found(f) = Edits!Broken
    BY <2>1 DEF Found, Format, Broken, Edits!Broken
  <2>2. ASSUME Found(f) = Edits!Broken PROVE f = Broken
    <3>1. Found(f).form = Format(f) /\ Edits!Broken.form = "broken"
      BY DEF Found, Edits!Broken
    <3>2. f.form = "broken"
      BY <2>2, <3>1 DEF Format
    <3> QED
      BY <1>2, <3>2 DEF File, Broken
  <2> QED
    BY <2>1, <2>2
<1>4. Found(conf)' = Found(f) /\ Plans' = Plans
  BY <1>1 DEF Found, Format, Plans, Intended, Running
<1>5. Edits!Replaced
  BY <1>1, <1>3, <1>4 DEF Edits!Replaced, Plans
<1> QED
  BY <1>5 DEF Edits!Next

(* Commands that overlap in any way replace the registry by one edit of a   *)
(* registry that was in place, at once, or leave it alone.                  *)
THEOREM CommandsAreEdits == Spec => KeepsEdits
<1>1. Init => Edits!Init
  <2> SUFFICES ASSUME Init PROVE Edits!Init
    OBVIOUS
  <2>1. Found(Missing) = Edits!Current({})
    BY DEF Found, Format, Missing, Edits!Current
  <2>2. Found(conf) \in {Found(f) : f \in Others} \cup {Edits!Current({})}
    BY <2>1 DEF Init
  <2>3. Found(conf) = Edits!Broken <=> conf = Broken
    <3>1. conf \in File /\ (conf.form = "broken" => conf.nodes = {})
      BY InputAssumption, FileFacts DEF Init
    <3>2. Found(conf).form = Format(conf) /\ Edits!Broken.form = "broken"
      BY DEF Found, Edits!Broken
    <3>3. conf.form = "broken" => conf = Broken
      BY <3>1 DEF File, Broken
    <3>4. conf = Broken => Found(conf) = Edits!Broken
      BY DEF Found, Format, Broken, Edits!Broken
    <3> QED
      BY <3>2, <3>3, <3>4 DEF Format
  <2>4. Plans = [c \in Cmds |-> Edits!NoPlan]
    BY DEF Init, Plans, Intended, Running, Edits!NoPlan
  <2> QED
    BY <2>2, <2>3, <2>4 DEF Init, Edits!Init, Plans
<1>2. IInv /\ [Next]_vars => [Edits!Next]_EditVars
  <2> SUFFICES ASSUME IInv, [Next]_vars PROVE [Edits!Next]_EditVars
    OBVIOUS
  <2>1. ASSUME NEW c \in Cmds, Command(c) PROVE [Edits!Next]_EditVars
    BY <2>1, CommandsPlan, RenameCommits, FailureDrops, QuietPlans DEF Command
  <2>2. CASE UNCHANGED vars
    BY <2>2 DEF vars, EditVars, Plans, Intended, Running, Found, Format
  <2> QED
    BY <2>1, <2>2, ReplacedFromOutside DEF Next
<1>3. [Edits!Next]_EditVars
        => [Edits!Next]_<<Found(conf), [c \in Cmds |-> Intended(c)], spoiled>>
  BY DEF EditVars, Plans
<1> QED
  BY <1>1, <1>2, <1>3, NodesInductive, PTL DEF Spec, KeepsEdits, Edits!Spec
=============================================================================
