------------------------------- MODULE MCNodes -------------------------------
(* A small instance of Nodes.tla for TLC: two names, every kind of request,  *)
(* and requests that must be refused.                                        *)
EXTENDS NodesProps, TLC

CONSTANTS jp, us

MCNodeNames == {jp, us}

H2(x, t) == [name |-> x, type |-> "hysteria2", creds |-> {"hysteria2"}, text |-> t, enabled |-> TRUE]
VR(x, t) == [name |-> x, type |-> "vless-reality", creds |-> {"vless-reality"}, text |-> t, enabled |-> TRUE]

MCInjected == VR(us, "old")

Adding(n) == [op |-> "add", node |-> n]
Editing(x, y, t, cr) ==
    [op |-> "edit", name |-> x, to |-> y, text |-> t, creds |-> cr, enabled |-> "same"]
On(op, x) == [op |-> op, name |-> x]

MCRequests ==
    {Adding(VR(us, "altered")), Adding(H2(us, "unreadable")),
     Adding([VR(us, "new") EXCEPT !.creds = Types]),
     Adding([VR(us, "refused") EXCEPT !.creds = {}]),
     [Editing(jp, us, "same", {"hysteria2"}) EXCEPT !.enabled = "off"],
     Editing(jp, jp, "injecting", {}), Editing(jp, jp, "new", {"vless-reality"}),
     On("remove", jp), On("disable", jp), [op |-> "migrate"]}

MCOthers ==
    {Broken, [form |-> "legacy", nodes |-> {H2(jp, "old")}],
     [form |-> "sectioned", nodes |-> {H2(jp, "old"), VR(us, "old")}]}

CmdSymmetry == Permutations(Cmds)
=============================================================================
