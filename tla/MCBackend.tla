----------------------------- MODULE MCBackend -----------------------------
(***************************************************************************)
(* Functions of up to five instructions: three free ones and an end, with  *)
(* every branch target, so that the prolog (five bytes) has one to four    *)
(* instructions.  An instruction refers to another one by its number;      *)
(* Outside is past the end of the function.  Where instructions have a     *)
(* fixed width the prolog has one or two: two free ones and an end.        *)
(***************************************************************************)
EXTENDS BackendInv

N       == 3
Outside == 60
Near    == 80    \* data in reach of every trampoline
Distant == 200   \* data in reach of the function, not of every trampoline

I(op, len, to, flag, imm) ==
  [op |-> op, len |-> len, to |-> to, flag |-> flag, imm |-> imm, sense |-> TRUE]
Target == 1 .. N + 1 \cup {Outside}

Common ==
  {I("plain", 1, 0, "none", 0), I("plain", 3, 0, "none", 0), I("ret", 1, 0, "none", 0)}
    \cup {I("jmp", 2, t, "none", 0) : t \in Target}
    \cup {I("test", 2, t, "cc", 0) : t \in Target}
Rare ==
  {I("nop", 1, 0, "none", 0), I("bad", 1, 0, "none", 0),
   I("call", 5, Outside, "none", 0), I("jmp", 5, Outside, "none", 0),
   I("test", 6, Outside, "cc", 0), I("jmpmem", 6, Near, "none", 0)}
    \cup {I("read", 6 + imm, t, "none", imm) :
            t \in {1, 2, Near, Distant}, imm \in {0, 1}}
    \cup {I("test", 2, t, f, 0) : t \in {1, 3, Outside}, f \in {"loop", "rcxz"}}
Tails ==
  {<<I("ret", 1, 0, "none", 0)>>} \cup
  {<<I("test", 2, t, "cc", 0), I("ret", 1, 0, "none", 0)>> : t \in {1, 2}}

Falls(i) == i.op \notin {"jmp", "jmpmem", "ret", "bad"}

\* Branches lead to instructions; nothing falls into bytes that are no code.
Plausible(s) ==
  /\ \A k \in DOMAIN s : s[k].to \in 0 .. Len(s) \/ s[k].to > N + 1
  /\ \A k \in DOMAIN s : s[k].op = "bad" =>
       /\ k # 1 /\ ~Falls(s[k - 1])
       /\ \A j \in DOMAIN s : s[j].to # k
FewRare(s) == Cardinality({k \in DOMAIN s : s[k] \in Rare}) <= 1

Resolved(s) ==
  [k \in DOMAIN s |->
     IF s[k].to \in DOMAIN s THEN [s[k] EXCEPT !.to = Offsets(s)[s[k].to]] ELSE s[k]]

Texts(shapes) == {Layout(Resolved(s), 0) : s \in {t \in shapes : Plausible(t)}}
Heads(free, n) == UNION {[1 .. m -> free] : m \in 0 .. n}
Shapes(heads, tails) == {h \o t : h \in heads, t \in tails}

IntelTexts == Texts(Shapes({h \in Heads(Common \cup Rare, N) : FewRare(h)}, Tails))

\* Four bytes each.
W(op, to, flag) == I(op, 4, to, flag, 0)
NotW(op, to, flag) == [W(op, to, flag) EXCEPT !.sense = FALSE]
Anywhere == {1, 2, 3, Outside}
Fixed ==
  {W(op, 0, "none") : op \in {"plain", "nop", "ret"}}
    \cup {W("jmp", t, "none") : t \in Anywhere}
    \cup {W("call", t, "none") : t \in {1, Outside}}
Scratch == {W("plain", 0, "sets"), W("plain", 0, "uses"), W("addr", Near, "sets")}
FixedTails ==
  {<<W("ret", 0, "none")>>, <<W("plain", 0, "uses"), W("ret", 0, "none")>>}
    \cup {<<W("test", t, "cc"), W("ret", 0, "none")>> : t \in {1, 2}}

A64Texts ==
  Texts(Shapes(Heads(Fixed \cup Scratch
    \cup {W("test", t, f) : t \in Anywhere, f \in {"cb", "tb", "cond"}}
    \cup {NotW("test", t, "cb") : t \in Anywhere}
    \cup {W("addr", 1, "none"), W("read", Near, "none"), W("read", 1, "none"),
          W("read", Near, "simd"), W("prefetch", Near, "none"), W("ret", 0, "br")},
    2), FixedTails))
RVTexts ==
  Texts(Shapes(Heads(Fixed \cup Scratch
    \cup {W("test", t, "cc") : t \in Anywhere} \cup {NotW("test", t, "cc") : t \in Anywhere}
    \cup {W("addr", 1, "none"), I("plain", 2, 0, "compressed", 0)},
    2), FixedTails))
ArmTexts ==
  Texts(Shapes(Heads(Fixed \cup {W("test", t, "cc") : t \in Anywhere}
    \cup {W("read", Near, f) : f \in {"none", "simd"}}
    \cup {W("addr", Near, f) : f \in {"none", "rm"}}
    \cup {W("jmpmem", Near, "none"), W("retif", 0, "cc")},
    2), FixedTails))

World(arch, above, below, base, detour) ==
  [arch |-> arch, above |-> above, below |-> below, base |-> base,
   detour |-> detour, relay |-> -52, checked |-> TRUE]
Pairs(worlds, texts) == {[worlds |-> worlds, texts |-> texts]}

\* DETOUR_RANGE is 256.  On x86 and RV32 the trampoline is so far off that it
\* reaches the outside by wrapping around.
X64Worlds == {World("x64", "pad", "code", 100, 90), World("x64", "data", "pad", -150, 600)}
X86World  == World("x86", "pad", "pad", -240, 250)
NearWorld(arch, below) == World(arch, "code", below, 100, 88)
FarWorld(arch, below)  == World(arch, "code", below, -240, 600)

\* RIP operands are only available in x64 processes.
NoReads(t) == \A a \in DOMAIN t : t[a].op \notin {"read", "jmpmem"}

\* Detours around the ends of the range, for every kind of jump.
EdgeWorlds ==
  {World("x64", "pad", below, 100, detour) : below \in {"pad", "code"},
     detour \in {-257, -256, -255, -252, -251, -250, 255, 256, 257, 260, 261}}
EdgeTexts ==
  {Layout(<<I("plain", 1, 0, "none", 0), I("ret", 1, 0, "none", 0)>>, 0)}
FixedEdgeWorlds ==
  {World("a64", "code", "pad", 100, detour) :
     detour \in {-260, -256, -252, 248, 252, 256, 260}}
  \cup {World("rv64", "code", "pad", 100, detour) :
         detour \in {-258, -256, -254, 244, 246, 248, 250, 254, 256, 258}}
  \cup {[World("rv32", "code", "pad", 100, detour) EXCEPT !.checked = FALSE] :
         detour \in {-256, -254, 244, 248, 254}}
FixedEdgeTexts == {Layout(<<W("plain", 0, "none"), W("ret", 0, "none")>>, 0)}

MCCases ==
  Pairs(X64Worlds, IntelTexts) \cup Pairs({X86World}, {t \in IntelTexts : NoReads(t)})
    \cup Pairs(EdgeWorlds, EdgeTexts)
    \cup Pairs({NearWorld("a64", "code"), FarWorld("a64", "pad")}, A64Texts)
    \cup Pairs({NearWorld("rv64", "code"), FarWorld("rv64", "pad"), NearWorld("rv32", "pad")},
               RVTexts)
    \cup Pairs({NearWorld("arm", "code"), NearWorld("arm", "pad"), NearWorld("thumb", "code")},
               ArmTexts)
    \cup Pairs(FixedEdgeWorlds, FixedEdgeTexts)

\* `cmp byte [rip+d], 0' and the like as the first instruction.
ImmediateCases ==
  Pairs(X64Worlds, {Layout(<<I("read", 6 + imm, t, "none", imm),
                            I("plain", n, 0, "none", 0), I("ret", 1, 0, "none", 0)>>, 0) :
                     imm \in {0, 1, 2, 4}, t \in {Near, Distant}, n \in 1 .. 3})

\* Functions that begin with a call.
CallCases ==
  Pairs({NearWorld("a64", "code"), NearWorld("rv64", "code"), NearWorld("rv32", "code")},
        {Layout(<<W("call", Outside, "none")>> \o t, 0) :
           t \in {<<W("ret", 0, "none")>>, <<W("plain", 0, "none"), W("ret", 0, "none")>>}})

\* The tail call `auipc t1, hi; jr lo(t1)', at every place of the prolog.
TailCallCases ==
  Pairs({NearWorld("rv64", "code"), FarWorld("rv64", "code"), NearWorld("rv32", "code")},
        {Layout([k \in 1 .. n |-> W("plain", 0, "none")]
                  \o <<W("addr", Near, "sets"), W("ret", 0, "uses")>>, 0) : n \in 0 .. 2})

\* Detours at the upper end of the range, in a build that does not check for
\* overflow.
ReachCases ==
  Pairs({[World("rv64", "code", "pad", 100, detour) EXCEPT !.checked = FALSE] :
           detour \in {2 * n : n \in -128 .. -8 \cup 16 .. 128}}, FixedEdgeTexts)
=============================================================================
