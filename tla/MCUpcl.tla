-------------------------------- MODULE MCUpcl --------------------------------
(***************************************************************************)
(* Declarations as in upcl/examples (registers inside registers of the     *)
(* 80386, status registers and their explicit flags of the 6502 and the    *)
(* 68000, globals and windows of SPARC), and wrong ones: fields bound      *)
(* twice, to a wider register, to another field, to the register itself,   *)
(* to a condition that is none, copies of what is not defined yet.  Every  *)
(* sequence of three of them is a description, and of four or five of some *)
(* that have parts in parts.                                               *)
(***************************************************************************)
EXTENDS UpclRegisters

\* Fields and declarations; Half: the lower half is a register of its own.
F(name, size, kind, to) == [name |-> name, size |-> size, kind |-> kind, to |-> to]
P(name, size) == F(name, size, "plain", <<>>)
D(names, size, fields) ==
    [names |-> names, size |-> size, fields |-> fields, alias |-> <<>>, uses |-> <<>>,
     value |-> FALSE, explicit |-> FALSE, evaluate |-> FALSE]
R(n) == <<n>>
Half(n, w, part) == D(<<R(n)>>, 2 * w, <<F(Unnamed, w, "bidi", R(part)), P(Unnamed, w)>>)

PC == <<"%", "PC">>
PSR == <<"%", "PSR">>
C == <<"%", "C">>

MCDeclarations ==
  { D(<<R("bx")>>, 16, <<P(R("bl"), 8), P(R("bh"), 8)>>),
    Half("ebx", 16, "bx"),
    Half("rbx", 32, "ebx"),
    D(<<R("wx")>>, 32, <<P(Unnamed, 16), F(Unnamed, 16, "bidi", R("bx"))>>),
    D(<<R("a")>>, 8, <<>>),
    D(<<R("b")>>, 8, <<>>),
    D(<<R("d")>>, 16, <<F(Unnamed, 8, "bidi", R("a")), F(Unnamed, 8, "bidi", R("b"))>>),
    [D(<<R("sr")>>, 8, <<F(R("C"), 1, "to", C), F(Unnamed, 1, "value", <<>>), P(R("B"), 1),
                         F(R("X"), 1, "to", R("C"))>>) EXCEPT !.alias = <<PSR>>, !.explicit = TRUE],
    [D(<<R("p")>>, 8, <<F(R("X"), 1, "to", R("C")), F(R("C"), 1, "to", C)>>) EXCEPT !.alias = <<PSR>>],
    [D(<<R("ps")>>, 8, <<P(R("a"), 1), P(R("I"), 1)>>) EXCEPT !.explicit = TRUE],
    [D(<<R("pc")>>, 16, <<>>) EXCEPT !.alias = <<PC>>],
    [D(<<R("g0")>>, 32, <<>>) EXCEPT !.value = TRUE],
    D(<<<<"g", 1>>, <<"g", 2>>>>, 32, <<>>),
    [D(<<<<"r", 0>>, <<"r", 1>>>>, 32, <<>>) EXCEPT !.alias = <<<<"g", 1>>, <<"g", 2>>>>],
    [D(<<<<"o", 0>>, <<"o", 1>>>>, 32, <<>>) EXCEPT !.alias = <<<<"w", "?", "?">>, <<"w", "?", "?">>>>, !.uses = <<R("a")>>],
    [D(<<R("ccr")>>, 8, <<>>) EXCEPT !.alias = <<R("sr")>>],
    [D(<<R("z")>>, 8, <<>>) EXCEPT !.value = TRUE, !.uses = <<R("a"), R("b")>>],
    D(<<R("cp")>>, 16, <<F(Unnamed, 8, "to", R("a")), P(Unnamed, 8)>>),
    Half("ecp", 16, "cp"),
    [D(<<R("ev")>>, 8, <<>>) EXCEPT !.evaluate = TRUE],
    D(<<R("q")>>, 8, <<F(Unnamed, 4, "bidi copy", R("a"))>>),
    D(<<R("t")>>, 16, <<F(Unnamed, 8, "bidi", R("a")), F(Unnamed, 8, "bidi", R("a"))>>),
    D(<<R("t2")>>, 32, <<F(Unnamed, 8, "bidi", R("a")), F(Unnamed, 8, "bidi", R("a"))>>),
    Half("ed", 16, "d"),
    D(<<R("dd")>>, 16, <<F(Unnamed, 16, "bidi", R("d"))>>),
    Half("eed", 32, "ed"),
    [D(<<R("al")>>, 16, <<>>) EXCEPT !.alias = <<R("bx")>>],
    Half("eal", 16, "al"),
    Half("ep", 16, "pc"),
    D(<<R("h")>>, 32, <<F(Unnamed, 8, "bidi", R("bh"))>>),
    Half("rw", 8, "bx"),
    D(<<R("rx")>>, 32, <<P(Unnamed, 8), F(Unnamed, 8, "bidi", R("bx"))>>),
    D(<<R("bf")>>, 8, <<F(Unnamed, 2, "to", C)>>),
    D(<<R("sf")>>, 16, <<F(Unnamed, 8, "to", R("sf"))>>),
    D(<<R("k")>>, 8, <<F(Unnamed, 4, "copy", R("a")), F(Unnamed, 4, "value", <<>>)>>) }

\* Parts of parts, the outer ones with and without bits of their own.
Named(x) == CHOOSE d \in MCDeclarations : d.names[1] = R(x)
MCLonger ==
    {{Named(x) : x \in s} :
        s \in {{"a", "b", "d", "ed", "eed"}, {"a", "b", "d", "dd", "ed"}, {"a", "b", "cp", "ecp", "d"}, {"bx", "ebx", "rbx", "rw"}, {"a", "b", "d", "z", "k"}}}

\* In the order of strnatcmp().
MCNatural == <<R("a"), R("al"), R("b"), R("bf"), R("bx"), R("ccr"), R("cp"), R("d"), R("eal"), R("ebx"), R("dd"), R("ecp"), R("ed"), R("eed"), R("ep"), R("ev"), R("g0"), <<"g", 1>>, <<"g", 2>>, R("h"),
   R("k"), <<"o", 0>>, <<"o", 1>>, R("p"), R("pc"), R("ps"), R("q"), <<"r", 0>>, <<"r", 1>>, R("rbx"), R("rw"), R("rx"), R("sf"), R("sr"), R("t"), R("t2"), R("wx"), R("z")>>
================================================================================
