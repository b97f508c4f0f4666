--------------------------- MODULE MCRISCVBuiltinCall --------------------------
EXTENDS RISCVBuiltinCall, FiniteSetsExt, TLC

\* v and zba are in the first group of feature bits, zcb in the second; d, the Zvl and the
\* interrupt extensions have no bit.
MCImplied ==
  [e \in {"e", "d", "zdinx", "zvl128b", "zvl256b", "zve32x", "zve64x", "v", "zvkg", "zba", "zcb",
          "smrnmi", "xqciint", "xsfmclic"} |->
     CASE e = "v"       -> {"v", "zvl128b", "zve64x", "zve32x", "d"}
       [] e = "zve64x"  -> {"zve64x", "zve32x"}
       [] e = "zvl256b" -> {"zvl256b", "zvl128b"}
       [] OTHER         -> {e}]
MCConflicts == {{"d", "zdinx"}}
MCVLen == "zvl128b" :> 128 @@ "zvl256b" :> 256
MCCPUArch == "vector-cpu" :> {"v", "zba"} @@ "small-cpu" :> {"d"}
MCFeatureBit == "v" :> <<0, 21>> @@ "zba" :> <<0, 27>> @@ "zcb" :> <<1, 3>>

On(e) == [on |-> TRUE, exts |-> {e}]
Off(e) == [on |-> FALSE, exts |-> {e}]
Target(features, a, range) == [features |-> features, abi |-> a, vscale |-> range]
MCTargets ==
  {Target(<<>>, "", <<0, 0>>), Target(<<On("v"), Off("zvl128b")>>, "", <<1, 1>>),
   Target(<<On("zvl256b"), On("zba"), Off("zba")>>, "", <<0, 0>>),
   Target(<<On("zve32x")>>, "", <<0, 0>>), Target(<<On("zve64x"), On("zvkg")>>, "", <<0, 0>>),
   Target(<<On("d"), On("zdinx")>>, "", <<0, 0>>), Target(<<On("e"), On("d")>>, "", <<0, 0>>),
   Target(<<On("d"), On("smrnmi")>>, "ilp32e", <<0, 0>>),
   Target(<<On("xqciint"), On("zvl256b")>>, "ilp32", <<1, 2>>),
   Target(<<On("e"), On("xsfmclic"), On("v"), Off("v"), Off("d")>>, "ilp32e", <<0, 4>>)}

Part(key, value) == [key |-> key, value |-> value, spaced |-> FALSE]
Blank(p) == [p EXCEPT !.spaced = TRUE]
\* The sequences of up to n parts.
Strings(parts, n) == UNION {[1 .. k -> parts] : k \in 1 .. n}
TargetParts ==
  {Part("arch+", <<On("zcb"), Off("zba")>>), Part("arch", {"v"}), Part("arch", {}),
   Part("cpu", "vector-cpu"), Part("cpu", "other-cpu"), Part("tune", "small-cpu"),
   Part("exts", <<On("smrnmi")>>)}
VersionParts ==
  {Part("arch+", <<On("v")>>), Part("arch+", <<On("zba"), On("zcb")>>),
   Part("arch+", <<On("smrnmi")>>), Part("arch+", <<On("v"), Off("zba")>>),
   Part("arch+", <<>>), Part("priority", 2), Blank(Part("priority", 1)),
   Part("priority", -1), Part("default", 0), Part("other", 0)}
CloneStrings ==
  {<<Part("arch+", <<On("v")>>), Part("priority", 1)>>,
   <<Part("priority", 2), Part("arch+", <<On("zba")>>)>>, <<Part("arch+", <<On("zcb")>>)>>,
   <<Part("arch+", <<On("v"), On("zcb")>>), Part("priority", 2)>>,
   <<Part("default", 0)>>, <<Part("arch+", <<On("smrnmi")>>)>>, <<Part("priority", 2)>>,
   <<Blank(Part("arch+", <<On("v")>>)), Blank(Part("priority", 1))>>}

Attr(kind, strings) == [kind |-> kind, strings |-> strings]
Function(attributes) == [plain |-> TRUE, attributes |-> attributes, calls |-> FALSE]
InterruptLists == {<<>>} \cup Strings(InterruptTypes, 2)
                    \cup {<<"machine">> \o s : s \in [1 .. 2 -> CLICTypes]}
                    \cup {<<"machine", "machine", "machine", "machine">>, <<"user">>}
SmrnmiTarget == Attr("target", <<<<Part("arch+", <<On("smrnmi"), On("xsfmclic")>>)>>>>)
NoExtension == Attr("target", <<<<Part("arch", {"zba"})>>>>)
Attributed ==
  {Function(<<Attr("target", <<s>>)>>) : s \in Strings(TargetParts, 3)}
    \cup {Function(<<Attr("target_version", <<s>>)>>) : s \in Strings(VersionParts, 3)}
    \cup {Function(<<Attr("target_clones", s)>>) : s \in Strings(CloneStrings, 3)}
    \cup {Function(<<Attr("interrupt", s)>>) : s \in InterruptLists}
    \cup {Function(<<SmrnmiTarget, Attr("interrupt", s)>>) : s \in InterruptLists}
    \cup {Function(<<Attr("interrupt", s), NoExtension>>) : s \in InterruptLists}
    \cup {Function(<<Attr("interrupt", s), Attr("interrupt", t)>>) :
            s, t \in {<<>>, <<"supervisor">>, <<"rnmi">>}}
    \cup {[Function(<<Attr("interrupt", <<>>)>>) EXCEPT !.plain = FALSE]}

-----------------------------------------------------------------------------
Call(op, args, types, result, requires) ==
  [op |-> op, suffix |-> "", rm |-> FALSE, emitter |-> "", args |-> args, types |-> types,
   result |-> result, requires |-> requires, builtin |-> <<>>]
Emitters == {"vleff", "vsse", "vsxei", "vse", "segload", "segstore", "segloadff", "stridedsegload",
             "stridedsegstore", "indexedsegload", "indexedsegstore", "vneg", "vnot", "vmmv", "vfneg",
             "vwcvt", "vncvt"}
Modes == {Const(-1), Const(0), Const(3), Const(4), Const(5), Runtime, Dependent}
FormCall(op, emitter, suffix, rm, mode) ==
  LET f == [emitter |-> emitter, suffix |-> suffix, rm |-> rm]
  IN [Call(op, [i \in DOMAIN Arguments(f) |-> IF Arguments(f)[i] = "rm" THEN mode ELSE Runtime],
           <<>>, Vector("int", 32, 2, 1), {"zve32x"})
        EXCEPT !.suffix = suffix, !.rm = rm, !.emitter = emitter]
FormCalls ==
  UNION {{FormCall("", e, s, FALSE, Runtime) : s \in SuffixesOf(e)} : e \in Emitters}
    \cup UNION {{FormCall(r[1], r[2], s, TRUE, m) : s \in SuffixesOf(r[2]), m \in Modes} :
                  r \in Rounders}
    \cup UNION {{FormCall("", e, s, FALSE, Runtime) : s \in SuffixesOf(e)} :
                  e \in {"funary", "fconv", "fbinary", "wfbinary", "reduction", "fma", "wfma"}}

Numbers(ns) == {Const(n) : n \in ns} \cup {Runtime, Dependent}
Edge == Numbers({-1, 0, 1, 2, 3, 4})
Immediate == Numbers({-17, -16, 1, 3, 4, 15, 16, 31, 32})
VCOps == {"vc_i_se", "vc_iv_se", "vc_v_i", "vc_v_iv", "vc_ivv", "vc_x_se", "vc_xv_se", "vc_v_x",
          "vc_xvv", "vc_v_xv", "vc_fv_se", "vc_fvv", "vc_v_fv"}
\* Arguments that are right but for one.
VCGood(op) == [i \in DOMAIN FieldsOf(op) |->
                 IF FieldsOf(op)[i] \in {"vs2", "vd", "xs1", "fs1"} THEN Runtime ELSE Const(1)]
VCCalls == UNION {UNION {{Call(op, [VCGood(op) EXCEPT ![i] = a], <<>>, <<>>, {}) : a \in Immediate} :
                           i \in DOMAIN FieldsOf(op)} : op \in VCOps}

IntV(bits, elts) == Vector("int", bits, elts, 1)
VSetCalls ==
  {Call("vsetvli", <<Runtime, s, l>>, <<>>, <<>>, {}) :
     s \in Numbers(-1 .. 4), l \in Numbers(-1 .. 8)}
    \cup {Call("vsetvlimax", <<s, l>>, <<>>, <<>>, {}) :
            s \in Numbers({0, 2, 3}), l \in Numbers({0, 5, 7})}
    \cup {Call("sf_vset", <<Runtime, s, l>>, <<>>, <<>>, {}) : s, l \in Edge}
TileCalls ==
  {Call(o[1], <<m, Runtime, Runtime>>, <<<<>>, IntV(o[2], 8)>>, <<>>, {}) :
     o \in {<<"sf_mm_w1", 32>>, <<"sf_mm_w1", 64>>, <<"sf_mm_w2", 16>>, <<"sf_mm_w2", 32>>,
            <<"sf_mm_w4", 8>>}, m \in Numbers(-1 .. 16)}
    \cup {Call("sf_vtzero", <<m, Runtime, Runtime, s, w>>, <<>>, <<>>, {}) :
            m \in Numbers(-1 .. 16), s \in Numbers(2 .. 7), w \in Numbers({0, 1, 2, 3, 4})}
Wholes == {<<IntV(32, 8), IntV(32, 2)>>, <<IntV(32, 8), IntV(32, 4)>>,
           <<Vector("int", 32, 2, 3), IntV(32, 2)>>, <<IntV(8, 64), IntV(8, 8)>>}
PartCalls ==
  {Call("vget", <<Runtime, i>>, <<w[1]>>, w[2], {}) : w \in Wholes, i \in Numbers(-1 .. 8)}
    \cup {Call("vset", <<Runtime, i, Runtime>>, <<w[1], <<>>, w[2]>>, w[1], {}) :
            w \in Wholes, i \in Numbers(-1 .. 8)}
Groups == {IntV(32, 1), IntV(32, 2), IntV(32, 4), IntV(32, 8)}
CryptoCalls ==
  {[Call(op, <<Runtime, Runtime, i, Runtime>>, <<t, u>>, t, {"zvkg"}) EXCEPT !.suffix = s] :
     op \in {"vaeskf2", "vaeskf1", "vsm4k"}, t, u \in Groups, i \in Numbers({0, 31, 32}),
     s \in {"tu"}}
    \cup {Call(op, <<Runtime, i, Runtime>>, <<t>>, t, {"zvkg"}) :
            op \in {"vaeskf1", "vsm4k"}, t \in Groups, i \in Numbers({0, 31, 32})}
    \cup {Call("vsm3c", <<Runtime, Runtime, i, Runtime>>, <<t, t>>, t, {"zvkg"}) :
            t \in Groups, i \in Numbers({0, 31, 32})}
    \cup {Call("vaes", <<Runtime, Runtime, Runtime>>, <<t, u>>, t, {}) : t, u \in Groups}
    \cup {Call("vsha2", <<Runtime, Runtime, Runtime, Runtime>>, <<t, t, t>>, t, {}) :
            t \in Groups \cup {IntV(64, 1), IntV(64, 4)}}
OtherCalls ==
  {Call("byteselect", <<Runtime, Runtime, i>>, <<>>, <<>>, {"zba"}) : i \in Edge}
    \cup {Call("aes64ks1i", <<Runtime, i>>, <<>>, <<>>, {}) : i \in Numbers({-1, 0, 10, 11})}
    \cup {Call("ntl_load", <<Runtime>> \o d, <<>>, "integer", {}) :
            d \in {<<>>, <<Runtime, Runtime>>} \cup {<<i>> : i \in Numbers(1 .. 6)}}
    \cup {Call("ntl_store", <<Runtime>> \o d, <<>>, "struct", {}) :
            d \in {<<Runtime>>, <<Runtime, Const(2)>>}}
    \cup {Call("ntl_store", <<Runtime>> \o d, <<>>, "vector", {}) :
            d \in {<<>>, <<Runtime>>} \cup {<<Runtime, i>> : i \in Numbers(1 .. 6)}}
    \cup {[Call(op, <<Runtime, Runtime, Runtime, Runtime>>, <<t>>, t, {}) EXCEPT !.suffix = "tu"] :
            op \in {"vmulh"}, t \in {IntV(64, 1), IntV(32, 2)}}
    \cup {Call("", <<Runtime>>, <<t>>, t, {}) :
            t \in {Vector("double", 64, 1, 1), Vector("half", 16, 4, 1), Vector("float", 32, 2, 1),
                   Vector("bfloat", 16, 4, 1), Vector("fp8", 8, 8, 1), IntV(32, 1)}}
    \cup {[Call("scalar", <<Runtime>>, <<>>, <<>>, {}) EXCEPT !.builtin = b] : b \in Scalars}
MCCalls == UNION {FormCalls, VCCalls, VSetCalls, TileCalls, PartCalls, CryptoCalls, OtherCalls}
\* The functions that call: no attribute, one that adds to the target, one that replaces it.
Callers ==
  {[Function(a) EXCEPT !.calls = TRUE] :
     a \in {<<>>, <<Attr("target", <<<<Part("arch+", <<On("zvl256b"), On("zve64x")>>)>>>>)>>,
            <<NoExtension>>}}
MCFunctions == Attributed \cup Callers
=============================================================================
