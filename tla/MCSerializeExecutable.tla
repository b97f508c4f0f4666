------------------------ MODULE MCSerializeExecutable ------------------------
(***************************************************************************)
(* Targets, variants and libraries for model checking SerializeExecutable.  *)
(***************************************************************************)
EXTENDS SerializeExecutable

Targets ==
  {t \in [static : BOOLEAN, embedded : BOOLEAN, objectFormat : ObjectFormats,
          debugSymbols : BOOLEAN, ukernel : BOOLEAN] :
     (t.embedded \/ t.static) => t.objectFormat = "ELF" /\ ~t.debugSymbols}

MCContents == {"a", "b"}
Object(content, inline, found) == [content |-> content, inline |-> inline, found |-> found]

\* Two dispatches, a helper, and one that every call of has been inlined; the export "external_dispatch" has no function.
Variant(t, objects, dump) ==
  [target |-> t, functions |-> {"dispatch0", "dispatch1", "helper", "inlined"},
   private |-> {"helper", "inlined"},
   exports |-> {"dispatch0", "external_dispatch", "dispatch1"},
   bitcode |-> {"user_scale", "user_unused"}, objects |-> objects, dump |-> dump]

MCCalls ==
  [f \in {"dispatch0", "dispatch1", "helper", "user_scale", "user_unused", "cmd_hook",
          "libdevice_f32_to_bf16", "memcpy", "fmodf", "floorf", "uk_mmt4d", "uk_mmt4d_tile"} |->
     CASE f = "dispatch0" -> {"helper", "user_scale", "uk_mmt4d"}
       [] f = "user_scale" -> {"libdevice_f32_to_bf16"}
       [] f = "uk_mmt4d" -> {"uk_mmt4d_tile"}
       [] f = "fmodf" -> {"floorf"}
       [] OTHER -> {}]
MCPassCalls == [f \in {"dispatch1", "user_scale"} |-> {"fmodf"}]
MCCodegenCalls == [f \in {"dispatch0", "uk_mmt4d_tile"} |-> {"memcpy"}]

MCCmdline == {"cmd_hook"}
MCLibdevice == {"libdevice_f32_to_bf16"}
MCMusl == {"memcpy", "fmodf", "floorf"}
MCUkernel == {"uk_mmt4d", "uk_mmt4d_tile", "uk_unpack"}

FilesOnly == {<<>>, <<Object("a", FALSE, TRUE)>>, <<Object("a", FALSE, TRUE), Object("b", FALSE, FALSE)>>}
MCVariants == {Variant(t, objects, dump) : t \in Targets, objects \in FilesOnly, dump \in BOOLEAN}
MCInline == {Variant(t, <<Object("a", TRUE, FALSE)>>, FALSE) : t \in Targets}
=============================================================================
