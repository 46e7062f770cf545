--------------------------- MODULE MCPluginManage ---------------------------
(* Small instances of PluginManage: the shared libraries of a folder.       *)
EXTENDS PluginManage

CONSTANTS decode, decodeCopy, net, future, broken, script,  \* files
          Decode, Net, Script,                              \* identifiers
          STI, Codec                                        \* provider types

Content(id, type, version) ==
  [id |-> id, type |-> type, version |-> version, complete |-> TRUE, macro |-> TRUE,
   throws |-> FALSE]

MCPlugin ==
  [p \in Paths |->
     CASE p = decode     -> [Content(Decode, STI, 2) EXCEPT !.throws = TRUE]
       [] p = decodeCopy -> Content(Decode, STI, 1)   \* same identifier
       [] p = net        -> Content(Net, Codec, 1)    \* type not yet registered
       [] p = future     -> Content(Net, STI, 3)      \* newer than the host
       [] p = broken     -> [Content(Net, STI, 2) EXCEPT !.complete = FALSE]
       [] p = script     -> [Content(Script, STI, 2)
                             EXCEPT !.macro = FALSE, !.throws = TRUE]]

MCPreRegistered == [type |-> STI, range |-> [lowest |-> 1, current |-> 2]]
MCVersions == {MCPreRegistered.range, [lowest |-> 2, current |-> 3]}
=============================================================================
