--------------------------- MODULE PluginRegistry ---------------------------
(***************************************************************************)
(* What pginf::plugin::Manage promises to a client that loads plugins:     *)
(* loading and unloading are atomic.  A plugin is loaded, counted and its  *)
(* provider visible, or none of the three; a load that fails leaves no     *)
(* trace; an identifier stands for one plugin at a time.                   *)
(*                                                                         *)
(* PluginManage.tla implements this specification for plugins that use the *)
(* connector macro of plugin/interface.h.                                  *)
(***************************************************************************)
EXTENDS Integers, FiniteSets

CONSTANTS Paths, Ids, Types, Versions, None,
          Plugin        \* what each shared library contains, see PluginManage

VARIABLES registered,   \* the accepted versions of each provider type
          loaded,       \* for each identifier, the library loaded, or None
          visible,      \* the <<type, identifier>> of the providers on offer
          count         \* how many plugins are loaded

vars == <<registered, loaded, visible, count>>

Init == /\ registered \in [Types -> Versions \cup {None}]
        /\ loaded = [id \in Ids |-> None]
        /\ visible = {}
        /\ count = 0

Register(t, v) == /\ registered[t] = None
                  /\ registered' = [registered EXCEPT ![t] = v]
                  /\ UNCHANGED <<loaded, visible, count>>

Accepts(p) == LET v == registered[Plugin[p].type]
              IN  v # None /\ Plugin[p].version \in v.lowest .. v.current

Load(p) == /\ loaded[Plugin[p].id] = None
           /\ Accepts(p)
           /\ loaded' = [loaded EXCEPT ![Plugin[p].id] = p]
           /\ visible' = visible \cup {<<Plugin[p].type, Plugin[p].id>>}
           /\ count' = count + 1
           /\ UNCHANGED registered

Unload(id) == /\ loaded[id] # None
              /\ loaded' = [loaded EXCEPT ![id] = None]
              /\ visible' = visible \ {<<Plugin[loaded[id]].type, id>>}
              /\ count' = count - 1
              /\ UNCHANGED registered

UnloadAll == /\ loaded' = [id \in Ids |-> None]
             /\ visible' = {}
             /\ count' = 0
             /\ UNCHANGED registered

(* The registry is given up and a new one takes its place. *)
Renew == Init'

Next == \/ \E t \in Types, v \in Versions : Register(t, v)
        \/ \E p \in Paths : Load(p)
        \/ \E id \in Ids : Unload(id)
        \/ UnloadAll
        \/ Renew

Spec == Init /\ [][Next]_vars
=============================================================================
