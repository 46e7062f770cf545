---------------------------- MODULE PluginManage ----------------------------
(***************************************************************************)
(* The plugin core: plugin::Manage (core/manage.cc), core::Host            *)
(* (core/host.cc, host.h), core::Library (core/library.cc) and             *)
(* core::loadPlugin (core/util.cc), with the code of the plugins they call *)
(* back.                                                                   *)
(*                                                                         *)
(* loadPlugin() calls importPlugin() of the shared library in the middle   *)
(* of its work, and that code calls Manage back, so a load is three steps: *)
(* up to the call, the calls of the plugin, and what follows its return.   *)
(* A plugin either uses PGINF_CONNECTOR_CREATE (one importProvider() under *)
(* its own identifier, whose result it returns) or is written by hand: it  *)
(* may import any number of times, load other plugins, and succeed or      *)
(* "decide to fail" as it likes.                                           *)
(*                                                                         *)
(* Providers are C++ objects whose code is in a shared library; the macro  *)
(* hands them over with a deleter that does nothing (NotFree), and Host    *)
(* makes itself the owner when it confirms them.                           *)
(***************************************************************************)
EXTENDS Integers, Sequences, FiniteSets

CONSTANTS
  Paths,          \* shared libraries
  Plugin,         \* what is in each one: see PluginAssumption
  Ids, Types,     \* plugin identifiers, provider types
  Versions,       \* the version ranges that types are registered with
  PreRegistered,  \* what the constructor of Manage registers: a type, a range
  Objects,        \* addresses of provider objects (bounds how many there are)
  CountModulus,   \* plugin_cnt_ is unsigned: 2^32, smaller in the checks
  MaxDepth,       \* bounds how deep loadPlugin() is called from a plugin
  MaxLeaks,       \* bounds how often getId() of one library throws
  None

ASSUME PluginAssumption ==
  /\ Plugin \in [Paths -> [id : Ids, type : Types, version : Nat,
                           complete : BOOLEAN,    \* getId and importPlugin exist
                           macro : BOOLEAN,       \* PGINF_CONNECTOR_CREATE
                           throws : BOOLEAN]]     \* getId exists and may throw
  /\ \A v \in Versions : v.lowest \in Nat /\ v.current \in Nat
  /\ PreRegistered \in [type : Types, range : Versions]
  /\ None \notin Paths \cup Ids \cup Types \cup Versions
  /\ None \notin [type : Types, library : Paths \cup {None}]
  /\ IsFiniteSet(Ids)
  /\ CountModulus \in Nat \ {0}
  /\ MaxDepth \in Nat \ {0}
  /\ MaxLeaks \in Nat

VARIABLES
  registered,   \* known_type_providers_: the versions accepted of each type
  hosted,       \* known_type_providers_[type].providers_: what Host owns
  requests,     \* request_for_addition_
  info,         \* libraries_info_: type and library_ of each identifier
  count,        \* plugin_cnt_
  handles,      \* how often each shared library is open (dlopen counts)
  stack,        \* the calls of loadPlugin() that wait for importPlugin()
  objects,      \* for each address, the library whose provider is there
  held,         \* providers that the client has locked
  crashed,      \* a provider's destructor ran after its library was unmapped
  leaked        \* history: the dlopens of each library that nobody can close

vars == <<registered, hosted, requests, info, count, handles, stack, objects,
          held, crashed, leaked>>

Init ==
  /\ registered = [t \in Types |-> IF t = PreRegistered.type
                                   THEN PreRegistered.range ELSE None]
  /\ hosted = {}
  /\ requests = <<>>
  /\ info = [id \in Ids |-> None]
  /\ count = 0
  /\ handles = [p \in Paths |-> 0]
  /\ stack = <<>>
  /\ objects = [o \in Objects |-> None]
  /\ held = {}
  /\ crashed = FALSE
  /\ leaked = [p \in Paths |-> 0]
-----------------------------------------------------------------------------
Open(h, p)  == [h EXCEPT ![p] = @ + 1]
Close(h, p) == IF p = None THEN h ELSE [h EXCEPT ![p] = @ - 1]

(* The owner of the providers os drops them while the libraries h are open: *)
(* the ones that nobody else holds are destroyed, by code of their library. *)
Drop(os, h) ==
  /\ objects' = [o \in Objects |-> IF o \in os \ held THEN None ELSE objects[o]]
  /\ crashed' = (crashed \/ \E o \in os \ held : h[objects[o]] = 0)

Compatible(p) ==
  LET v == registered[Plugin[p].type]
  IN  v # None /\ v.lowest <= Plugin[p].version /\ Plugin[p].version <= v.current

Idle    == stack = <<>>
Frame   == stack[Len(stack)]
Pop     == SubSeq(stack, 1, Len(stack) - 1)
Key(r)  == <<r.type, r.id>>
-----------------------------------------------------------------------------
(* Manage::loadPlugin() up to the call of importPlugin(): dlopen, getId. *)

MayLoad == ~Idle => ~Plugin[Frame.path].macro /\ Len(stack) < MaxDepth

(* Defect: the early return for a missing symbol does not close the library. *)
LoadIncomplete_Open(p) ==
  /\ MayLoad
  /\ ~Plugin[p].complete
  /\ handles' = Open(handles, p)
  /\ UNCHANGED <<registered, hosted, requests, info, count, stack, objects,
                 held, crashed, leaked>>

(* Defect: it closes the library, and so does the destructor of Library. *)
LoadIncomplete_CloseTwice(p) ==
  /\ MayLoad
  /\ ~Plugin[p].complete
  /\ handles' = Close(Close(Open(handles, p), p), p)
  /\ UNCHANGED <<registered, hosted, requests, info, count, stack, objects,
                 held, crashed, leaked>>

LoadIncomplete(p) ==     \* getId or importPlugin is missing: closed again
  /\ MayLoad
  /\ ~Plugin[p].complete
  /\ handles' = Close(Open(handles, p), p)
  /\ UNCHANGED <<registered, hosted, requests, info, count, stack, objects,
                 held, crashed, leaked>>

(* getId(), or the Library made from it, throws: load() catches that and     *)
(* returns without a dlclose, and the handle is lost.                        *)
LoadThrows(p) ==
  /\ MayLoad
  /\ Plugin[p].throws
  /\ leaked[p] < MaxLeaks
  /\ handles' = Open(handles, p)
  /\ leaked' = [leaked EXCEPT ![p] = @ + 1]
  /\ UNCHANGED <<registered, hosted, requests, info, count, stack, objects,
                 held, crashed>>

BeginLoad(p) ==
  /\ MayLoad
  /\ Plugin[p].complete
  /\ \E o \in Objects : objects[o] = None    \* the bound on Objects
  /\ handles' = Open(handles, p)
  /\ stack' = Append(stack, [path |-> p, called |-> FALSE, result |-> FALSE])
  /\ UNCHANGED <<registered, hosted, requests, info, count, objects, held,
                 crashed, leaked>>
-----------------------------------------------------------------------------
(* Manage::importProvider(), called by the plugin on top of the stack with a *)
(* provider made at the address o.                                          *)

MayImport(o) ==
  /\ ~Idle
  /\ Plugin[Frame.path].macro => ~Frame.called
  /\ objects[o] = None

Imported(result) ==
  stack' = [stack EXCEPT ![Len(stack)].called = TRUE, ![Len(stack)].result = result]

ImportRejected(o) ==   \* already loaded: nobody owns o; incompatible: Host deletes it
  /\ MayImport(o)
  /\ info[Plugin[Frame.path].id] # None \/ ~Compatible(Frame.path)
  /\ Imported(FALSE)
  /\ UNCHANGED <<registered, hosted, requests, info, count, handles, objects,
                 held, crashed, leaked>>

(* Defect: the first importProvider() of a load is not checked for its id. *)
ImportAccepted_Twice(o) ==
  /\ MayImport(o)
  /\ Compatible(Frame.path)
  /\ LET p == Plugin[Frame.path] IN
       /\ requests' = Append(requests, [id |-> p.id, type |-> p.type, object |-> o])
       /\ info' = IF info[p.id] = None
                  THEN [info EXCEPT ![p.id] = [type |-> p.type, library |-> None]]
                  ELSE info
  /\ objects' = [objects EXCEPT ![o] = Frame.path]
  /\ Imported(TRUE)
  /\ UNCHANGED <<registered, hosted, count, handles, held, crashed, leaked>>

ImportAccepted(o) ==
  /\ MayImport(o)
  /\ info[Plugin[Frame.path].id] = None /\ Compatible(Frame.path)
  /\ LET p == Plugin[Frame.path] IN
       /\ requests' = Append(requests, [id |-> p.id, type |-> p.type, object |-> o])
       /\ info' = [info EXCEPT ![p.id] = [type |-> p.type, library |-> None]]
  /\ objects' = [objects EXCEPT ![o] = Frame.path]
  /\ Imported(TRUE)
  /\ UNCHANGED <<registered, hosted, count, handles, held, crashed, leaked>>
-----------------------------------------------------------------------------
(* importPlugin() returns ok, and Manage::loadPlugin() goes on. *)

MayReturn(ok) ==
  /\ ~Idle
  /\ Plugin[Frame.path].macro => Frame.called /\ ok = Frame.result

LoadFails(ok) ==       \* the plugin decided to fail, or nothing was registered
  /\ MayReturn(ok)
  /\ ok => info[Plugin[Frame.path].id] # None /\ requests = <<>>
  /\ handles' = Close(handles, Frame.path)
  /\ stack' = Pop
  /\ UNCHANGED <<registered, hosted, requests, info, count, objects, held,
                 crashed, leaked>>

(* importPlugin() throws, with the macro because its provider cannot be made. *)
(* Nothing catches it before the caller of loadPlugin(), and the Library is   *)
(* destroyed on the way.                                                      *)
ImportThrows ==
  /\ ~Idle
  /\ Plugin[Frame.path].macro => ~Frame.called
  /\ handles' = Close(handles, Frame.path)
  /\ stack' = Pop
  /\ UNCHANGED <<registered, hosted, requests, info, count, objects, held,
                 crashed, leaked>>

LoadCancels ==         \* importPlugin() is TRUE, and the identifier is unknown
  /\ MayReturn(TRUE)
  /\ info[Plugin[Frame.path].id] = None
  /\ requests' = <<>>  \* the deleter does nothing: the objects stay for ever
  /\ objects' = [o \in Objects |->
       IF \E i \in 1 .. Len(requests) : requests[i].object = o THEN None
                                                               ELSE objects[o]]
  /\ handles' = Close(handles, Frame.path)
  /\ stack' = Pop
  /\ UNCHANGED <<registered, hosted, info, count, held, crashed, leaked>>

(* confirmAddictions() takes every request; std::map::insert ignores one    *)
(* whose key is there, and the temporary owner destroys that provider.      *)
Confirmed ==
  {i \in 1 .. Len(requests) :
     /\ \A h \in hosted : Key(h) # Key(requests[i])
     /\ \A j \in 1 .. i - 1 : Key(requests[j]) # Key(requests[i])}

LoadSucceeds ==
  /\ MayReturn(TRUE)
  /\ LET id  == Plugin[Frame.path].id
         all == 1 .. Len(requests)
     IN  /\ info[id] # None
         /\ requests # <<>>
         /\ hosted' = hosted \cup {requests[i] : i \in Confirmed}
         /\ Drop({requests[i].object : i \in all \ Confirmed}, handles)
         /\ handles' = Close(handles, info[id].library)
         /\ info' = [info EXCEPT ![id].library = Frame.path]
  /\ requests' = <<>>
  /\ count' = (count + 1) % CountModulus
  /\ stack' = Pop
  /\ UNCHANGED <<registered, held, leaked>>
-----------------------------------------------------------------------------
(* The client, between its calls of loadPlugin().  It locks a provider, uses *)
(* it and lets it go before it unloads (as plugin_test/main.cc does).        *)

(* Defect: the entry, and with it the library, goes before the provider. *)
Unload_LibraryFirst(id) ==
  /\ Idle /\ held = {}
  /\ info[id] # None
  /\ LET gone == {h \in hosted : Key(h) = <<info[id].type, id>>} IN
       /\ hosted' = hosted \ gone
       /\ Drop({h.object : h \in gone}, Close(handles, info[id].library))
  /\ handles' = Close(handles, info[id].library)
  /\ info' = [info EXCEPT ![id] = None]
  /\ count' = (count - 1) % CountModulus
  /\ UNCHANGED <<registered, requests, stack, held, leaked>>

Unload(id) ==
  /\ Idle /\ held = {}
  /\ info[id] # None
  /\ LET gone == {h \in hosted : Key(h) = <<info[id].type, id>>} IN
       /\ hosted' = hosted \ gone
       /\ Drop({h.object : h \in gone}, handles)
  /\ handles' = Close(handles, info[id].library)
  /\ info' = [info EXCEPT ![id] = None]
  /\ count' = (count - 1) % CountModulus
  /\ UNCHANGED <<registered, requests, stack, held, leaked>>

UnloadAll ==
  /\ Idle /\ held = {}
  /\ hosted' = {}
  /\ Drop({h.object : h \in hosted}, handles)
  /\ handles' = [p \in Paths |->
       handles[p] - Cardinality({id \in Ids : info[id] # None /\ info[id].library = p})]
  /\ info' = [id \in Ids |-> None]
  /\ count' = 0
  /\ UNCHANGED <<registered, requests, stack, held, leaked>>

(* ~Manage(): the requests that failed loads left behind are forgotten (the  *)
(* deleter does nothing), then everything is unloaded.  A program that goes  *)
(* on makes a new Manage.                                                    *)
Destroy ==
  /\ Idle /\ held = {}
  /\ requests' = <<>> /\ hosted' = {} /\ count' = 0
  /\ objects' = [o \in Objects |-> None]
  /\ crashed' = (crashed \/ \E h \in hosted : handles[objects[h.object]] = 0)
  /\ handles' = [p \in Paths |->
       handles[p] - Cardinality({id \in Ids : info[id] # None /\ info[id].library = p})]
  /\ info' = [id \in Ids |-> None]
  /\ registered' = [t \in Types |-> IF t = PreRegistered.type
                                    THEN PreRegistered.range ELSE None]
  /\ UNCHANGED <<stack, held, leaked>>

(* Defect: a second registration replaces the versions of the first. *)
RegisterType_Again(t, v) ==
  /\ Idle
  /\ registered' = [registered EXCEPT ![t] = v]
  /\ UNCHANGED <<hosted, requests, info, count, handles, stack, objects, held,
                 crashed, leaked>>

RegisterType(t, v) ==    \* a type that is registered keeps its versions
  /\ Idle
  /\ registered[t] = None
  /\ registered' = [registered EXCEPT ![t] = v]
  /\ UNCHANGED <<hosted, requests, info, count, handles, stack, objects, held,
                 crashed, leaked>>

Lock(h) ==               \* getProviders() and weak_ptr::lock()
  /\ Idle
  /\ held' = held \cup {h.object}
  /\ UNCHANGED <<registered, hosted, requests, info, count, handles, stack,
                 objects, crashed, leaked>>

Release(o) ==
  /\ Idle
  /\ o \in held
  /\ held' = held \ {o}
  /\ UNCHANGED <<registered, hosted, requests, info, count, handles, stack,
                 objects, crashed, leaked>>
-----------------------------------------------------------------------------
Next ==
  \/ \E p \in Paths : LoadIncomplete(p) \/ LoadThrows(p) \/ BeginLoad(p)
  \/ \E o \in Objects : ImportRejected(o) \/ ImportAccepted(o)
  \/ \E ok \in BOOLEAN : LoadFails(ok)
  \/ ImportThrows
  \/ LoadCancels
  \/ LoadSucceeds
  \/ \E id \in Ids : Unload(id)
  \/ UnloadAll \/ Destroy
  \/ \E t \in Types, v \in Versions : RegisterType(t, v)
  \/ \E h \in hosted : Lock(h)
  \/ \E o \in Objects : Release(o)

Spec == Init /\ [][Next]_vars
-----------------------------------------------------------------------------
TypeOK ==
  /\ registered \in [Types -> Versions \cup {None}]
  /\ hosted \subseteq [id : Ids, type : Types, object : Objects]
  /\ requests \in Seq([id : Ids, type : Types, object : Objects])
  /\ info \in [Ids -> [type : Types, library : Paths \cup {None}] \cup {None}]
  /\ count \in 0 .. CountModulus - 1
  /\ handles \in [Paths -> Nat]
  /\ stack \in Seq([path : Paths, called : BOOLEAN, result : BOOLEAN])
  /\ objects \in [Objects -> Paths \cup {None}]
  /\ held \subseteq Objects
  /\ crashed \in BOOLEAN
  /\ leaked \in [Paths -> 0 .. MaxLeaks]

(* Every library is open exactly as often as a plugin that is loaded from   *)
(* it, or a call of loadPlugin() under way, needs it, and once more for     *)
(* each load whose getId() threw (library.cc:88-90).  No other dlopen is    *)
(* left without its dlclose and none is closed twice, whatever the plugins  *)
(* import, load in turn, return or throw.                                   *)
HandlesBalanced ==
  \A p \in Paths :
    handles[p] = Cardinality({id \in Ids : info[id] # None /\ info[id].library = p})
                   + Cardinality({i \in 1 .. Len(stack) : stack[i].path = p})
                   + leaked[p]

(* What isCompatible() decided when a provider was offered still holds for  *)
(* every provider that Host owns, however much later it was confirmed.      *)
HostedCompatible ==
  \A h \in hosted : objects[h.object] # None /\ Compatible(objects[h.object])

(* Host owns each provider once, the library that holds its code is mapped  *)
(* for as long, and no destructor has run without its code.                 *)
ProvidersMapped ==
  LET owned == hosted \cup {requests[i] : i \in 1 .. Len(requests)} IN
  /\ ~crashed
  /\ \A h \in owned : objects[h.object] # None /\ handles[objects[h.object]] > 0
  /\ \A g, h \in owned : g.object = h.object => g = h

(* For plugins that use the macro, loading and unloading are atomic for the *)
(* client: PluginRegistry, with libraries_info_ split into what is loaded.  *)
Loaded  == [id \in Ids |-> IF info[id] = None THEN None ELSE info[id].library]
Visible == {Key(h) : h \in hosted}

Registry == INSTANCE PluginRegistry WITH loaded <- Loaded, visible <- Visible
ImplementsRegistry == Registry!Spec

(* manage.h:74, isLoaded(): "True if the plug-in is successfully loaded."   *)
(* The library is stored by the one path of loadPlugin() that returns true. *)
IsLoaded(id) == info[id] # None
IsLoadedMeansLoaded == Idle => \A id \in Ids : IsLoaded(id) => Loaded[id] # None
=============================================================================
