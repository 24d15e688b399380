------------------------------ MODULE PluginHost ------------------------------
(***************************************************************************)
(* Plugins in shared libraries: load_plugins(), install() and the classes  *)
(* Instance and DynamicModel (src/plugin_loader.cpp), and the registry of  *)
(* src/plugins.cpp they put themselves into.                               *)
(*                                                                         *)
(* A library is closed when its last shared_ptr is gone: load_plugins()    *)
(* has one while it works, the map of libraries, the registered factory,   *)
(* and each instance.  The instance of a layout or recognition plugin      *)
(* belongs to its registered adapter, the others to the model pools.       *)
(*                                                                         *)
(* An operator Buggy... is its neighbour with a plausible mistake, and is  *)
(* not used (see README.md).                                               *)
(***************************************************************************)
EXTENDS Integers, FiniteSets

CONSTANTS
  Libraries,               \* files
  PluginIds,               \* names that plugins give themselves
  Instances,               \* bound of the instances made
  MaxPluginCalls           \* bound of the calls of plugins

\* The holders of a library differ from each other.
ASSUME PluginAssumption ==
  "none" \notin Libraries /\ Instances \cap {"loader", "registry", "map"} = {}

Plugins == [id : PluginIds, kind : {"backend", "layout", "recognition"}, sound : BOOLEAN]

\* Each kind has a map of its own, with names that are there from the start.
BuiltIn ==
  [backend |-> {"vllm", "http_json", "onnx", "acl", "mock"},
   layout |-> {"paddle", "normalized", "mineru", "paddle.doclayout_v3.http"},
   recognition |-> {"text", "table", "vlm.ovisocr2", "vlm.generic", "ctc", "table.otsl"}]

VARIABLES
  plugin,                  \* what each library exports
  opened,                  \* libraries between dlopen() and dlclose()
  holders,                 \* who has a shared_ptr to a library
  loading, loadStage,      \* of the thread in load_plugins(), which has library_mutex
  registered,              \* libraries with an entry in the registry
  owner,                   \* of an instance: "none", "loader", "registry", "model", "gone"
  home,                    \* its library
  answer,                  \* of an instance: the buffers its plugin's answer is in
  freed,                   \* how often each of those has been released
  calls,
  exiting                  \* main() has returned

loader == <<loading, loadStage, registered>>
instances == <<owner, home>>
calls_ == <<answer, freed, calls>>
pluginVars == <<plugin, opened, holders, loader, instances, calls_, exiting>>

NoCall == [output |-> -1, error |-> -1]

PluginInit ==
  /\ plugin \in [Libraries -> Plugins]
  /\ opened = {} /\ holders = [l \in Libraries |-> {}]
  /\ loading = "none" /\ loadStage = "none" /\ registered = {}
  /\ owner = [i \in Instances |-> "none"] /\ home = [i \in Instances |-> "none"]
  /\ answer = [i \in Instances |-> NoCall]
  /\ freed = [i \in Instances |-> <<0, 0>>] /\ calls = 0
  /\ exiting = FALSE

\* Holders come and go; the last to go closes the library.
Holds(l, gone, new) ==
  /\ holders' = [holders EXCEPT ![l] = (@ \ gone) \cup new]
  /\ opened' = IF holders'[l] = {} THEN opened \ {l} ELSE opened \cup {l}

Buffers(a) == {a.output, a.error} \ {0}
\* The name of p is in the map of its kind; another kind may have it.
Taken(p) ==
  \/ p.id \in BuiltIn[p.kind]
  \/ \E l \in registered : plugin[l].kind = p.kind /\ plugin[l].id = p.id
\* The instance of an adapter is the registry's, those of a backend are the models'.
Adapter(l) == plugin[l].kind # "backend"
Live == {i \in Instances : owner[i] \notin {"none", "gone"}}

-----------------------------------------------------------------------------
(* load_plugins()                                                          *)

\* Nothing changes where the library has been loaded before, or dlopen() refuses it.
LoadLibrary(l) ==
  /\ ~exiting /\ loading = "none" /\ "map" \notin holders[l]
  /\ loading' = l /\ loadStage' = "opened"
  /\ Holds(l, {}, {"loader"})
  /\ UNCHANGED <<plugin, registered, instances, calls_, exiting>>

\* An exception: the thread's pointer goes, and what install() has made before it.
BuggyFails(l, made) ==
  /\ Holds(l, {"loader"} \cup made, {})
  /\ UNCHANGED owner
Fails(l, made) ==
  /\ Holds(l, {"loader"} \cup made, {})
  /\ owner' = [i \in Instances |-> IF i \in made THEN "gone" ELSE owner[i]]

LoadFails ==
  /\ loadStage \in {"opened", "created"}
  /\ \/ loadStage = "opened"                         \* not the plugin that was declared
     \/ Taken(plugin[loading])                       \* put() refuses the name
  /\ Fails(loading, {i \in Instances : owner[i] = "loader"})
  /\ loading' = "none" /\ loadStage' = "none"
  /\ UNCHANGED <<plugin, registered, home, calls_, exiting>>

\* install() makes the instance of an adapter before it registers the adapter.
InstallCreates(i) ==
  /\ loadStage = "opened" /\ plugin[loading].sound /\ Adapter(loading)
  /\ owner[i] = "none" /\ loadStage' = "created"
  /\ owner' = [owner EXCEPT ![i] = "loader"] /\ home' = [home EXCEPT ![i] = loading]
  /\ Holds(loading, {}, {i})
  /\ UNCHANGED <<plugin, loading, registered, calls_, exiting>>

Register ==
  /\ loading # "none"
  /\ loadStage = IF Adapter(loading) THEN "created" ELSE "opened"
  /\ plugin[loading].sound /\ ~Taken(plugin[loading])
  /\ registered' = registered \cup {loading} /\ loadStage' = "installed"
  /\ owner' = [i \in Instances |-> IF owner[i] = "loader" THEN "registry" ELSE owner[i]]
  /\ Holds(loading, {}, IF Adapter(loading) THEN {} ELSE {"registry"})
  /\ UNCHANGED <<plugin, loading, home, calls_, exiting>>

Emplace ==
  /\ loadStage = "installed"
  /\ Holds(loading, {"loader"}, {"map"})
  /\ loading' = "none" /\ loadStage' = "none"
  /\ UNCHANGED <<plugin, registered, instances, calls_, exiting>>

-----------------------------------------------------------------------------
(* Models, calls and the end of the program.                               *)

\* The registered factory makes an instance; without one if create() fails.
CreateModel(l, i) ==
  /\ ~exiting /\ l \in registered /\ ~Adapter(l) /\ owner[i] = "none"
  /\ owner' = [owner EXCEPT ![i] = "model"] /\ home' = [home EXCEPT ![i] = l]
  /\ Holds(l, {}, {i})
  /\ UNCHANGED <<plugin, loader, calls_, exiting>>

\* The plugin's execute(), one at a time on an instance.  Whether it succeeds or not, it
\* has set one pointer, both, both to the same buffer, or none (0).
Execute(i) ==
  /\ ~exiting /\ calls < MaxPluginCalls
  /\ owner[i] \in {"registry", "model"} /\ answer[i] = NoCall
  /\ \E o \in {0, 1}, e \in {0, 1, 2} :
       answer' = [answer EXCEPT ![i] = [output |-> o, error |-> e]]
  /\ calls' = calls + 1
  /\ UNCHANGED <<plugin, opened, holders, loader, instances, freed, exiting>>

\* Whatever becomes of the answer, its buffers are released when execute() is left.
BuggyReleased(a) == <<a.output, a.error>>
Released(a) == IF a.error = a.output THEN <<a.output>> ELSE <<a.output, a.error>>
Release(i) ==
  /\ answer[i] # NoCall /\ freed[i] = <<0, 0>> /\ Buffers(answer[i]) # {}
  /\ freed' = [freed EXCEPT ![i] =
       [b \in 1 .. 2 |-> Cardinality({k \in DOMAIN Released(answer[i]) : Released(answer[i])[k] = b})]]
  /\ UNCHANGED <<plugin, opened, holders, loader, instances, answer, calls, exiting>>
CallEnds(i) ==
  /\ answer[i] # NoCall /\ (freed[i] # <<0, 0>> \/ Buffers(answer[i]) = {})
  /\ answer' = [answer EXCEPT ![i] = NoCall] /\ freed' = [freed EXCEPT ![i] = <<0, 0>>]
  /\ UNCHANGED <<plugin, opened, holders, loader, instances, calls, exiting>>

\* A pool is destroyed, when none of its instances is leased.
DestroyModel(i) ==
  /\ owner[i] = "model" /\ answer[i] = NoCall
  /\ owner' = [owner EXCEPT ![i] = "gone"]
  /\ Holds(home[i], {i}, {})
  /\ UNCHANGED <<plugin, loader, home, calls_, exiting>>

MainReturns ==
  /\ ~exiting /\ loading = "none"
  /\ \A i \in Instances : owner[i] # "model" /\ answer[i] = NoCall
  /\ exiting' = TRUE
  /\ UNCHANGED <<plugin, opened, holders, loader, instances, calls_>>

\* The static registry and the static map are destroyed, in one order or the other.
RegistryEnds ==
  /\ exiting
  /\ LET of(l) == {i \in Instances : owner[i] = "registry" /\ home[i] = l} IN
       /\ holders' = [l \in Libraries |-> holders[l] \ ({"registry"} \cup of(l))]
       /\ owner' = [i \in Instances |-> IF owner[i] = "registry" THEN "gone" ELSE owner[i]]
  /\ opened' = {l \in opened : holders'[l] # {}} /\ registered' = {}
  /\ UNCHANGED <<plugin, loading, loadStage, home, calls_, exiting>>
MapEnds ==
  /\ exiting
  /\ holders' = [l \in Libraries |-> holders[l] \ {"map"}]
  /\ opened' = {l \in opened : holders'[l] # {}}
  /\ UNCHANGED <<plugin, loader, instances, calls_, exiting>>

PluginNext ==
  \/ \E l \in Libraries : LoadLibrary(l)
  \/ LoadFails \/ Register \/ Emplace
  \/ \E i \in Instances :
       InstallCreates(i) \/ Execute(i) \/ Release(i) \/ CallEnds(i) \/ DestroyModel(i)
  \/ \E l \in Libraries, i \in Instances : CreateModel(l, i)
  \/ MainReturns \/ RegistryEnds \/ MapEnds

-----------------------------------------------------------------------------

\* No code of a plugin that can still be called is gone: the library of every instance
\* and of every name in the registry is open.  A plugin that was refused leaves neither
\* a library nor an instance, nor does the program when it ends, and each buffer a call
\* returned is given back once.
PluginsStayLoaded ==
  /\ \A i \in Live : home[i] \in opened
  /\ registered \subseteq opened
  /\ loadStage = "none" =>
       /\ \A i \in Instances : owner[i] # "loader"
       /\ ~exiting => opened = registered
  /\ exiting /\ registered = {} /\ (\A l \in Libraries : "map" \notin holders[l]) =>
       opened = {} /\ Live = {}
  /\ \A i \in Instances : freed[i] # <<0, 0>> =>
       \A b \in 1 .. 2 : freed[i][b] = IF b \in Buffers(answer[i]) THEN 1 ELSE 0
=============================================================================
