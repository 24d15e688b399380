---------------------------- MODULE BackendProofs ----------------------------
(***************************************************************************)
(* Proofs about what executes models, and about the tools that read        *)
(* documents.  PluginHost: for any number of libraries, instances and      *)
(* calls, nothing of a plugin is reachable when its library is closed, and *)
(* nothing stays open that should not.  AclStream: for any number of       *)
(* inputs, outputs and places, the calls of one instance do not mix.       *)
(* InputSize: for any image and any limits, the model gets an image of a   *)
(* size that it can take, if there is one.                                 *)
(* DocumentReader: whatever the sizes of the pipe and of the output that   *)
(* is kept, and whatever the tools do, none of their processes is left     *)
(* behind, and what is handed on are the document's pages in their order,  *)
(* read from the files and the output that were made for them.  CsvRows:   *)
(* of any text, the rows and cells are written that it consists of, and a  *)
(* text is refused only if one of its cells is none.  TableOtsl: a text is *)
(* accepted if and only if its tokens cut a table into rectangles, and a   *)
(* browser shows the HTML where the tokens have the cells.                 *)
(***************************************************************************)
EXTENDS PluginHost, AclStream, InputSize, DocumentReader, CsvRows, TableOtsl,
        FiniteSetTheorems, SequenceTheorems, TLAPS

PluginSpec == PluginInit /\ [][PluginNext]_pluginVars
AclSpec == AclInit /\ [][AclNext]_aclVars
SizeSpec == SizeInit /\ [][SizeNext]_sizeVars
ReaderSpec == ReaderInit /\ [][ReaderNext]_readerVars
CsvSpec == CsvInit /\ [][CsvNext]_csvVars
OtslSpec == OtslInit /\ [][OtslNext]_otslVars

-----------------------------------------------------------------------------
(* PluginHost.  The inductive invariant.                                   *)

Holder == Instances \cup {"loader", "registry", "map"}
Answers == [output : {0, 1}, error : {0, 1, 2}] \cup {NoCall}

TypeInv ==
  /\ plugin \in [Libraries -> Plugins]
  /\ holders \in [Libraries -> SUBSET Holder]
  /\ loading \in Libraries \cup {"none"}
  /\ loadStage \in {"none", "opened", "created", "installed"}
  /\ registered \subseteq Libraries
  /\ owner \in [Instances -> {"none", "loader", "registry", "model", "gone"}]
  /\ home \in [Instances -> Libraries \cup {"none"}]
  /\ exiting \in BOOLEAN

\* A library is open while it has a holder.
OpenInv == opened = {l \in Libraries : holders[l] # {}}

\* Who holds a library: the loading thread, its instances, a factory in the registry,
\* and, until the program ends, the map of those that were registered.
HolderInv ==
  \A l \in Libraries :
    /\ "loader" \in holders[l] <=> loading = l
    /\ \A i \in Instances : i \in holders[l] <=> i \in Live /\ home[i] = l
    /\ "registry" \in holders[l] => l \in registered
    /\ "map" \in holders[l] /\ ~exiting => l \in registered

\* A registered name has a holder in the registry, and whoever has an owner was made by
\* the library that is being loaded, or by one that is registered.
OwnerInv ==
  /\ \A i \in Instances :
       /\ owner[i] = "loader" => loadStage = "created" /\ home[i] = loading
       /\ owner[i] \in {"registry", "model"} => home[i] \in registered
  /\ \A l \in registered :
       \/ ~Adapter(l) /\ "registry" \in holders[l]
       \/ Adapter(l) /\ \E i \in Instances : owner[i] = "registry" /\ home[i] = l

LoadInv ==
  /\ loading = "none" <=> loadStage = "none"
  /\ loadStage = "created" => Adapter(loading) /\ \E i \in Instances : owner[i] = "loader"
  /\ loadStage = "installed" => loading \in registered
  /\ exiting => loading = "none" /\ \A i \in Instances : owner[i] # "model"

\* The buffers that have been released are those of the answer, once each.
Balanced(a, f) == \A b \in 1 .. 2 : f[b] = IF b \in Buffers(a) THEN 1 ELSE 0
CallInv ==
  /\ answer \in [Instances -> Answers]
  /\ freed \in [Instances -> [1 .. 2 -> Nat]]
  /\ \A i \in Instances :
       /\ freed[i] # <<0, 0>> => Balanced(answer[i], freed[i])
       /\ answer[i] = NoCall => freed[i] = <<0, 0>>

LibInv == TypeInv /\ OpenInv /\ HolderInv /\ OwnerInv /\ LoadInv

-----------------------------------------------------------------------------
(* Buffers.                                                                *)

LEMMA ReleasedOnce ==
  ASSUME NEW a \in [output : {0, 1}, error : {0, 1, 2}], NEW b \in 1 .. 2
  PROVE  Cardinality({k \in DOMAIN Released(a) : Released(a)[k] = b})
           = IF b \in Buffers(a) THEN 1 ELSE 0
<1> DEFINE ks == {k \in DOMAIN Released(a) : Released(a)[k] = b}
<1>1. Cardinality({}) = 0 /\ \A x : Cardinality({x}) = 1
  BY FS_EmptySet, FS_Singleton
<1>2. CASE a.error = a.output
  <2>1. Released(a) = <<a.output>>
    BY <1>2 DEF Released
  <2>2. ks = IF a.output = b THEN {1} ELSE {}
    BY <2>1
  <2>3. b \in Buffers(a) <=> a.output = b
    BY <1>2 DEF Buffers
  <2> QED
    BY <1>1, <2>2, <2>3
<1>3. CASE a.error # a.output
  <2>1. Released(a) = <<a.output, a.error>>
    BY <1>3 DEF Released
  <2>2. ks = IF a.output = b THEN {1} ELSE IF a.error = b THEN {2} ELSE {}
    BY <1>3, <2>1
  <2>3. b \in Buffers(a) <=> a.output = b \/ a.error = b
    BY DEF Buffers
  <2> QED
    BY <1>1, <2>2, <2>3
<1> QED
  BY <1>2, <1>3

LEMMA CallInit == PluginInit => CallInv
  BY DEF PluginInit, CallInv, Answers, NoCall

LEMMA CallStep == CallInv /\ [PluginNext]_pluginVars => CallInv'
<1> SUFFICES ASSUME CallInv, [PluginNext]_pluginVars PROVE CallInv'
  OBVIOUS
<1>1. ASSUME NEW i \in Instances, Execute(i) PROVE CallInv'
  <2>1. PICK o \in {0, 1}, e \in {0, 1, 2} : answer' = [answer EXCEPT ![i] = [output |-> o, error |-> e]]
    BY <1>1 DEF Execute
  <2>2. [output |-> o, error |-> e] \in Answers /\ [output |-> o, error |-> e] # NoCall
    BY DEF Answers, NoCall
  <2>3. freed' = freed /\ freed[i] = <<0, 0>>
    BY <1>1 DEF Execute, CallInv
  <2> QED
    BY <2>1, <2>2, <2>3 DEF CallInv
<1>2. ASSUME NEW i \in Instances, Release(i) PROVE CallInv'
  <2> DEFINE f == [b \in 1 .. 2 |-> Cardinality({k \in DOMAIN Released(answer[i]) : Released(answer[i])[k] = b})]
  <2>1. answer[i] \in [output : {0, 1}, error : {0, 1, 2}] /\ answer[i] # NoCall /\ answer' = answer
    BY <1>2 DEF Release, CallInv, Answers
  <2>2. freed' = [freed EXCEPT ![i] = f]
    BY <1>2 DEF Release
  <2>3. Balanced(answer[i], f) /\ f \in [1 .. 2 -> Nat]
    BY <2>1, ReleasedOnce DEF Balanced
  <2> HIDE DEF f
  <2> QED
    BY <2>1, <2>2, <2>3 DEF CallInv
<1>3. ASSUME NEW i \in Instances, CallEnds(i) PROVE CallInv'
  <2>1. /\ answer' = [answer EXCEPT ![i] = NoCall] /\ freed' = [freed EXCEPT ![i] = <<0, 0>>]
        /\ <<0, 0>> \in [1 .. 2 -> Nat] /\ NoCall \in Answers
    BY <1>3 DEF CallEnds, Answers
  <2> QED
    BY <2>1 DEF CallInv
<1>4. ASSUME UNCHANGED calls_ PROVE CallInv'
  BY <1>4 DEF CallInv, calls_
<1> QED
  BY <1>1, <1>2, <1>3, <1>4
     DEF PluginNext, pluginVars, LoadLibrary, LoadFails, Register, Emplace, InstallCreates,
         CreateModel, DestroyModel, MainReturns, RegistryEnds, MapEnds

-----------------------------------------------------------------------------
(* Libraries.                                                              *)

LEMMA LibInit == PluginInit => LibInv
<1> SUFFICES ASSUME PluginInit PROVE LibInv
  OBVIOUS
<1>1. TypeInv /\ OpenInv
  BY DEF PluginInit, TypeInv, OpenInv
<1>2. HolderInv
  BY PluginAssumption DEF PluginInit, HolderInv, Live
<1>3. OwnerInv /\ LoadInv
  BY DEF PluginInit, OwnerInv, LoadInv, Adapter
<1> QED
  BY <1>1, <1>2, <1>3 DEF LibInv

\* What Holds does to one library, and that a library stays open while it has a holder.
LEMMA Holding ==
  ASSUME TypeInv, OpenInv, NEW l \in Libraries, NEW gone, NEW new \in SUBSET Holder, Holds(l, gone, new)
  PROVE  /\ holders' \in [Libraries -> SUBSET Holder] /\ OpenInv'
         /\ holders'[l] = (holders[l] \ gone) \cup new
         /\ \A k \in Libraries \ {l} : holders'[k] = holders[k]
<1>1. holders' = [holders EXCEPT ![l] = (holders[l] \ gone) \cup new]
  BY DEF Holds
<1>2. /\ holders' \in [Libraries -> SUBSET Holder]
      /\ holders'[l] = (holders[l] \ gone) \cup new
      /\ \A k \in Libraries \ {l} : holders'[k] = holders[k]
  BY <1>1 DEF TypeInv
<1>3. opened' = IF holders'[l] = {} THEN opened \ {l} ELSE opened \cup {l}
  BY DEF Holds
<1>4. OpenInv'
  BY <1>2, <1>3 DEF OpenInv
<1> QED
  BY <1>2, <1>4

LEMMA LoadLibraryStep ==
  ASSUME LibInv, NEW l \in Libraries, LoadLibrary(l) PROVE LibInv'
<1>1. /\ TypeInv' /\ OpenInv' /\ holders'[l] = holders[l] \cup {"loader"}
      /\ \A k \in Libraries \ {l} : holders'[k] = holders[k]
  BY Holding DEF LibInv, LoadLibrary, TypeInv, Holder, instances
<1>2. HolderInv'
  BY <1>1, PluginAssumption DEF LibInv, LoadLibrary, HolderInv, TypeInv, Live, instances
<1>3. OwnerInv'
  BY <1>1, PluginAssumption DEF LibInv, LoadLibrary, OwnerInv, LoadInv, TypeInv, instances, Adapter
<1>4. LoadInv'
  BY <1>1, PluginAssumption DEF LibInv, LoadLibrary, LoadInv, instances, Adapter
<1> QED
  BY <1>1, <1>2, <1>3, <1>4 DEF LibInv

LEMMA LoadFailsStep ==
  ASSUME LibInv, LoadFails PROVE LibInv'
<1> DEFINE made == {i \in Instances : owner[i] = "loader"}
<1>1. /\ loading \in Libraries /\ loading' = "none" /\ loadStage' = "none"
      /\ UNCHANGED <<plugin, registered, home, exiting>>
  BY DEF LibInv, LoadInv, TypeInv, LoadFails, Adapter
<1>2. Holds(loading, {"loader"} \cup made, {})
  BY DEF LoadFails, Fails
<1>3. owner' = [i \in Instances |-> IF i \in made THEN "gone" ELSE owner[i]]
  BY DEF LoadFails, Fails
<1>4. /\ holders' \in [Libraries -> SUBSET Holder] /\ OpenInv'
      /\ holders'[loading] = (holders[loading] \ ({"loader"} \cup made)) \cup {}
      /\ \A k \in Libraries \ {loading} : holders'[k] = holders[k]
  BY <1>1, <1>2, Holding DEF LibInv
<1>5. TypeInv'
  BY <1>1, <1>3, <1>4 DEF LibInv, TypeInv
<1>6. HolderInv'
  <2> SUFFICES ASSUME NEW l \in Libraries
               PROVE  /\ "loader" \in holders'[l] <=> loading' = l
                      /\ \A i \in Instances : i \in holders'[l] <=> i \in Live' /\ home'[i] = l
                      /\ "registry" \in holders'[l] => l \in registered'
                      /\ "map" \in holders'[l] /\ ~exiting' => l \in registered'
    BY DEF HolderInv
  <2>1. "loader" \notin holders'[l] /\ loading' # l
    BY <1>1, <1>4, PluginAssumption DEF LibInv, HolderInv
  <2>2. ASSUME NEW i \in Instances PROVE i \in holders'[l] <=> i \in Live' /\ home'[i] = l
    BY <1>1, <1>3, <1>4, PluginAssumption DEF LibInv, HolderInv, OwnerInv, Live, Adapter
  <2>3. holders'[l] \subseteq holders[l]
    BY <1>4
  <2> QED
    BY <1>1, <2>1, <2>2, <2>3 DEF LibInv, HolderInv
<1>7. OwnerInv'
  <2>1. ASSUME NEW i \in Instances
        PROVE  /\ owner'[i] # "loader"
               /\ owner'[i] \in {"registry", "model"} => home'[i] \in registered'
    BY <1>1, <1>3 DEF LibInv, OwnerInv, Adapter
  <2>2. ASSUME NEW l \in registered
        PROVE  \/ ~Adapter(l)' /\ "registry" \in holders'[l]
               \/ Adapter(l)' /\ \E i \in Instances : owner'[i] = "registry" /\ home'[i] = l
    <3>1. CASE ~Adapter(l) /\ "registry" \in holders[l]
      BY <1>1, <1>4, <3>1, PluginAssumption DEF LibInv, TypeInv, Adapter
    <3>2. CASE Adapter(l) /\ \E i \in Instances : owner[i] = "registry" /\ home[i] = l
      BY <1>1, <1>3, <3>2 DEF Adapter
    <3> QED
      BY <3>1, <3>2 DEF LibInv, OwnerInv, Adapter
  <2> QED
    BY <1>1, <2>1, <2>2 DEF OwnerInv, Adapter
<1>8. LoadInv'
  BY <1>1, <1>3 DEF LibInv, LoadInv, Adapter
<1> QED
  BY <1>4, <1>5, <1>6, <1>7, <1>8 DEF LibInv

LEMMA InstallStep ==
  ASSUME LibInv, NEW n \in Instances, InstallCreates(n) PROVE LibInv'
<1>1. /\ loading \in Libraries /\ loading' = loading /\ loadStage' = "created" /\ owner[n] = "none"
      /\ Adapter(loading) /\ loadStage = "opened"
      /\ owner' = [owner EXCEPT ![n] = "loader"] /\ home' = [home EXCEPT ![n] = loading]
      /\ UNCHANGED <<plugin, registered, exiting>>
  BY DEF LibInv, LoadInv, TypeInv, InstallCreates, Adapter
<1>2. Holds(loading, {}, {n}) /\ {n} \in SUBSET Holder
  BY DEF InstallCreates, Holder
<1>3. /\ holders' \in [Libraries -> SUBSET Holder] /\ OpenInv'
      /\ holders'[loading] = holders[loading] \cup {n}
      /\ \A k \in Libraries \ {loading} : holders'[k] = holders[k]
  BY <1>1, <1>2, Holding DEF LibInv
<1>4. TypeInv'
  BY <1>1, <1>3 DEF LibInv, TypeInv
<1>5. n \notin {"loader", "registry", "map"}
  BY PluginAssumption
<1>6. HolderInv'
  <2> SUFFICES ASSUME NEW l \in Libraries
               PROVE  /\ "loader" \in holders'[l] <=> loading' = l
                      /\ \A i \in Instances : i \in holders'[l] <=> i \in Live' /\ home'[i] = l
                      /\ "registry" \in holders'[l] => l \in registered'
                      /\ "map" \in holders'[l] /\ ~exiting' => l \in registered'
    BY DEF HolderInv
  <2>1. ASSUME NEW i \in Instances PROVE i \in holders'[l] <=> i \in Live' /\ home'[i] = l
    BY <1>1, <1>3 DEF LibInv, HolderInv, TypeInv, Live
  <2>2. \A h \in {"loader", "registry", "map"} : h \in holders'[l] <=> h \in holders[l]
    BY <1>3, <1>5
  <2> QED
    BY <1>1, <2>1, <2>2 DEF LibInv, HolderInv
<1>7. OwnerInv'
  BY <1>1, <1>3, <1>5 DEF LibInv, OwnerInv, TypeInv, Adapter
<1>8. LoadInv'
  BY <1>1 DEF LibInv, LoadInv, TypeInv, Adapter
<1> QED
  BY <1>3, <1>4, <1>6, <1>7, <1>8 DEF LibInv

LEMMA RegisterStep ==
  ASSUME LibInv, Register PROVE LibInv'
<1> DEFINE new == IF Adapter(loading) THEN {} ELSE {"registry"}
<1>1. /\ loading \in Libraries /\ loading' = loading /\ loadStage' = "installed"
      /\ registered' = registered \cup {loading}
      /\ owner' = [i \in Instances |-> IF owner[i] = "loader" THEN "registry" ELSE owner[i]]
      /\ UNCHANGED <<plugin, home, exiting>>
  BY DEF LibInv, TypeInv, Register
<1>2. Holds(loading, {}, new) /\ new \in SUBSET Holder
  BY DEF Register, Holder
<1>3. /\ holders' \in [Libraries -> SUBSET Holder] /\ OpenInv'
      /\ holders'[loading] = (holders[loading] \ {}) \cup new
      /\ \A k \in Libraries \ {loading} : holders'[k] = holders[k]
  <2> HIDE DEF new
  <2> QED
    BY <1>1, <1>2, Holding DEF LibInv
<1>4. TypeInv'
  BY <1>1, <1>3 DEF LibInv, TypeInv
<1>5. HolderInv'
  <2> SUFFICES ASSUME NEW l \in Libraries
               PROVE  /\ "loader" \in holders'[l] <=> loading' = l
                      /\ \A i \in Instances : i \in holders'[l] <=> i \in Live' /\ home'[i] = l
                      /\ "registry" \in holders'[l] => l \in registered'
                      /\ "map" \in holders'[l] /\ ~exiting' => l \in registered'
    BY DEF HolderInv
  <2>1. \A i \in Instances : i \in Live' <=> i \in Live
    BY <1>1 DEF Live
  <2>2. \A h \in Holder \ {"registry"} : h \in holders'[l] <=> h \in holders[l]
    BY <1>3
  <2>3. "registry" \in holders'[l] => l = loading \/ "registry" \in holders[l]
    BY <1>3
  <2>4. \A i \in Instances : i \in Holder \ {"registry"}
    BY PluginAssumption DEF Holder
  <2> QED
    BY <1>1, <2>1, <2>2, <2>3, <2>4 DEF LibInv, HolderInv, Holder
<1>6. OwnerInv'
  <2>1. ASSUME NEW i \in Instances
        PROVE  /\ owner'[i] # "loader"
               /\ owner'[i] \in {"registry", "model"} => home'[i] \in registered'
    BY <1>1 DEF LibInv, OwnerInv, Adapter
  <2>2. ASSUME NEW l \in registered, l # loading
        PROVE  \/ ~Adapter(l)' /\ "registry" \in holders'[l]
               \/ Adapter(l)' /\ \E i \in Instances : owner'[i] = "registry" /\ home'[i] = l
    <3>1. l \in Libraries /\ holders'[l] = holders[l]
      BY <1>3, <2>2 DEF LibInv, TypeInv
    <3> QED
      BY <1>1, <2>2, <3>1 DEF LibInv, OwnerInv, Adapter
  <2>3. \/ ~Adapter(loading)' /\ "registry" \in holders'[loading]
        \/ Adapter(loading)' /\ \E i \in Instances : owner'[i] = "registry" /\ home'[i] = loading
    <3>1. CASE ~Adapter(loading)
      BY <1>1, <1>3, <3>1 DEF Adapter
    <3>2. CASE Adapter(loading)
      <4>1. loadStage = "created"
        BY <3>2 DEF Register
      <4>2. PICK i \in Instances : owner[i] = "loader" /\ home[i] = loading
        BY <4>1 DEF LibInv, LoadInv, OwnerInv
      <4> QED
        BY <1>1, <3>2, <4>2 DEF Adapter
    <3> QED
      BY <1>1, <3>1, <3>2 DEF LibInv, TypeInv, Adapter
  <2> QED
    BY <1>1, <2>1, <2>2, <2>3 DEF OwnerInv, Adapter
<1>7. LoadInv'
  BY <1>1, PluginAssumption DEF LibInv, LoadInv, Register, Adapter
<1> QED
  BY <1>3, <1>4, <1>5, <1>6, <1>7 DEF LibInv

LEMMA EmplaceStep ==
  ASSUME LibInv, Emplace PROVE LibInv'
<1>1. /\ loading \in registered /\ loading \in Libraries /\ loading' = "none" /\ loadStage' = "none"
      /\ loadStage = "installed" /\ UNCHANGED <<plugin, registered, owner, home, exiting>>
  BY DEF LibInv, LoadInv, TypeInv, Emplace, instances, Adapter
<1>2. Holds(loading, {"loader"}, {"map"}) /\ {"map"} \in SUBSET Holder
  BY DEF Emplace, Holder
<1>3. /\ holders' \in [Libraries -> SUBSET Holder] /\ OpenInv'
      /\ holders'[loading] = (holders[loading] \ {"loader"}) \cup {"map"}
      /\ \A k \in Libraries \ {loading} : holders'[k] = holders[k]
  BY <1>1, <1>2, Holding DEF LibInv
<1>4. TypeInv'
  BY <1>1, <1>3 DEF LibInv, TypeInv
<1>5. \A i \in Instances : i \notin {"loader", "registry", "map"}
  BY PluginAssumption
<1>6. HolderInv'
  <2> SUFFICES ASSUME NEW l \in Libraries
               PROVE  /\ "loader" \in holders'[l] <=> loading' = l
                      /\ \A i \in Instances : i \in holders'[l] <=> i \in Live' /\ home'[i] = l
                      /\ "registry" \in holders'[l] => l \in registered'
                      /\ "map" \in holders'[l] /\ ~exiting' => l \in registered'
    BY DEF HolderInv
  <2>1. "loader" \notin holders'[l] /\ loading' # l
    BY <1>1, <1>3, PluginAssumption DEF LibInv, HolderInv
  <2>2. \A h \in Instances \cup {"registry"} : h \in holders'[l] <=> h \in holders[l]
    BY <1>3, <1>5
  <2>3. "map" \in holders'[l] => l = loading \/ "map" \in holders[l]
    BY <1>3
  <2> QED
    BY <1>1, <2>1, <2>2, <2>3 DEF LibInv, HolderInv, Live
<1>7. OwnerInv'
  <2>1. \A l \in Libraries : "registry" \in holders[l] => "registry" \in holders'[l]
    BY <1>3
  <2>2. registered \subseteq Libraries
    BY DEF LibInv, TypeInv
  <2> QED
    BY <1>1, <2>1, <2>2 DEF LibInv, OwnerInv, Adapter
<1>8. LoadInv'
  BY <1>1 DEF LibInv, LoadInv, Adapter
<1> QED
  BY <1>3, <1>4, <1>6, <1>7, <1>8 DEF LibInv

LEMMA CreateModelStep ==
  ASSUME LibInv, NEW m \in Libraries, NEW n \in Instances, CreateModel(m, n) PROVE LibInv'
<1>1. /\ m \in registered /\ owner[n] = "none" /\ ~exiting
      /\ owner' = [owner EXCEPT ![n] = "model"] /\ home' = [home EXCEPT ![n] = m]
      /\ UNCHANGED <<plugin, loading, loadStage, registered, exiting>>
  BY DEF CreateModel, loader
<1>2. Holds(m, {}, {n}) /\ {n} \in SUBSET Holder
  BY DEF CreateModel, Holder
<1>3. /\ holders' \in [Libraries -> SUBSET Holder] /\ OpenInv'
      /\ holders'[m] = holders[m] \cup {n}
      /\ \A k \in Libraries \ {m} : holders'[k] = holders[k]
  BY <1>2, Holding DEF LibInv
<1>4. TypeInv'
  BY <1>1, <1>3 DEF LibInv, TypeInv
<1>5. n \notin {"loader", "registry", "map"}
  BY PluginAssumption
<1>6. HolderInv'
  <2> SUFFICES ASSUME NEW l \in Libraries
               PROVE  /\ "loader" \in holders'[l] <=> loading' = l
                      /\ \A i \in Instances : i \in holders'[l] <=> i \in Live' /\ home'[i] = l
                      /\ "registry" \in holders'[l] => l \in registered'
                      /\ "map" \in holders'[l] /\ ~exiting' => l \in registered'
    BY DEF HolderInv
  <2>1. ASSUME NEW i \in Instances PROVE i \in holders'[l] <=> i \in Live' /\ home'[i] = l
    BY <1>1, <1>3 DEF LibInv, HolderInv, TypeInv, Live
  <2>2. \A h \in {"loader", "registry", "map"} : h \in holders'[l] <=> h \in holders[l]
    BY <1>3, <1>5
  <2> QED
    BY <1>1, <2>1, <2>2 DEF LibInv, HolderInv
<1>7. OwnerInv'
  <2>1. ASSUME NEW i \in Instances
        PROVE  /\ owner'[i] = "loader" => loadStage' = "created" /\ home'[i] = loading'
               /\ owner'[i] \in {"registry", "model"} => home'[i] \in registered'
    BY <1>1 DEF LibInv, OwnerInv, TypeInv, Adapter
  <2>2. \A l \in registered : "registry" \in holders[l] => "registry" \in holders'[l]
    BY <1>3 DEF LibInv, TypeInv
  <2>3. \A i \in Instances : owner[i] = "registry" => owner'[i] = "registry" /\ home'[i] = home[i]
    BY <1>1 DEF LibInv, TypeInv
  <2> QED
    BY <1>1, <2>1, <2>2, <2>3 DEF LibInv, OwnerInv, Adapter
<1>8. LoadInv'
  <2>1. \A i \in Instances : owner[i] = "loader" => owner'[i] = "loader"
    BY <1>1 DEF LibInv, TypeInv
  <2> QED
    BY <1>1, <2>1 DEF LibInv, LoadInv, Adapter
<1> QED
  BY <1>3, <1>4, <1>6, <1>7, <1>8 DEF LibInv

LEMMA DestroyModelStep ==
  ASSUME LibInv, NEW n \in Instances, DestroyModel(n) PROVE LibInv'
<1>1. /\ owner[n] = "model" /\ home[n] \in registered /\ home[n] \in Libraries
      /\ owner' = [owner EXCEPT ![n] = "gone"]
      /\ UNCHANGED <<plugin, loading, loadStage, registered, home, exiting>>
  BY DEF LibInv, OwnerInv, TypeInv, DestroyModel, loader, Adapter
<1>2. Holds(home[n], {n}, {})
  BY DEF DestroyModel
<1>3. /\ holders' \in [Libraries -> SUBSET Holder] /\ OpenInv'
      /\ holders'[home[n]] = (holders[home[n]] \ {n}) \cup {}
      /\ \A k \in Libraries \ {home[n]} : holders'[k] = holders[k]
  BY <1>1, <1>2, Holding DEF LibInv
<1>4. TypeInv'
  BY <1>1, <1>3 DEF LibInv, TypeInv
<1>5. n \notin {"loader", "registry", "map"}
  BY PluginAssumption
<1>6. HolderInv'
  <2> SUFFICES ASSUME NEW l \in Libraries
               PROVE  /\ "loader" \in holders'[l] <=> loading' = l
                      /\ \A i \in Instances : i \in holders'[l] <=> i \in Live' /\ home'[i] = l
                      /\ "registry" \in holders'[l] => l \in registered'
                      /\ "map" \in holders'[l] /\ ~exiting' => l \in registered'
    BY DEF HolderInv
  <2>1. ASSUME NEW i \in Instances PROVE i \in holders'[l] <=> i \in Live' /\ home'[i] = l
    BY <1>1, <1>3 DEF LibInv, HolderInv, TypeInv, Live
  <2>2. \A h \in {"loader", "registry", "map"} : h \in holders'[l] <=> h \in holders[l]
    BY <1>3, <1>5
  <2> QED
    BY <1>1, <2>1, <2>2 DEF LibInv, HolderInv
<1>7. OwnerInv'
  <2>1. \A i \in Instances : owner'[i] = owner[i] \/ owner'[i] = "gone"
    BY <1>1 DEF LibInv, TypeInv
  <2>2. \A l \in registered : "registry" \in holders[l] => "registry" \in holders'[l]
    BY <1>3, <1>5 DEF LibInv, TypeInv
  <2>3. \A i \in Instances : owner[i] = "registry" => owner'[i] = "registry"
    BY <1>1 DEF LibInv, TypeInv
  <2> QED
    BY <1>1, <2>1, <2>2, <2>3 DEF LibInv, OwnerInv, Adapter
<1>8. LoadInv'
  <2>1. \A i \in Instances : owner[i] = "loader" => owner'[i] = "loader"
    BY <1>1 DEF LibInv, TypeInv
  <2> QED
    BY <1>1, <2>1 DEF LibInv, LoadInv, Adapter
<1> QED
  BY <1>3, <1>4, <1>6, <1>7, <1>8 DEF LibInv

LEMMA MainReturnsStep ==
  ASSUME LibInv, MainReturns PROVE LibInv'
  BY DEF MainReturns, loader, instances, LibInv, TypeInv, OpenInv, HolderInv, OwnerInv, LoadInv, Live, Adapter

LEMMA RegistryEndsStep ==
  ASSUME LibInv, RegistryEnds PROVE LibInv'
<1> DEFINE of(l) == {i \in Instances : owner[i] = "registry" /\ home[i] = l}
<1>1. /\ exiting /\ registered' = {} /\ opened' = {l \in opened : holders'[l] # {}}
      /\ holders' = [l \in Libraries |-> holders[l] \ ({"registry"} \cup of(l))]
      /\ owner' = [i \in Instances |-> IF owner[i] = "registry" THEN "gone" ELSE owner[i]]
      /\ UNCHANGED <<plugin, loading, loadStage, home, exiting>>
  BY DEF RegistryEnds
<1>2. \A i \in Instances : owner'[i] \in {"none", "gone"}
  BY <1>1 DEF LibInv, TypeInv, LoadInv, OwnerInv, Adapter
<1>3. \A l \in Libraries : holders'[l] = holders[l] \ ({"registry"} \cup of(l))
  BY <1>1
<1>4. TypeInv'
  BY <1>1, <1>2 DEF LibInv, TypeInv
<1>5. OpenInv'
  BY <1>1, <1>3 DEF LibInv, OpenInv
<1>6. HolderInv'
  <2> SUFFICES ASSUME NEW l \in Libraries
               PROVE  /\ "loader" \in holders'[l] <=> loading' = l
                      /\ \A i \in Instances : i \in holders'[l] <=> i \in Live' /\ home'[i] = l
                      /\ "registry" \in holders'[l] => l \in registered'
                      /\ "map" \in holders'[l] /\ ~exiting' => l \in registered'
    BY DEF HolderInv
  <2>1. "loader" \in holders'[l] <=> loading' = l
    BY <1>1, <1>3, PluginAssumption DEF LibInv, HolderInv
  <2>2. ASSUME NEW i \in Instances PROVE i \notin holders'[l] /\ i \notin Live'
    <3>1. i \in holders[l] => i \in of(l)
      BY <1>1 DEF LibInv, HolderInv, LoadInv, OwnerInv, TypeInv, Live, Adapter
    <3> QED
      BY <1>2, <1>3, <3>1 DEF Live
  <2> QED
    BY <1>1, <1>3, <2>1, <2>2
<1>7. OwnerInv'
  BY <1>1, <1>2 DEF OwnerInv, Adapter
<1>8. LoadInv'
  BY <1>1, <1>2 DEF LibInv, LoadInv, Adapter
<1> QED
  BY <1>4, <1>5, <1>6, <1>7, <1>8 DEF LibInv

LEMMA MapEndsStep ==
  ASSUME LibInv, MapEnds PROVE LibInv'
<1>1. /\ exiting /\ opened' = {l \in opened : holders'[l] # {}}
      /\ \A l \in Libraries : holders'[l] = holders[l] \ {"map"}
      /\ holders' \in [Libraries -> SUBSET Holder]
      /\ UNCHANGED <<plugin, loading, loadStage, registered, owner, home, exiting>>
  BY DEF MapEnds, loader, instances, LibInv, TypeInv
<1>2. TypeInv' /\ OpenInv' /\ LoadInv'
  BY <1>1 DEF LibInv, TypeInv, OpenInv, LoadInv, Adapter
<1>3. \A l \in Libraries : \A h \in Instances \cup {"loader", "registry"} : h \in holders'[l] <=> h \in holders[l]
  BY <1>1, PluginAssumption
<1>4. HolderInv'
  BY <1>1, <1>3 DEF LibInv, HolderInv, Live
<1>5. OwnerInv'
  BY <1>1, <1>3 DEF LibInv, OwnerInv, TypeInv, Adapter
<1> QED
  BY <1>2, <1>4, <1>5 DEF LibInv

LEMMA LibStep == LibInv /\ [PluginNext]_pluginVars => LibInv'
<1> SUFFICES ASSUME LibInv, [PluginNext]_pluginVars PROVE LibInv'
  OBVIOUS
<1>1. ASSUME UNCHANGED <<plugin, opened, holders, loader, instances, exiting>> PROVE LibInv'
  BY <1>1 DEF loader, instances, LibInv, TypeInv, OpenInv, HolderInv, OwnerInv, LoadInv, Live, Adapter
<1>2. ASSUME NEW i \in Instances, Execute(i) \/ Release(i) \/ CallEnds(i) PROVE LibInv'
  BY <1>1, <1>2 DEF Execute, Release, CallEnds
<1>3. CASE UNCHANGED pluginVars
  BY <1>1, <1>3 DEF pluginVars
<1> QED
  BY <1>2, <1>3, LoadLibraryStep, LoadFailsStep, InstallStep, RegisterStep, EmplaceStep, CreateModelStep,
     DestroyModelStep, MainReturnsStep, RegistryEndsStep, MapEndsStep DEF PluginNext

-----------------------------------------------------------------------------

LEMMA InvImplies == LibInv /\ CallInv => PluginsStayLoaded
<1> SUFFICES ASSUME LibInv, CallInv PROVE PluginsStayLoaded
  OBVIOUS
<1>1. ASSUME NEW i \in Live PROVE home[i] \in Libraries /\ i \in holders[home[i]]
  <2>1. i \in Instances /\ owner[i] \in {"loader", "registry", "model"}
    BY <1>1 DEF Live, LibInv, TypeInv
  <2>2. home[i] \in Libraries
    BY <2>1 DEF LibInv, OwnerInv, LoadInv, TypeInv
  <2> QED
    BY <1>1, <2>1, <2>2 DEF LibInv, HolderInv
<1>2. \A i \in Live : home[i] \in opened
  BY <1>1 DEF LibInv, OpenInv
<1>3. registered \subseteq opened
  <2> SUFFICES ASSUME NEW l \in registered PROVE holders[l] # {}
    BY DEF LibInv, OpenInv, TypeInv
  <2>1. ASSUME NEW i \in Instances, owner[i] = "registry", home[i] = l PROVE i \in holders[l]
    BY <1>1, <2>1 DEF Live
  <2> QED
    BY <2>1 DEF LibInv, OwnerInv
<1>4. ASSUME loadStage = "none", NEW l \in opened
      PROVE  l \in registered \/ (exiting /\ l \in Libraries /\ "map" \in holders[l])
  <2>1. l \in Libraries /\ loading = "none" /\ loading # l
    BY <1>4, PluginAssumption DEF LibInv, OpenInv, LoadInv
  <2>2. PICK h \in Holder : h \in holders[l]
    BY <1>4 DEF LibInv, OpenInv, TypeInv
  <2>3. CASE h \in Instances
    <3>1. h \in Live /\ home[h] = l
      BY <2>1, <2>2, <2>3 DEF LibInv, HolderInv
    <3> QED
      BY <1>4, <2>3, <3>1 DEF Live, LibInv, OwnerInv, TypeInv
  <2>4. CASE h \in {"loader", "registry", "map"}
    BY <2>1, <2>2, <2>4 DEF LibInv, HolderInv, TypeInv
  <2> QED
    BY <2>3, <2>4 DEF Holder
<1>5. loadStage = "none" => /\ \A i \in Instances : owner[i] # "loader"
                            /\ ~exiting => opened = registered
  BY <1>3, <1>4 DEF LibInv, OwnerInv
<1>6. exiting /\ registered = {} /\ (\A l \in Libraries : "map" \notin holders[l]) => opened = {} /\ Live = {}
  <2> SUFFICES ASSUME exiting, registered = {}, \A l \in Libraries : "map" \notin holders[l]
               PROVE  opened = {} /\ Live = {}
    OBVIOUS
  <2>1. loadStage = "none"
    BY DEF LibInv, LoadInv
  <2>2. opened = {}
    BY <1>4, <2>1
  <2> QED
    BY <1>2, <2>2
<1>7. \A i \in Instances : freed[i] # <<0, 0>> =>
        \A b \in 1 .. 2 : freed[i][b] = IF b \in Buffers(answer[i]) THEN 1 ELSE 0
  BY DEF CallInv, Balanced
<1> QED
  BY <1>2, <1>3, <1>5, <1>6, <1>7 DEF PluginsStayLoaded

\* Whatever plugins are loaded, refused, called and unloaded, and in whichever order the
\* two statics are destroyed: the library of every plugin that can be called is open, one
\* that was refused is closed, and a buffer of an answer is released once.
THEOREM PluginsAreLoaded == PluginSpec => []PluginsStayLoaded
<1>1. PluginInit => LibInv /\ CallInv
  BY LibInit, CallInit
<1>2. LibInv /\ CallInv /\ [PluginNext]_pluginVars => (LibInv /\ CallInv)'
  BY LibStep, CallStep
<1> QED
  BY <1>1, <1>2, InvImplies, PTL DEF PluginSpec

-----------------------------------------------------------------------------
(* AclStream.  The stream holds the last of the tasks that the present call *)
(* has queued; so the number of those says what each buffer holds.          *)

Part == Nat \X Nat
AclTask == [kind : {"input", "model", "output"}, index : Nat, call : Nat]

AclTypes ==
  /\ step \in {"unloaded", "idle", "inputs", "model", "outputs", "synchronizing", "draining",
               "blocking", "collect", "freed"}
  /\ asyncStream \in BOOLEAN /\ call \in Nat /\ next \in Nat /\ asked \in 0 .. Physical
  /\ hostInput \in [1 .. Inputs -> [Places -> Part]]
  /\ deviceInput \in [1 .. Inputs -> [Places -> Part]]
  /\ deviceOutput \in [1 .. Outputs -> [Places -> SUBSET Part]]
  /\ hostOutput \in [1 .. Outputs -> [Places -> SUBSET Part]]
  /\ stream \in Seq(AclTask) /\ broken \in BOOLEAN /\ streamFailed \in BOOLEAN

\* The n-th task that call c queues.
TaskAt(n, c) ==
  IF n <= Inputs THEN [kind |-> "input", index |-> n, call |-> c]
  ELSE IF n = Inputs + 1 THEN [kind |-> "model", index |-> 1, call |-> c]
  ELSE [kind |-> "output", index |-> n - (Inputs + 1), call |-> c]

\* What every output of the model holds when it has run on the call's inputs.
Computed == [p \in Places |-> {Combined[p]}]

\* The first n tasks of the call are queued; those no longer in the stream are done, and
\* the buffers hold what they have made.
Work(n) ==
  /\ Len(stream) <= n
  /\ \A k \in 1 .. Len(stream) : stream[k] = TaskAt((n - Len(stream)) + k, call)
  /\ \A i \in 1 .. Inputs :
       /\ i <= n => hostInput[i] = Combined
       /\ i <= n - Len(stream) => deviceInput[i] = Combined
  /\ \A o \in 1 .. Outputs :
       /\ n - Len(stream) > Inputs => deviceOutput[o] = Computed
       /\ n - Len(stream) > Inputs + o => hostOutput[o] = Computed

StepInv ==
  /\ step = "inputs" => next \in 1 .. Inputs /\ Work(next - 1)
  /\ step = "model" => next = 1 /\ Work(Inputs)
  /\ step = "outputs" => next \in 1 .. Outputs /\ Work(Inputs + next)
  /\ step = "synchronizing" => Work((Inputs + 1) + Outputs)
  /\ step \in {"inputs", "model", "outputs", "synchronizing"} => asyncStream
  /\ step = "blocking" =>
       /\ ~asyncStream /\ next \in 1 .. Inputs + 1
       /\ \A i \in 1 .. Inputs : i < next => deviceInput[i] = Combined
  /\ step = "collect" =>
       \A o \in 1 .. Outputs :
         IF asyncStream THEN hostOutput[o] = Computed ELSE deviceOutput[o] = Computed
  /\ step \in {"unloaded", "blocking", "collect"} => stream = <<>>
  /\ step = "idle" /\ stream # <<>> => streamFailed

\* A queued copy finds its buffer as the call that queued it has left it.
CopyInv ==
  \A k \in 1 .. Len(stream) :
    /\ stream[k].kind = "input" =>
         /\ stream[k].index \in 1 .. Inputs
         /\ \A p \in Places : hostInput[stream[k].index][p][1] = stream[k].call
    /\ stream[k].kind = "output" => stream[k].index \in 1 .. Outputs

StreamInv == AclTypes /\ StepInv /\ CopyInv

LEMMA AclSizes == Inputs \in Nat /\ Inputs >= 1 /\ Outputs \in Nat /\ Outputs >= 1 /\ Physical \in Nat
  BY AclAssumption

LEMMA CombinedType ==
  ASSUME AclTypes
  PROVE  /\ Combined \in [Places -> Part] /\ Computed \in [Places -> SUBSET Part]
         /\ \A p \in Places : Combined[p][1] = call
<1>1. \A p \in Places : p \in Nat BY AclSizes DEF Places
<1>2. call \in Nat /\ asked \in Nat BY AclSizes DEF AclTypes
<1>3. \A p \in Places : Combined[p] = <<call, IF p < asked THEN p ELSE asked>> BY DEF Combined
<1>4. \A p \in Places : Combined[p] \in Part /\ Combined[p][1] = call
  BY <1>1, <1>2, <1>3 DEF Part
<1>5. Combined \in [Places -> Part] BY <1>4 DEF Combined
<1>6. Computed \in [Places -> SUBSET Part] BY <1>4 DEF Computed
<1>7. QED BY <1>4, <1>5, <1>6

LEMMA StreamInit == AclInit => StreamInv
<1> SUFFICES ASSUME AclInit PROVE StreamInv OBVIOUS
<1>1. stream = <<>> /\ step = "unloaded" BY DEF AclInit
<1>2. stream \in Seq(AclTask) /\ Len(stream) = 0 BY <1>1
<1>3. Nothing \in [Places -> Part] BY DEF Nothing, Part
<1>4. [p \in Places |-> {}] \in [Places -> SUBSET Part] OBVIOUS
<1>5. /\ hostInput \in [1 .. Inputs -> [Places -> Part]] /\ deviceInput = hostInput
      /\ deviceOutput \in [1 .. Outputs -> [Places -> SUBSET Part]] /\ hostOutput = deviceOutput
  BY <1>3, <1>4 DEF AclInit
<1>6. AclTypes
  <2>1. asyncStream = TRUE /\ call = 0 /\ next = 0 /\ asked = 0 /\ broken = FALSE /\ streamFailed = FALSE
    BY DEF AclInit
  <2>2. 0 \in 0 .. Physical BY AclSizes
  <2>3. asyncStream \in BOOLEAN /\ call \in Nat /\ next \in Nat /\ asked \in 0 .. Physical
        /\ broken \in BOOLEAN /\ streamFailed \in BOOLEAN
    BY <2>1, <2>2
  <2>4. QED BY <1>1, <1>2, <1>5, <2>3 DEF AclTypes
<1>7. StepInv BY <1>1 DEF StepInv
<1>8. CopyInv BY <1>2 DEF CopyInv
<1>9. QED BY <1>6, <1>7, <1>8 DEF StreamInv

\* Nothing has been queued yet.
LEMMA WorkBegun ==
  ASSUME stream' = <<>>
  PROVE  Work(0)'
<1>1. Len(stream') = 0 BY Zenon, EmptySeq
<1>2. QED BY <1>1, AclSizes DEF Work

\* One more task is queued.
LEMMA WorkQueued ==
  ASSUME AclTypes, NEW n \in Nat, Work(n),
         stream' = Append(stream, TaskAt(n + 1, call)), TaskAt(n + 1, call) \in AclTask,
         UNCHANGED <<call, asked, deviceInput, deviceOutput, hostOutput>>,
         \A i \in 1 .. Inputs : i <= n => hostInput'[i] = hostInput[i],
         n + 1 <= Inputs => hostInput'[n + 1] = Combined
  PROVE  Work(n + 1)'
<1>0. Combined' = Combined /\ Computed' = Computed BY DEF Combined, Computed
<1>1. /\ Len(stream) \in Nat /\ Len(stream') = Len(stream) + 1
      /\ stream'[Len(stream) + 1] = TaskAt(n + 1, call)
      /\ \A k \in 1 .. Len(stream) : stream'[k] = stream[k]
  BY AppendProperties, LenProperties DEF AclTypes
<1>2. Len(stream) <= n BY DEF Work
<1>3. Len(stream') <= n + 1 /\ (n + 1) - Len(stream') = n - Len(stream) BY <1>1, <1>2
<1>4. ASSUME NEW k \in 1 .. Len(stream') PROVE stream'[k] = TaskAt((n - Len(stream)) + k, call)
  <2>1. CASE k \in 1 .. Len(stream) BY <1>1, <2>1 DEF Work
  <2>2. CASE k = Len(stream) + 1
    <3>1. (n - Len(stream)) + k = n + 1 BY <1>1, <2>2
    <3>2. QED BY <1>1, <2>2, <3>1
  <2>3. QED BY <1>1, <2>1, <2>2
<1>5. \A i \in 1 .. Inputs : i <= n + 1 => hostInput'[i] = Combined
  BY AclSizes DEF Work
<1>6. QED BY <1>0, <1>3, <1>4, <1>5 DEF Work

\* The model computes each answer from the inputs of the same place.
LEMMA ModelRuns ==
  ASSUME \A i \in 1 .. Inputs : deviceInput[i] = Combined
  PROVE  \A o \in 1 .. Outputs : ModelRun[o] = Computed
<1>1. \A p \in Places : {deviceInput[i][p] : i \in 1 .. Inputs} = {Combined[p]} BY AclSizes
<1>2. QED BY <1>1 DEF ModelRun, Computed

\* The device takes one of three kinds of tasks, and leaves the host's inputs alone.
LEMMA FirstTask ==
  ASSUME AclTypes, Device
  PROVE  /\ stream # <<>> /\ stream' \in Seq(AclTask) /\ Len(stream) \in Nat /\ Len(stream) >= 1
         /\ Len(stream') = Len(stream) - 1 /\ Head(stream) = stream[1]
         /\ \A k \in 1 .. Len(stream') : stream'[k] = stream[k + 1] /\ k + 1 \in 1 .. Len(stream)
         /\ Head(stream).kind \in {"input", "model", "output"} /\ hostInput' = hostInput
<1>1. stream \in Seq(AclTask) /\ stream # <<>> /\ stream' = Tail(stream) BY DEF AclTypes, Device
<1>2. /\ Len(stream) \in Nat /\ Len(stream) >= 1 /\ Head(stream) = stream[1]
      /\ stream' \in Seq(AclTask) /\ Len(stream') = Len(stream) - 1
      /\ \A k \in 1 .. Len(stream') : stream'[k] = stream[k + 1] /\ k + 1 \in 1 .. Len(stream)
  BY <1>1, HeadTailProperties, LenProperties, EmptySeq
<1>3. Head(stream) \in AclTask BY <1>1, HeadTailProperties
<1>4. Head(stream).kind \in {"input", "model", "output"} BY <1>3 DEF AclTask
<1>5. hostInput' = hostInput BY <1>4 DEF Device
<1>6. QED BY <1>1, <1>2, <1>4, <1>5

\* The device has done the first task in the stream.
LEMMA WorkDone ==
  ASSUME AclTypes, NEW n \in Nat, n <= (Inputs + 1) + Outputs, Work(n), Device
  PROVE  Work(n)'
<1>0. Combined' = Combined /\ Computed' = Computed /\ call' = call
  BY DEF Combined, Computed, Device
<1> DEFINE done == n - Len(stream)
           t == Head(stream)
<1>1. /\ Len(stream) \in Nat /\ Len(stream) >= 1 /\ t = stream[1]
      /\ Len(stream') = Len(stream) - 1 /\ hostInput' = hostInput
      /\ \A k \in 1 .. Len(stream') : stream'[k] = stream[k + 1]
  BY FirstTask
<1>2. Len(stream) <= n /\ \A k \in 1 .. Len(stream) : stream[k] = TaskAt(done + k, call) BY DEF Work
<1>3. done \in Nat /\ done + 1 <= n /\ n - Len(stream') = done + 1 /\ Len(stream') <= n
  BY <1>1, <1>2
<1>4. t = TaskAt(done + 1, call) BY <1>1, <1>2
<1>5. \A k \in 1 .. Len(stream') : stream'[k] = TaskAt((done + 1) + k, call)
  <2> TAKE k \in 1 .. Len(stream')
  <2>1. k + 1 \in 1 .. Len(stream) /\ done + (k + 1) = (done + 1) + k BY <1>1, <1>3
  <2>2. QED BY <1>0, <1>1, <1>2, <2>1
<1>6. \A i \in 1 .. Inputs :
        (i <= n => hostInput[i] = Combined) /\ (i <= done => deviceInput[i] = Combined)
  BY DEF Work
<1>7. \A o \in 1 .. Outputs :
        (done > Inputs => deviceOutput[o] = Computed) /\ (done > Inputs + o => hostOutput[o] = Computed)
  BY DEF Work
<1> HIDE DEF done
<1>8. /\ \A i \in 1 .. Inputs : i <= done + 1 => deviceInput'[i] = Combined
      /\ \A o \in 1 .. Outputs :
           /\ done + 1 > Inputs => deviceOutput'[o] = Computed
           /\ done + 1 > Inputs + o => hostOutput'[o] = Computed
  <2>1. CASE done + 1 <= Inputs
    <3>1. t.kind = "input" /\ t.index = done + 1 BY <1>4, <2>1 DEF TaskAt
    <3>2. deviceInput' = [deviceInput EXCEPT ![done + 1] = hostInput[done + 1]]
      BY <3>1 DEF Device
    <3>3. done + 1 \in 1 .. Inputs /\ hostInput[done + 1] = Combined BY <1>3, <1>6, <2>1
    <3>4. \A i \in 1 .. Inputs : i <= done + 1 => deviceInput'[i] = Combined
      BY <1>3, <1>6, <3>2, <3>3 DEF AclTypes
    <3>5. QED BY <1>3, <2>1, <3>4, AclSizes
  <2>2. CASE done = Inputs
    <3>1. t.kind = "model" BY <1>4, <2>2, AclSizes DEF TaskAt
    <3>2. deviceOutput' = ModelRun /\ deviceInput' = deviceInput BY <3>1 DEF Device
    <3>3. \A i \in 1 .. Inputs : deviceInput[i] = Combined BY <1>6, <2>2, AclSizes
    <3>4. \A o \in 1 .. Outputs : ModelRun[o] = Computed BY <3>3, ModelRuns
    <3>5. QED BY <1>6, <2>2, <3>2, <3>3, <3>4, AclSizes
  <2>3. CASE done > Inputs
    <3>1. t.kind = "output" /\ t.index = (done + 1) - (Inputs + 1)
      BY <1>3, <1>4, <2>3, AclSizes DEF TaskAt
    <3>2. (done + 1) - (Inputs + 1) = done - Inputs /\ done - Inputs \in 1 .. Outputs
      BY <1>3, <2>3, AclSizes
    <3>3. /\ hostOutput' = [hostOutput EXCEPT ![done - Inputs] = deviceOutput[done - Inputs]]
          /\ deviceOutput' = deviceOutput /\ deviceInput' = deviceInput
      BY <3>1, <3>2 DEF Device
    <3>4. deviceOutput[done - Inputs] = Computed BY <1>7, <2>3, <3>2
    <3>5. \A o \in 1 .. Outputs : done + 1 > Inputs + o => hostOutput'[o] = Computed
      <4> SUFFICES ASSUME NEW o \in 1 .. Outputs, done + 1 > Inputs + o PROVE hostOutput'[o] = Computed
        OBVIOUS
      <4>1. CASE o = done - Inputs BY <3>2, <3>3, <3>4, <4>1 DEF AclTypes
      <4>2. CASE o # done - Inputs
        <5>1. done > Inputs + o BY <1>3, <4>2, AclSizes
        <5>2. hostOutput'[o] = hostOutput[o] BY <3>3, <4>2 DEF AclTypes
        <5>3. QED BY <1>7, <5>1, <5>2
      <4>3. QED BY <4>1, <4>2
    <3>6. QED BY <1>3, <1>6, <1>7, <2>3, <3>3, <3>5, AclSizes
  <2>4. QED BY <1>3, <2>1, <2>2, <2>3, AclSizes
<1>9. QED BY <1>0, <1>1, <1>3, <1>5, <1>6, <1>8 DEF Work

\* The buffers keep their types, and the tasks after the first stay.
LEMMA DeviceKeeps ==
  ASSUME StreamInv, Device
  PROVE  AclTypes' /\ CopyInv'
<1>1. AclTypes BY DEF StreamInv
<1>2. /\ Len(stream) \in Nat /\ Len(stream) >= 1 /\ Head(stream) = stream[1]
      /\ stream' \in Seq(AclTask) /\ hostInput' = hostInput
      /\ \A k \in 1 .. Len(stream') : stream'[k] = stream[k + 1] /\ k + 1 \in 1 .. Len(stream)
  BY <1>1, FirstTask
<1>3. CopyInv' BY <1>2 DEF StreamInv, CopyInv
<1> DEFINE t == Head(stream)
<1>4. t.kind \in {"input", "model", "output"} BY <1>1, FirstTask
<1>5. /\ deviceInput' \in [1 .. Inputs -> [Places -> Part]]
      /\ deviceOutput' \in [1 .. Outputs -> [Places -> SUBSET Part]]
      /\ hostOutput' \in [1 .. Outputs -> [Places -> SUBSET Part]]
  <2>1. CASE t.kind = "input"
    <3>1. t.index \in 1 .. Inputs BY <1>2, <2>1 DEF StreamInv, CopyInv
    <3>2. /\ deviceInput' = [deviceInput EXCEPT ![t.index] = hostInput[t.index]]
          /\ UNCHANGED <<deviceOutput, hostOutput>>
      BY <2>1 DEF Device
    <3>3. QED BY <3>1, <3>2 DEF StreamInv, AclTypes
  <2>2. CASE t.kind = "model"
    <3>1. deviceOutput' = ModelRun /\ UNCHANGED <<deviceInput, hostOutput>> BY <2>2 DEF Device
    <3>2. ModelRun \in [1 .. Outputs -> [Places -> SUBSET Part]]
      BY DEF StreamInv, AclTypes, ModelRun
    <3>3. QED BY <3>1, <3>2 DEF StreamInv, AclTypes
  <2>3. CASE t.kind = "output"
    <3>1. t.index \in 1 .. Outputs BY <1>2, <2>3 DEF StreamInv, CopyInv
    <3>2. /\ hostOutput' = [hostOutput EXCEPT ![t.index] = deviceOutput[t.index]]
          /\ UNCHANGED <<deviceInput, deviceOutput>>
      BY <2>3 DEF Device
    <3>3. QED BY <3>1, <3>2 DEF StreamInv, AclTypes
  <2>4. QED BY <1>4, <2>1, <2>2, <2>3
<1>6. UNCHANGED <<step, asyncStream, call, next, asked, broken, streamFailed>> BY DEF Device
<1>7. QED BY <1>1, <1>2, <1>3, <1>5, <1>6 DEF AclTypes

LEMMA DeviceStep ==
  ASSUME StreamInv, Device
  PROVE  StreamInv'
<1>1. AclTypes' /\ CopyInv' BY DeviceKeeps
<1>2. UNCHANGED <<step, asyncStream, call, next, asked, broken, streamFailed>> /\ stream # <<>>
  BY DEF Device
<1>3. step \notin {"unloaded", "blocking", "collect"} BY <1>2 DEF StreamInv, StepInv
<1>4. AclTypes /\ next \in Nat /\ \A n \in Nat : n <= (Inputs + 1) + Outputs /\ Work(n) => Work(n)'
  BY WorkDone DEF StreamInv, AclTypes
<1>5. step = "inputs" => Work(next - 1)'
  <2> SUFFICES ASSUME step = "inputs" PROVE Work(next - 1)' OBVIOUS
  <2>1. next \in 1 .. Inputs /\ Work(next - 1) BY DEF StreamInv, StepInv
  <2>2. PICK n \in Nat : n = next - 1 BY <2>1, AclSizes
  <2>3. Work(n)' BY <1>4, <2>1, <2>2, AclSizes
  <2>4. QED BY <1>2, <2>2, <2>3
<1>6. step = "model" => Work(Inputs)' BY <1>4, AclSizes DEF StreamInv, StepInv
<1>7. step = "outputs" => Work(Inputs + next)'
  <2> SUFFICES ASSUME step = "outputs" PROVE Work(Inputs + next)' OBVIOUS
  <2>1. next \in 1 .. Outputs /\ Work(Inputs + next) BY DEF StreamInv, StepInv
  <2>2. PICK n \in Nat : n = Inputs + next BY <2>1, AclSizes
  <2>3. Work(n)' BY <1>4, <2>1, <2>2, AclSizes
  <2>4. QED BY <1>2, <2>2, <2>3
<1>8. step = "synchronizing" => Work((Inputs + 1) + Outputs)' BY <1>4, AclSizes DEF StreamInv, StepInv
<1>9. StepInv' BY <1>2, <1>3, <1>5, <1>6, <1>7, <1>8 DEF StreamInv, StepInv
<1>10. QED BY <1>1, <1>9 DEF StreamInv

\* A task is appended to the stream; tasks in front of it keep their buffers.
LEMMA CopyQueued ==
  ASSUME AclTypes, CopyInv, NEW t \in AclTask, stream' = Append(stream, t),
         \A k \in 1 .. Len(stream) : stream[k].kind = "input" =>
           hostInput'[stream[k].index] = hostInput[stream[k].index],
         t.kind = "input" =>
           t.index \in 1 .. Inputs /\ \A p \in Places : hostInput'[t.index][p][1] = t.call,
         t.kind = "output" => t.index \in 1 .. Outputs
  PROVE  stream' \in Seq(AclTask) /\ CopyInv'
<1>1. /\ Len(stream) \in Nat /\ Len(stream') = Len(stream) + 1 /\ stream'[Len(stream) + 1] = t
      /\ \A k \in 1 .. Len(stream) : stream'[k] = stream[k]
      /\ stream' \in Seq(AclTask)
  BY AppendProperties, LenProperties DEF AclTypes
<1>2. \A k \in 1 .. Len(stream') : k \in 1 .. Len(stream) \/ k = Len(stream) + 1 BY <1>1
<1>3. QED BY <1>1, <1>2 DEF CopyInv

LEMMA CopyInputStep ==
  ASSUME StreamInv, CopyInput
  PROVE  StreamInv'
<1>1. /\ next \in 1 .. Inputs /\ Work(next - 1) /\ asyncStream /\ AclTypes /\ CopyInv
      /\ next - 1 \in Nat /\ next \in Nat /\ next <= Inputs
  BY AclSizes DEF CopyInput, StreamInv, StepInv
<1>2. /\ hostInput' = [hostInput EXCEPT ![next] = Combined]
      /\ UNCHANGED <<asyncStream, call, asked, broken, streamFailed, deviceInput, deviceOutput, hostOutput>>
      /\ next' = IF next = Inputs THEN 1 ELSE next + 1
  BY DEF CopyInput, Enqueue
<1>3. /\ hostInput' \in [1 .. Inputs -> [Places -> Part]] /\ hostInput'[next] = Combined
      /\ \A i \in 1 .. Inputs : i # next => hostInput'[i] = hostInput[i]
  BY <1>1, <1>2, CombinedType DEF AclTypes
<1>4. next' \in Nat /\ next' \in 1 .. Inputs BY <1>1, <1>2, AclSizes
<1>5. \A k \in 1 .. Len(stream) : stream[k].kind = "input" =>
         stream[k].index \in 1 .. Inputs /\ stream[k].index # next
  <2> SUFFICES ASSUME NEW k \in 1 .. Len(stream)
               PROVE  stream[k].index \in 1 .. Inputs /\ stream[k].index # next
    OBVIOUS
  <2>1. Len(stream) \in Nat /\ Len(stream) <= next - 1 BY <1>1, LenProperties DEF Work, AclTypes
  <2>2. PICK m \in Nat : m = ((next - 1) - Len(stream)) + k
    <3>1. ((next - 1) - Len(stream)) + k \in Nat BY <1>1, <2>1
    <3>2. QED BY <3>1
  <2>3. m >= 1 /\ m < next BY <1>1, <2>1, <2>2
  <2>4. stream[k] = TaskAt(m, call) BY <1>1, <2>2 DEF Work
  <2>5. stream[k].index = m BY <1>1, <2>3, <2>4, AclSizes DEF TaskAt
  <2>6. QED BY <1>1, <2>3, <2>5, AclSizes
<1>6. CASE /\ stream' = Append(stream, [kind |-> "input", index |-> next, call |-> call])
           /\ step' = IF next = Inputs THEN "model" ELSE "inputs"
  <2> DEFINE t == [kind |-> "input", index |-> next, call |-> call]
  <2>1. t \in AclTask /\ t = TaskAt((next - 1) + 1, call)
    BY <1>1, AclSizes DEF AclTask, TaskAt, AclTypes
  <2>2. \A p \in Places : hostInput'[t.index][p][1] = t.call BY <1>1, <1>3, CombinedType
  <2>3. t.kind = "input" /\ t.index \in 1 .. Inputs BY <1>1
  <2>4. \A k \in 1 .. Len(stream) : stream[k].kind = "input" =>
           hostInput'[stream[k].index] = hostInput[stream[k].index]
    BY <1>3, <1>5
  <2>5. stream' = Append(stream, t) BY <1>6
  <2> HIDE DEF t
  <2>6. stream' \in Seq(AclTask) /\ CopyInv'
    BY <1>1, <2>1, <2>2, <2>3, <2>4, <2>5, CopyQueued
  <2>7. PICK n \in Nat : n = next - 1 BY <1>1
  <2>8. Work(n + 1)'
    <3>1. stream' = Append(stream, TaskAt(n + 1, call)) /\ TaskAt(n + 1, call) \in AclTask /\ Work(n)
      BY <1>1, <2>1, <2>5, <2>7
    <3>2. \A i \in 1 .. Inputs : i <= n => hostInput'[i] = hostInput[i] BY <1>1, <1>3, <2>7
    <3>3. n + 1 <= Inputs => hostInput'[n + 1] = Combined BY <1>1, <1>3, <2>7
    <3>4. QED BY <1>1, <1>2, <3>1, <3>2, <3>3, WorkQueued
  <2>9. AclTypes' BY <1>1, <1>2, <1>3, <1>4, <1>6, <2>6 DEF AclTypes
  <2>10. n + 1 = next BY <1>1, <2>7
  <2>11. StepInv'
    <3>1. CASE next = Inputs
      <4>1. Work(Inputs)' BY <2>8, <2>10, <3>1
      <4>2. QED BY <1>1, <1>2, <1>6, <3>1, <4>1 DEF StepInv
    <3>2. CASE next # Inputs
      <4>1. next' = n + 2 /\ next' - 1 = n + 1 BY <1>1, <1>2, <2>10, <3>2
      <4>2. Work(next - 1)' BY <2>8, <4>1
      <4>3. QED BY <1>1, <1>2, <1>4, <1>6, <3>2, <4>2 DEF StepInv
    <3>3. QED BY <3>1, <3>2
  <2>12. QED BY <2>6, <2>9, <2>11 DEF StreamInv
<1>7. CASE step' = "draining" /\ stream' = stream
  <2>1. CopyInv' BY <1>1, <1>3, <1>5, <1>7 DEF CopyInv
  <2>2. AclTypes' BY <1>1, <1>2, <1>3, <1>4, <1>7 DEF AclTypes
  <2>3. StepInv' BY <1>7 DEF StepInv
  <2>4. QED BY <2>1, <2>2, <2>3 DEF StreamInv
<1>8. QED BY <1>6, <1>7 DEF CopyInput, Enqueue

\* ExecuteModel and CopyOutput queue the task after the n-th, or drain the stream.
LEMMA QueueStep ==
  ASSUME StreamInv, NEW n \in Nat, n >= Inputs, n <= Inputs + Outputs, Work(n),
         UNCHANGED <<asyncStream, call, asked, buffers, broken, streamFailed>>, next' \in Nat,
         step' \in {"outputs", "synchronizing", "draining"},
         \/ stream' = Append(stream, TaskAt(n + 1, call)) /\ step' # "draining"
         \/ stream' = stream /\ step' = "draining"
  PROVE  AclTypes' /\ CopyInv' /\ (step' # "draining" => Work(n + 1)')
<1>1. AclTypes /\ CopyInv /\ call \in Nat BY DEF StreamInv, AclTypes
<1>2. UNCHANGED <<hostInput, deviceInput, deviceOutput, hostOutput>> BY DEF buffers
<1>3. CASE stream' = stream /\ step' = "draining"
  BY <1>1, <1>2, <1>3 DEF AclTypes, CopyInv
<1>4. CASE stream' = Append(stream, TaskAt(n + 1, call)) /\ step' # "draining"
  <2>1. /\ TaskAt(n + 1, call) \in AclTask /\ TaskAt(n + 1, call).kind # "input"
        /\ TaskAt(n + 1, call).kind = "output" => TaskAt(n + 1, call).index \in 1 .. Outputs
    BY <1>1, AclSizes DEF AclTask, TaskAt
  <2>2. stream' \in Seq(AclTask) /\ CopyInv' BY <1>1, <1>2, <1>4, <2>1, CopyQueued
  <2>3. Work(n + 1)'
    <3>1. ~(n + 1 <= Inputs) BY AclSizes
    <3>2. QED BY <1>1, <1>2, <1>4, <2>1, <3>1, WorkQueued
  <2>4. AclTypes' BY <1>1, <1>2, <2>2 DEF AclTypes
  <2>5. QED BY <2>2, <2>3, <2>4
<1>5. QED BY <1>3, <1>4

LEMMA ExecuteModelStep ==
  ASSUME StreamInv, ExecuteModel
  PROVE  StreamInv'
<1>1. next = 1 /\ Work(Inputs) /\ asyncStream /\ call \in Nat
  BY DEF ExecuteModel, StreamInv, StepInv, AclTypes
<1>2. UNCHANGED <<asyncStream, call, asked, buffers, broken, streamFailed, next>>
  BY DEF ExecuteModel, Enqueue
<1>3. TaskAt(Inputs + 1, call) = [kind |-> "model", index |-> next, call |-> call]
  BY <1>1, AclSizes DEF TaskAt
<1>4. \/ stream' = Append(stream, TaskAt(Inputs + 1, call)) /\ step' = "outputs"
      \/ stream' = stream /\ step' = "draining"
  BY <1>3 DEF ExecuteModel, Enqueue
<1>5. AclTypes' /\ CopyInv' /\ (step' # "draining" => Work(Inputs + 1)')
  <2>1. next' \in Nat /\ Inputs <= Inputs + Outputs /\ Inputs \in Nat /\ Inputs >= Inputs
    BY <1>1, <1>2, AclSizes
  <2>2. \A n \in Nat : n = Inputs => AclTypes' /\ CopyInv' /\ (step' # "draining" => Work(n + 1)')
    BY <1>1, <1>2, <1>4, <2>1, QueueStep
  <2>3. QED BY <2>1, <2>2
<1>6. StepInv' BY <1>1, <1>2, <1>4, <1>5, AclSizes DEF StepInv
<1>7. QED BY <1>5, <1>6 DEF StreamInv

LEMMA CopyOutputStep ==
  ASSUME StreamInv, CopyOutput
  PROVE  StreamInv'
<1>1. /\ next \in 1 .. Outputs /\ Work(Inputs + next) /\ asyncStream /\ call \in Nat
      /\ next \in Nat /\ next >= 1 /\ next <= Outputs
  BY AclSizes DEF CopyOutput, StreamInv, StepInv, AclTypes
<1>2. /\ UNCHANGED <<asyncStream, call, asked, buffers, broken, streamFailed>> /\ next' = next + 1
  BY DEF CopyOutput, Enqueue
<1>3. PICK n \in Nat : n = Inputs + next BY <1>1, AclSizes
<1>4. TaskAt(n + 1, call) = [kind |-> "output", index |-> next, call |-> call]
  BY <1>1, <1>3, AclSizes DEF TaskAt
<1>5. \/ /\ stream' = Append(stream, TaskAt(n + 1, call))
         /\ step' = IF next = Outputs THEN "synchronizing" ELSE "outputs"
      \/ stream' = stream /\ step' = "draining"
  BY <1>4 DEF CopyOutput, Enqueue
<1>6. AclTypes' /\ CopyInv' /\ (step' # "draining" => Work(n + 1)')
  <2>1. next' \in Nat /\ n >= Inputs /\ n <= Inputs + Outputs /\ Work(n) BY <1>1, <1>2, <1>3, AclSizes
  <2>2. QED BY <1>2, <1>5, <2>1, QueueStep
<1>7. StepInv'
  <2>1. CASE step' = "draining" BY <2>1 DEF StepInv
  <2>2. CASE step' = "synchronizing"
    <3>1. n + 1 = (Inputs + 1) + Outputs BY <1>1, <1>3, <1>5, <2>2, AclSizes
    <3>2. Work((Inputs + 1) + Outputs)' BY <1>6, <2>2, <3>1
    <3>3. QED BY <1>1, <1>2, <2>2, <3>2 DEF StepInv
  <2>3. CASE step' = "outputs"
    <3>1. next' \in 1 .. Outputs /\ Inputs + next' = n + 1 BY <1>1, <1>2, <1>3, <1>5, <2>3, AclSizes
    <3>2. Work(Inputs + next)' BY <1>6, <2>3, <3>1
    <3>3. QED BY <1>1, <1>2, <2>3, <3>1, <3>2 DEF StepInv
  <2>4. QED BY <1>5, <2>1, <2>2, <2>3
<1>8. QED BY <1>6, <1>7 DEF StreamInv

\* Without a stream the device's buffers are the call's as far as it is.
LEMMA BlockingStep ==
  ASSUME StreamInv, Blocking
  PROVE  StreamInv'
<1>1. /\ AclTypes /\ CopyInv /\ ~asyncStream /\ stream = <<>> /\ next \in 1 .. Inputs + 1
      /\ \A i \in 1 .. Inputs : i < next => deviceInput[i] = Combined
  BY DEF Blocking, StreamInv, StepInv
<1>2. UNCHANGED <<asyncStream, call, asked, hostInput, hostOutput, stream, broken, streamFailed>>
  BY DEF Blocking
<1>3. CopyInv' /\ Combined' = Combined /\ Computed' = Computed
  BY <1>1, <1>2 DEF CopyInv, Combined, Computed
<1>4. CASE /\ next <= Inputs /\ deviceInput' = [deviceInput EXCEPT ![next] = Combined]
           /\ next' = next + 1 /\ UNCHANGED <<step, deviceOutput>>
  <2>1. next' \in 1 .. Inputs + 1 /\ next' \in Nat /\ next \in 1 .. Inputs BY <1>1, <1>4, AclSizes
  <2>2. /\ deviceInput' \in [1 .. Inputs -> [Places -> Part]]
        /\ \A i \in 1 .. Inputs : i < next + 1 => deviceInput'[i] = Combined
    BY <1>1, <1>4, <2>1, CombinedType, AclSizes DEF AclTypes
  <2>3. AclTypes' BY <1>1, <1>2, <1>4, <2>1, <2>2 DEF AclTypes
  <2>4. step' = "blocking" BY <1>4 DEF Blocking
  <2>5. StepInv' BY <1>1, <1>2, <1>3, <1>4, <2>1, <2>2, <2>4 DEF StepInv
  <2>6. QED BY <1>3, <2>3, <2>5 DEF StreamInv
<1>5. CASE next = Inputs + 1 /\ deviceOutput' = ModelRun /\ step' = "collect" /\ UNCHANGED <<next, deviceInput>>
  <2>1. \A i \in 1 .. Inputs : deviceInput[i] = Combined BY <1>1, <1>5, AclSizes
  <2>2. \A o \in 1 .. Outputs : deviceOutput'[o] = Computed BY <1>5, <2>1, ModelRuns
  <2>3. ModelRun \in [1 .. Outputs -> [Places -> SUBSET Part]] BY <1>1 DEF AclTypes, ModelRun
  <2>4. AclTypes' BY <1>1, <1>2, <1>5, <2>3 DEF AclTypes
  <2>5. StepInv' BY <1>1, <1>2, <1>3, <1>5, <2>2 DEF StepInv
  <2>6. QED BY <1>3, <2>4, <2>5 DEF StreamInv
<1>6. CASE step' = "idle" /\ UNCHANGED <<next, deviceInput, deviceOutput>>
  <2>1. AclTypes' BY <1>1, <1>2, <1>6 DEF AclTypes
  <2>2. StepInv' BY <1>1, <1>2, <1>6 DEF StepInv
  <2>3. QED BY <1>3, <2>1, <2>2 DEF StreamInv
<1>7. QED BY <1>4, <1>5, <1>6 DEF Blocking

LEMMA SynchronizeStep ==
  ASSUME StreamInv, Synchronize
  PROVE  StreamInv'
<1>1. AclTypes /\ CopyInv /\ Work((Inputs + 1) + Outputs) /\ asyncStream
  BY DEF Synchronize, StreamInv, StepInv
<1>2. /\ UNCHANGED <<asyncStream, call, next, asked, hostInput, deviceInput, deviceOutput,
                      hostOutput, stream, broken>>
      /\ streamFailed' = broken /\ step' = IF broken THEN "idle" ELSE "collect"
      /\ stream = <<>> \/ broken
  BY DEF Synchronize, Synchronized, buffers
<1>3. AclTypes' /\ CopyInv' BY <1>1, <1>2 DEF AclTypes, CopyInv
<1>4. ASSUME broken PROVE StepInv' BY <1>2, <1>4 DEF StepInv
<1>5. ASSUME ~broken PROVE StepInv'
  <2>1. stream = <<>> /\ Len(stream) = 0 BY <1>2, <1>5, EmptySeq
  <2>2. \A o \in 1 .. Outputs : hostOutput[o] = Computed BY <1>1, <2>1, AclSizes DEF Work
  <2>3. \A o \in 1 .. Outputs : hostOutput'[o] = Computed' BY <1>2, <2>2 DEF Computed, Combined
  <2>4. QED BY <1>1, <1>2, <1>5, <2>1, <2>3 DEF StepInv
<1>6. QED BY <1>1, <1>3, <1>4, <1>5 DEF StreamInv, AclTypes

LEMMA AclCallStep ==
  ASSUME StreamInv, Call
  PROVE  StreamInv'
<1>1. /\ UNCHANGED <<asyncStream, hostInput, deviceInput, deviceOutput, hostOutput, stream, broken, streamFailed>>
      /\ step = "idle" /\ call' = call + 1 /\ asked' \in 1 .. Physical
      /\ \/ step' = "idle" /\ next' = next
         \/ ~streamFailed /\ next' = 1 /\ step' = IF asyncStream THEN "inputs" ELSE "blocking"
  BY DEF Call, buffers
<1>2. asked' \in 0 .. Physical /\ call' \in Nat /\ next' \in Nat BY <1>1, AclSizes DEF StreamInv, AclTypes
<1>3. AclTypes' /\ CopyInv' BY <1>1, <1>2 DEF StreamInv, AclTypes, CopyInv
<1>4. CASE step' = "idle" BY <1>1, <1>3, <1>4 DEF StreamInv, StepInv
<1>5. CASE ~streamFailed /\ next' = 1 /\ step' = IF asyncStream THEN "inputs" ELSE "blocking"
  <2>1. stream' = <<>> BY <1>1, <1>5 DEF StreamInv, StepInv
  <2>2. Work(0)' BY <2>1, WorkBegun
  <2>3. next' - 1 = 0 /\ next' \in 1 .. Inputs /\ next' \in 1 .. Inputs + 1 BY <1>5, AclSizes
  <2>4. Work(next - 1)' BY <2>2, <2>3
  <2>5. asyncStream' = asyncStream /\ asyncStream \in BOOLEAN BY <1>1 DEF StreamInv, AclTypes
  <2>6. \A i \in 1 .. Inputs : ~(i < next') BY <1>5
  <2>7. StepInv' BY <1>5, <2>1, <2>3, <2>4, <2>5, <2>6 DEF StepInv
  <2>8. QED BY <1>3, <2>7 DEF StreamInv
<1>6. QED BY <1>1, <1>4, <1>5

\* The steps at which the buffers and the stream of a call are of no more interest.
LEMMA RestStep ==
  ASSUME StreamInv, Load \/ DeviceFails \/ Drain \/ Collect \/ Clear
  PROVE  StreamInv'
<1>1. ASSUME Load PROVE StreamInv'
  BY <1>1 DEF Load, buffers, StreamInv, AclTypes, StepInv, CopyInv
<1>2. ASSUME DeviceFails PROVE StreamInv'
  <2>1. /\ UNCHANGED <<step, asyncStream, call, next, asked, hostInput, deviceInput, deviceOutput,
                       hostOutput, stream, streamFailed>>
        /\ broken' = TRUE
    BY <1>2 DEF DeviceFails, buffers
  <2>2. AclTypes' /\ CopyInv' BY <2>1 DEF StreamInv, AclTypes, CopyInv
  <2>3. StepInv' BY <2>1 DEF StreamInv, StepInv, Work, Combined, Computed
  <2>4. QED BY <2>2, <2>3 DEF StreamInv
<1>3. ASSUME Drain \/ Collect PROVE StreamInv'
  <2>1. /\ UNCHANGED <<asyncStream, call, next, asked, hostInput, deviceInput, deviceOutput,
                       hostOutput, stream, broken>>
        /\ step' = "idle" /\ streamFailed' \in BOOLEAN /\ (stream # <<>> => streamFailed')
    BY <1>3 DEF Drain, Collect, Synchronized, buffers, StreamInv, StepInv, AclTypes
  <2>2. AclTypes' /\ CopyInv' BY <2>1 DEF StreamInv, AclTypes, CopyInv
  <2>3. StepInv' BY <2>1 DEF StepInv
  <2>4. QED BY <2>2, <2>3 DEF StreamInv
<1>4. ASSUME Clear PROVE StreamInv'
  <2>1. /\ UNCHANGED <<asyncStream, call, next, asked, hostInput, deviceInput, deviceOutput,
                       hostOutput, broken, streamFailed>>
        /\ step' = "freed" /\ stream' = <<>>
    BY <1>4 DEF Clear, buffers
  <2>2. stream' \in Seq(AclTask) /\ Len(stream') = 0 BY <2>1
  <2>3. AclTypes' BY <2>1, <2>2 DEF StreamInv, AclTypes
  <2>4. CopyInv' BY <2>2 DEF CopyInv
  <2>5. StepInv' BY <2>1 DEF StepInv
  <2>6. QED BY <2>3, <2>4, <2>5 DEF StreamInv
<1>5. QED BY <1>1, <1>2, <1>3, <1>4

LEMMA StreamStep == StreamInv /\ [AclNext]_aclVars => StreamInv'
<1>1. ASSUME StreamInv, UNCHANGED aclVars PROVE StreamInv'
  <2>1. Combined' = Combined /\ Computed' = Computed
    BY <1>1 DEF aclVars, buffers, Combined, Computed
  <2>2. AclTypes' BY <1>1 DEF aclVars, buffers, StreamInv, AclTypes
  <2>3. StepInv' BY <1>1, <2>1 DEF aclVars, buffers, StreamInv, StepInv, Work
  <2>4. CopyInv' BY <1>1, <2>1 DEF aclVars, buffers, StreamInv, CopyInv
  <2>5. QED BY <2>2, <2>3, <2>4 DEF StreamInv
<1>2. QED
  BY <1>1, DeviceStep, CopyInputStep, ExecuteModelStep, CopyOutputStep, BlockingStep,
     SynchronizeStep, AclCallStep, RestStep
  DEF AclNext

(* A result is computed from the inputs of its own request and call,       *)
(* although the buffers are used by call after call and the device works   *)
(* through the stream behind run(), for any numbers of inputs, outputs,    *)
(* places and calls, and wherever the runtime or the device fails.         *)
THEOREM CallsStayApart == AclSpec => []CallsDoNotMix
<1>1. StreamInv => CallsDoNotMix
  <2> SUFFICES ASSUME StreamInv PROVE CallsDoNotMix OBVIOUS
  <2>1. \A t \in Range(stream) : t.kind = "input" =>
           \A p \in Places : hostInput[t.index][p][1] = t.call
    <3>1. DOMAIN stream = 1 .. Len(stream) BY LenProperties DEF StreamInv, AclTypes
    <3>2. QED BY <3>1 DEF StreamInv, CopyInv, Range
  <2>2. ASSUME step = "collect", NEW o \in 1 .. Outputs, NEW r \in 1 .. asked
        PROVE  Slice(o, r) = {<<call, r>>}
    <3>1. Returned(o) = Computed BY <2>2 DEF StreamInv, StepInv, Returned
    <3>2. asked \in Nat /\ asked <= Physical BY AclSizes DEF StreamInv, AclTypes
    <3>3. r \in Places /\ (IF r < asked THEN r ELSE asked) = r BY <3>2, AclSizes DEF Places
    <3>4. Combined[r] = <<call, r>> BY <3>3 DEF Combined
    <3>5. QED BY <3>1, <3>3, <3>4 DEF Slice, Computed
  <2>3. step = "idle" /\ stream # <<>> => streamFailed BY DEF StreamInv, StepInv
  <2>4. QED BY <2>1, <2>2, <2>3 DEF CallsDoNotMix
<1>2. QED BY <1>1, StreamInit, StreamStep, PTL DEF AclSpec

-----------------------------------------------------------------------------
(* InputSize.  Multiples of a factor.                                      *)

LEMMA DivMod ==
  \A n \in Nat, f \in Nat \ {0} :
    /\ n \div f \in Nat /\ n % f \in 0 .. f - 1
    /\ (n \div f) * f <= n /\ n < (n \div f) * f + f
    /\ n % f = n - (n \div f) * f
<1> TAKE n \in Nat, f \in Nat \ {0}
<1>1. n \div f \in Int /\ n \div f >= 0 OBVIOUS
<1>2. n % f \in 0 .. f - 1 OBVIOUS
<1>3. f * (n \div f) <= n OBVIOUS
<1>4. n < f * (n \div f) + f OBVIOUS
<1>5. n % f = n - f * (n \div f) OBVIOUS
<1>6. f * (n \div f) = (n \div f) * f BY <1>1
<1>7. QED BY <1>1, <1>2, <1>3, <1>4, <1>5, <1>6

LEMMA Multiple ==
  \A k \in Nat, f \in Nat \ {0} : (k * f) % f = 0 /\ (k * f) \div f = k
  OBVIOUS

\* What is divisible is that many times the factor.
LEMMA Divisible ==
  \A m \in Nat, f \in Nat \ {0} : m % f = 0 => m = (m \div f) * f /\ m \div f \in Nat
<1> TAKE m \in Nat, f \in Nat \ {0}
<1>1. m \div f \in Nat /\ m % f = m - (m \div f) * f BY DivMod
<1>2. (m \div f) * f \in Nat BY <1>1
<1>3. QED BY <1>1, <1>2

LEMMA Less ==
  \A j, q, f \in Nat : j * f \in Nat /\ (j < q => j * f + f <= q * f) /\ (j <= q => j * f <= q * f)
  OBVIOUS

\* Up(n, f) is the least multiple that is not below n.
LEMMA UpIs ==
  \A n \in Nat, f \in Nat \ {0} :
    /\ Up(n, f) \in Nat /\ Up(n, f) >= n /\ Up(n, f) % f = 0
    /\ \A m \in Nat : m >= n /\ m % f = 0 => m >= Up(n, f)
<1> TAKE n \in Nat, f \in Nat \ {0}
<1> DEFINE q == (n + f - 1) \div f
<1>1. q \in Nat /\ q * f <= n + f - 1 /\ n + f - 1 < q * f + f
  <2>1. n + f - 1 \in Nat OBVIOUS
  <2>2. QED BY <2>1, DivMod
<1>2. Up(n, f) = q * f BY DEF Up
<1>3. (q * f) % f = 0 BY <1>1, Multiple
<1> HIDE DEF q
<1>4. q * f \in Nat BY <1>1, Less
<1>5. ASSUME NEW m \in Nat, m >= n, m % f = 0 PROVE m >= q * f
  <2>1. PICK j \in Nat : m = j * f BY <1>5, Divisible
  <2>2. j < q => j * f + f <= q * f BY <1>1, Less
  <2>3. j >= q => q * f <= j * f BY <1>1, Less
  <2>4. QED BY <1>1, <1>4, <1>5, <2>1, <2>2, <2>3
<1>6. QED BY <1>1, <1>2, <1>3, <1>4, <1>5

\* Down(n, f) is the greatest multiple that is not above n.
LEMMA DownIs ==
  \A n \in Nat, f \in Nat \ {0} :
    /\ Down(n, f) \in Nat /\ Down(n, f) <= n /\ Down(n, f) % f = 0
    /\ \A m \in Nat : m <= n /\ m % f = 0 => m <= Down(n, f)
<1> TAKE n \in Nat, f \in Nat \ {0}
<1> DEFINE q == n \div f
<1>1. q \in Nat /\ q * f <= n /\ n < q * f + f BY DivMod
<1>2. Down(n, f) = q * f BY DEF Down
<1>3. (q * f) % f = 0 BY <1>1, Multiple
<1> HIDE DEF q
<1>4. q * f \in Nat BY <1>1, Less
<1>5. ASSUME NEW m \in Nat, m <= n, m % f = 0 PROVE m <= q * f
  <2>1. PICK j \in Nat : m = j * f BY <1>5, Divisible
  <2>2. q < j => q * f + f <= j * f BY <1>1, Less
  <2>3. j <= q => j * f <= q * f BY <1>1, Less
  <2>4. QED BY <1>1, <1>4, <1>5, <2>1, <2>2, <2>3
<1>6. QED BY <1>1, <1>2, <1>3, <1>4, <1>5

\* A multiple is rounded to itself.
LEMMA RoundIs ==
  \A n \in Nat, f \in Nat \ {0} : n % f = 0 => Round(n, f) * f = n
<1> TAKE n \in Nat, f \in Nat \ {0}
<1> HAVE n % f = 0
<1>1. PICK k \in Nat : n = k * f BY Divisible
<1>2. (2 * (k * f) + f) \div (2 * f) = k OBVIOUS
<1>3. QED BY <1>1, <1>2 DEF Round

\* The heights of at least a pixels and of at most a pixels, w wide.
LEMMA TallEnough ==
  \A a, h \in Nat, w \in Nat \ {0} :
    /\ (a + w - 1) \div w \in Nat
    /\ h >= (a + w - 1) \div w <=> w * h >= a
<1> TAKE a, h \in Nat, w \in Nat \ {0}
<1> DEFINE q == (a + w - 1) \div w
<1>1. q \in Nat /\ q * w <= a + w - 1 /\ a + w - 1 < q * w + w
  <2>1. a + w - 1 \in Nat OBVIOUS
  <2>2. QED BY <2>1, DivMod
<1> HIDE DEF q
<1>2. /\ q * w \in Nat /\ h * w \in Nat /\ w * h = h * w
      /\ h < q => h * w + w <= q * w
      /\ q <= h => q * w <= h * w
  BY <1>1, Less
<1>3. q \in Nat /\ (h >= q <=> w * h >= a) BY <1>1, <1>2
<1>4. QED BY <1>3 DEF q

LEMMA LowEnough ==
  \A a, h \in Nat, w \in Nat \ {0} :
    /\ a \div w \in Nat
    /\ h <= a \div w <=> w * h <= a
<1> TAKE a, h \in Nat, w \in Nat \ {0}
<1> DEFINE q == a \div w
<1>1. q \in Nat /\ q * w <= a /\ a < q * w + w BY DivMod
<1> HIDE DEF q
<1>2. /\ q * w \in Nat /\ h * w \in Nat /\ w * h = h * w
      /\ q < h => q * w + w <= h * w
      /\ h <= q => h * w <= q * w
  BY <1>1, Less
<1>3. q \in Nat /\ (h <= q <=> w * h <= a) BY <1>1, <1>2
<1>4. QED BY <1>3 DEF q

LEMMA MaxMin ==
  \A a, b \in Int :
    /\ Max({a, b}) \in {a, b} /\ Max({a, b}) >= a /\ Max({a, b}) >= b
    /\ Min({a, b}) \in {a, b} /\ Min({a, b}) <= a /\ Min({a, b}) <= b
<1> TAKE a, b \in Int
<1>1. \E x \in {a, b} : \A y \in {a, b} : x >= y OBVIOUS
<1>2. \E x \in {a, b} : \A y \in {a, b} : x <= y OBVIOUS
<1>3. QED BY <1>1, <1>2 DEF Max, Min

-----------------------------------------------------------------------------
(* What a model that is configured allows.                                 *)

Sized == limits \in ConfiguredLimits /\ image \in (Nat \ {0}) \X (Nat \ {0})
Heights(w) == Multiples(Lowest(w), Highest(w))

LEMMA LimitTypes ==
  ASSUME limits \in ConfiguredLimits
  PROVE  /\ Factor \in Nat \ {0} /\ limits.area[1] \in Nat /\ limits.area[2] \in Nat
         /\ \A e \in Edge : limits.edge[e][1] \in Nat \ {0} /\ limits.edge[e][2] \in Nat \ {0}
  BY SizeAssumption DEF ConfiguredLimits, Factor, Edge

LEMMA Bounds ==
  ASSUME limits \in ConfiguredLimits
  PROVE  \A e \in Edge : Low[e] \in Nat \ {0} /\ High[e] \in Nat
<1> TAKE e \in Edge
<1>1. /\ Factor \in Nat \ {0} /\ limits.edge[e][1] \in Nat \ {0}
      /\ limits.edge[e][2] \in Nat
  BY LimitTypes
<1>2. Low[e] = Up(limits.edge[e][1], Factor) /\ High[e] = Down(limits.edge[e][2], Factor)
  BY DEF Low, High
<1>3. \A n \in Nat : Up(n, Factor) \in Nat /\ Up(n, Factor) >= n /\ Down(n, Factor) \in Nat
  BY <1>1, UpIs, DownIs
<1>4. QED BY <1>1, <1>2, <1>3

\* The heights the search looks at for a width are those that fit.
LEMMA SearchIsExact ==
  ASSUME Sized, NEW w \in Multiples(Low[1], High[1]), NEW h
  PROVE  h \in Heights(w) <=> Fits(<<w, h>>)
<1> DEFINE a == limits.area[1]
           b == limits.area[2]
           q == (a + w - 1) \div w
           r == b \div w
<1>1. /\ Factor \in Nat \ {0} /\ a \in Nat /\ b \in Nat /\ w \in Nat \ {0}
      /\ Low[1] \in Nat \ {0} /\ High[1] \in Nat /\ Low[2] \in Nat \ {0} /\ High[2] \in Nat
  BY LimitTypes, Bounds DEF Sized, Edge, Multiples
<1>2. q \in Nat /\ r \in Nat
  <2>1. 0 \in Nat OBVIOUS
  <2>2. QED BY <1>1, <2>1, TallEnough, LowEnough
<1>3. /\ Lowest(w) = Max({Low[2], Up(q, Factor)}) /\ Highest(w) = Min({High[2], Down(r, Factor)})
  BY DEF Lowest, Highest
<1> HIDE DEF q, r
<1>4. Up(q, Factor) \in Nat /\ Down(r, Factor) \in Nat BY <1>1, <1>2, UpIs, DownIs
<1>5. /\ Lowest(w) \in {Low[2], Up(q, Factor)} /\ Lowest(w) >= Low[2] /\ Lowest(w) >= Up(q, Factor)
      /\ Highest(w) \in {High[2], Down(r, Factor)}
      /\ Highest(w) <= High[2] /\ Highest(w) <= Down(r, Factor)
  <2>1. \A m, n \in Nat :
          /\ Max({m, n}) \in {m, n} /\ Max({m, n}) >= m /\ Max({m, n}) >= n
          /\ Min({m, n}) \in {m, n} /\ Min({m, n}) <= m /\ Min({m, n}) <= n
    BY MaxMin
  <2>2. Low[2] \in Nat /\ High[2] \in Nat BY <1>1
  <2>3. QED BY <1>3, <1>4, <2>1, <2>2
<1>6. h \in Heights(w) <=>
        h \in Multiples(Low[2], High[2]) /\ Up(q, Factor) <= h /\ h <= Down(r, Factor)
  BY <1>1, <1>4, <1>5 DEF Heights, Multiples
<1>7. ASSUME h \in Multiples(Low[2], High[2])
      PROVE  /\ Up(q, Factor) <= h <=> w * h >= a
             /\ h <= Down(r, Factor) <=> w * h <= b
  <2>1. h \in Nat /\ h % Factor = 0 BY <1>1, <1>7 DEF Multiples
  <2>2. /\ Up(q, Factor) >= q /\ (h >= q => h >= Up(q, Factor))
        /\ Down(r, Factor) <= r /\ (h <= r => h <= Down(r, Factor))
    BY <1>1, <1>2, <2>1, UpIs, DownIs
  <2>3. /\ h >= q <=> w * h >= a
        /\ h <= r <=> w * h <= b
    BY <1>1, <2>1, TallEnough, LowEnough DEF q, r
  <2>4. QED BY <1>2, <1>4, <2>1, <2>2, <2>3
<1>8. Fits(<<w, h>>) <=> h \in Multiples(Low[2], High[2]) /\ a <= w * h /\ w * h <= b
  BY DEF Fits, Grid, PixelArea
<1>9. CASE h \notin Multiples(Low[2], High[2]) BY <1>6, <1>8, <1>9
<1>10. CASE h \in Multiples(Low[2], High[2])
  <2>1. h \in Nat /\ w * h \in Nat BY <1>1, <1>10 DEF Multiples
  <2>2. QED BY <1>1, <1>6, <1>7, <1>8, <1>10, <2>1
<1> QED BY <1>9, <1>10

\* What the search finds is exactly what fits.
LEMMA FoundFits ==
  ASSUME Sized
  PROVE  \A s : s \in Found <=> s \in Grid /\ Fits(s)
<1>1. Found = UNION {{w} \X Heights(w) : w \in Multiples(Low[1], High[1])} BY DEF Found, Heights
<1>2. ASSUME NEW s, s \in Found PROVE s \in Grid /\ Fits(s)
  <2>1. PICK w \in Multiples(Low[1], High[1]) : s \in {w} \X Heights(w) BY <1>1, <1>2
  <2>2. PICK h \in Heights(w) : s = <<w, h>> BY <2>1
  <2>3. Fits(<<w, h>>) BY <2>2, SearchIsExact
  <2>4. QED BY <2>2, <2>3 DEF Fits
<1>3. ASSUME NEW s, s \in Grid, Fits(s) PROVE s \in Found
  <2>1. PICK w \in Multiples(Low[1], High[1]), h \in Multiples(Low[2], High[2]) : s = <<w, h>>
    BY <1>3 DEF Grid
  <2>2. h \in Heights(w) BY <1>3, <2>1, SearchIsExact
  <2>3. s \in {w} \X Heights(w) BY <2>1, <2>2
  <2>4. QED BY <1>1, <2>3
<1>4. QED BY <1>2, <1>3

\* An image that fits is the only candidate.
LEMMA KeptAsItIs ==
  ASSUME Sized, Fits(image)
  PROVE  Candidates = {image}
<1> DEFINE clamped(n, e) == Clamp(n, Low[e], High[e])
<1>1. /\ Factor \in Nat \ {0} /\ limits.area[1] \in Nat /\ limits.area[2] \in Nat
      /\ \A e \in Edge : Low[e] \in Nat \ {0} /\ High[e] \in Nat
  BY LimitTypes, Bounds DEF Sized
<1>2. /\ image = <<image[1], image[2]>>
      /\ \A e \in Edge : image[e] \in Nat \ {0} /\ image[e] % Factor = 0
                         /\ Low[e] <= image[e] /\ image[e] <= High[e]
  BY <1>1 DEF Sized, Fits, Grid, Multiples, Edge
<1>3. \A e \in Edge : image[e] >= Factor
  <2>1. TAKE e \in Edge
  <2>2. PICK k \in Nat : image[e] = k * Factor BY <1>1, <1>2, Divisible
  <2>3. k # 0 BY <1>1, <1>2, <2>2
  <2>4. 1 * Factor <= k * Factor BY <1>1, <2>2, <2>3, Less
  <2>5. QED BY <1>1, <1>2, <2>2, <2>4
<1>4. Source = image BY <1>1, <1>2, <1>3 DEF Source, Tall, Edge
<1>5. limits.area[1] <= PixelArea(image) /\ PixelArea(image) <= limits.area[2] BY DEF Fits
<1>6. PixelArea(image) \in Nat BY <1>2 DEF PixelArea, Edge
<1>7. ~MustGrow /\ ~MustShrink BY <1>1, <1>2, <1>4, <1>5, <1>6 DEF MustGrow, MustShrink
<1>8. \A e \in Edge : clamped(Round(Source[e], Factor) * Factor, e) = image[e]
  <2>1. TAKE e \in Edge
  <2>2. Round(image[e], Factor) * Factor = image[e] BY <1>1, <1>2, RoundIs
  <2>3. QED BY <1>1, <1>2, <1>4, <2>2 DEF Clamp
<1>9. Candidates = {[e \in Edge |-> clamped(Round(Source[e], Factor) * Factor, e)]}
  BY <1>7 DEF Candidates
<1> HIDE DEF clamped
<1>10. [e \in Edge |-> clamped(Round(Source[e], Factor) * Factor, e)] = [e \in Edge |-> image[e]]
  BY <1>8
<1>11. [e \in Edge |-> image[e]] = <<image[1], image[2]>> BY DEF Edge
<1>12. QED BY <1>2, <1>9, <1>10, <1>11

-----------------------------------------------------------------------------
(* The sizes that are given to models.                                     *)

SizeInv ==
  /\ IF image = Open THEN size = Open ELSE Sized
  /\ InputsFit

LEMMA SizeBegins == SizeInit => SizeInv
  BY DEF SizeInit, SizeInv, InputsFit, Open, Refused

LEMMA ArriveKeeps == SizeInv /\ Arrives => SizeInv'
<1> SUFFICES ASSUME SizeInv, Arrives PROVE SizeInv' OBVIOUS
<1>1. size' = Open BY DEF SizeInv, Arrives
<1>2. image' \in (Nat \ {0}) \X (Nat \ {0}) /\ limits' \in ConfiguredLimits /\ image' # Open
  BY SizeAssumption DEF Arrives, Open
<1>3. Open # Refused BY DEF Open, Refused
<1>4. ConfiguredLimits' = ConfiguredLimits BY DEF ConfiguredLimits
<1>5. QED BY <1>1, <1>2, <1>3 DEF SizeInv, Sized, InputsFit, Open, Refused

LEMMA ResizeKeeps == SizeInv /\ Resize => SizeInv'
<1> SUFFICES ASSUME SizeInv, Resize PROVE SizeInv' OBVIOUS
<1>1. Sized /\ image # Open /\ image' = image /\ limits' = limits BY DEF SizeInv, Resize
<1>2. /\ Sized' /\ Grid' = Grid /\ \A s : Fits(s)' <=> Fits(s)
  BY <1>1 DEF Sized, Grid, Fits, Multiples, Low, High, Factor
<1>3. Fits(image) => Candidates = {image} BY <1>1, KeptAsItIs
<1>4. \A s : s \in Found <=> s \in Grid /\ Fits(s) BY <1>1, FoundFits
<1>5. ~Fits(Refused)
  <2>1. Refused[1] = -1 BY DEF Refused
  <2>2. Low[1] \in Nat BY <1>1, Bounds DEF Sized, Edge
  <2>3. QED BY <2>1, <2>2 DEF Fits, Grid, Multiples
<1>6. \/ Fits(size') /\ (Fits(image) => size' = image)
      \/ size' = Refused /\ \A s \in Grid : ~Fits(s)
  <2>1. CASE \E s \in Candidates : Fits(s) /\ size' = s BY <1>3, <2>1
  <2>2. CASE \E s \in Candidates : ~Fits(s) /\ size' \in IF Found = {} THEN {Refused} ELSE Found
    <3>1. ~Fits(image) BY <1>3, <2>2
    <3>2. QED BY <1>4, <2>2, <3>1
  <2>3. QED BY <2>1, <2>2 DEF Resize
<1>7. Fits(image) => image \in Grid BY DEF Fits
<1>8. InputsFit' BY <1>1, <1>2, <1>5, <1>6, <1>7 DEF InputsFit, Refused, Open
<1>9. QED BY <1>1, <1>2, <1>8 DEF SizeInv, Open

LEMMA SizeStep == SizeInv /\ [SizeNext]_sizeVars => SizeInv'
<1> SUFFICES ASSUME SizeInv, [SizeNext]_sizeVars PROVE SizeInv' OBVIOUS
<1>1. CASE Arrives BY <1>1, ArriveKeeps
<1>2. CASE Resize BY <1>2, ResizeKeeps
<1>3. CASE UNCHANGED sizeVars
  BY <1>3 DEF sizeVars, SizeInv, Sized, InputsFit, Fits, Grid, Multiples, Low, High, Factor, Open,
     Refused
<1>4. QED BY <1>1, <1>2, <1>3 DEF SizeNext

\* Whatever the images, and whatever limits and factor a configuration may set: the model
\* gets a size within all its limits, an image that has one keeps it, and an image is
\* refused only if no size at all would do.
THEOREM EverySizeFits == SizeSpec => []InputsFit
<1>1. SizeInv => InputsFit BY DEF SizeInv
<1>2. QED BY <1>1, SizeBegins, SizeStep, PTL DEF SizeSpec

-----------------------------------------------------------------------------
(* DocumentReader.                                                          *)

InProcess == {"loop", "drain", "wait", "last", "cleanup", "waitpid"}

-----------------------------------------------------------------------------
(* Outside of run_process() nothing of a tool runs.  Inside of it, once the *)
(* group has been killed nothing of it runs, and a child that is waited for *)
(* a second time has not been waited for before.                            *)

GroupInv ==
  /\ child \in {"none", "running", "exited", "reaped"}
  /\ at \in {"drain", "wait", "loop"} => child \in {"running", "exited"}
  /\ at = "last" => child = "reaped"
  /\ at = "cleanup" => child # "none"
  /\ at = "waitpid" => child = "exited" /\ helper # "running"
  /\ at \notin InProcess => child \in {"none", "reaped"} /\ helper # "running"

LEMMA GroupInit == ReaderInit => GroupInv
  BY DEF ReaderInit, GroupInv, InProcess

\* The tool and its helper do not move the reader, and the helper is started by a
\* running tool only.
LEMMA ToolStep ==
  GroupInv /\ (ToolWrites \/ HelperWrites \/ ToolForks \/ ToolExits) => GroupInv'
<1> USE DEF GroupInv, InProcess
<1>1. GroupInv /\ ToolWrites => GroupInv'
  BY DEF ToolWrites
<1>2. GroupInv /\ HelperWrites => GroupInv'
  BY DEF HelperWrites
<1>3. GroupInv /\ ToolForks => GroupInv'
  BY DEF ToolForks
<1>4. GroupInv /\ ToolExits => GroupInv'
  BY DEF ToolExits
<1> QED
  BY <1>1, <1>2, <1>3, <1>4

LEMMA ProcessStep ==
  GroupInv /\ (Spawn \/ Loop \/ Read \/ Drained \/ Wait \/ Cleanup \/ CleanupWaits) => GroupInv'
<1> USE DEF GroupInv, InProcess, process
<1>1. GroupInv /\ Spawn => GroupInv'
  BY DEF Spawn, Throw
<1>2. GroupInv /\ Loop => GroupInv'
  BY DEF Loop
<1>3. GroupInv /\ Read => GroupInv'
  BY DEF Read
<1>4. GroupInv /\ Drained => GroupInv'
  BY DEF Drained
<1>5. GroupInv /\ Wait => GroupInv'
  BY DEF Wait
<1>6. GroupInv /\ Cleanup => GroupInv'
  BY DEF Cleanup, Kill
<1>7. GroupInv /\ CleanupWaits => GroupInv'
  BY DEF CleanupWaits
<1> QED
  BY <1>1, <1>2, <1>3, <1>4, <1>5, <1>6, <1>7

\* read_document() moves among its own places.
LEMMA DocumentStep ==
  GroupInv /\ (BeginDocument \/ ReadTiff \/ Result \/ Page \/ LoadPage \/ Consumed) => GroupInv'
<1> USE DEF GroupInv, InProcess, process, Throw, ToTool
<1>1. GroupInv /\ BeginDocument => GroupInv'
  BY DEF BeginDocument
<1>2. GroupInv /\ ReadTiff => GroupInv'
  BY DEF ReadTiff
<1>3. GroupInv /\ Result => GroupInv'
  BY DEF Result
<1>4. GroupInv /\ Page => GroupInv'
  BY DEF Page
<1>5. GroupInv /\ LoadPage => GroupInv'
  BY DEF LoadPage
<1>6. GroupInv /\ Consumed => GroupInv'
  BY DEF Consumed
<1> QED
  BY <1>1, <1>2, <1>3, <1>4, <1>5, <1>6

LEMMA GroupStep == GroupInv /\ [ReaderNext]_readerVars => GroupInv'
<1>1. GroupInv /\ ReaderCancel => GroupInv'
  BY DEF GroupInv, InProcess, ReaderCancel, process
<1>2. GroupInv /\ UNCHANGED readerVars => GroupInv'
  BY DEF GroupInv, InProcess, readerVars, process
<1> QED
  BY <1>1, <1>2, ToolStep, ProcessStep, DocumentStep DEF ReaderNext

(* However a tool ends or goes on, and by whatever way run_process() is left, its process
   group has been killed and its process waited for, which never takes longer than the
   kill (document.cpp:52-59). *)
THEOREM NoProcessIsLeft == ReaderSpec => []NothingLeftBehind
<1>1. GroupInv => NothingLeftBehind
  BY DEF GroupInv, InProcess, NothingLeftBehind
<1> QED
  BY <1>1, GroupInit, GroupStep, PTL DEF ReaderSpec

-----------------------------------------------------------------------------
(* The pages handed out, and how far read_document() is.                   *)

Paper == document.kind \in {"pdf", "office"}
Counted == count = document.pages /\ document.pages <= PageLimit

\* The images handed out are the first n pages.
FirstPages(n) == delivered \in Seq(Nat) /\ Len(delivered) = n /\ \A i \in 1 .. n : delivered[i] = i

ReaderPlaces ==
  InProcess \cup {"start", "tiff", "tool", "ended", "page", "load", "consumed", "returned", "thrown"}

DocumentTypes ==
  /\ at \in ReaderPlaces
  /\ document \in Documents /\ page \in Nat /\ count \in Nat /\ pageFile \in {0, page}
  /\ cancelled \in BOOLEAN

\* A tool is run for the pages before the loop, or for the page that comes next.
AtTool ==
  /\ Paper /\ tool \in {"convert", "count", "sizes", "render"}
  /\ tool \in {"sizes", "render"} => Counted
  /\ tool # "render" => page = 0 /\ FirstPages(0)
  /\ tool = "render" => page \in 1 .. count /\ FirstPages(page - 1)

PageAt ==
  /\ tool # "render" => pageFile = 0
  /\ at \in {"start", "tiff"} => page = 0 /\ FirstPages(0) /\ tool = "none"
  /\ at = "tiff" => document.kind = "tiff"
  /\ at \in InProcess \cup {"tool", "ended"} => AtTool
  /\ at = "page" => Paper /\ Counted /\ page \in 1 .. count + 1 /\ FirstPages(page - 1)
  /\ at = "load" =>
       (document.kind = "image" \/ Counted) /\ page \in 1 .. count /\ FirstPages(page - 1)
  /\ at = "consumed" =>
       (document.kind = "image" \/ Counted) /\ page \in 1 .. count /\ FirstPages(page)
  /\ at = "returned" /\ document.kind # "image" => Counted /\ FirstPages(count)
  /\ at \in {"returned", "thrown"} =>
       \E n \in Nat : FirstPages(n) /\ (n # 0 /\ document.kind # "image" => Counted)

PageInv == DocumentTypes /\ PageAt

LEMMA PageInit == ReaderInit => PageInv
<1> SUFFICES ASSUME ReaderInit PROVE PageInv OBVIOUS
<1>1. FirstPages(0) BY DEF ReaderInit, FirstPages
<1>2. QED BY <1>1 DEF ReaderInit, PageInv, DocumentTypes, PageAt, InProcess, ReaderPlaces

LEMMA FirstIs ==
  ASSUME NEW n \in Nat, FirstPages(n) PROVE \A i \in DOMAIN delivered : delivered[i] = i
<1>1. DOMAIN delivered = 1 .. n BY LenProperties DEF FirstPages
<1>2. QED BY <1>1 DEF FirstPages

\* One page more.
LEMMA NextPage ==
  ASSUME NEW n \in Nat, FirstPages(n), delivered' = Append(delivered, n + 1)
  PROVE  FirstPages(n + 1)'
<1>1. /\ delivered' \in Seq(Nat) /\ Len(delivered') = n + 1 /\ delivered'[n + 1] = n + 1
      /\ \A i \in 1 .. n : delivered'[i] = delivered[i]
  BY AppendProperties DEF FirstPages
<1>2. \A i \in 1 .. n + 1 : i \in 1 .. n \/ i = n + 1 OBVIOUS
<1>3. QED BY <1>1, <1>2 DEF FirstPages

\* What does not move the reader and keeps its pages.
LEMMA PageSame ==
  ASSUME PageInv, UNCHANGED <<document, at, tool, files, progress>>, cancelled' \in BOOLEAN
  PROVE  PageInv'
BY DEF PageInv, DocumentTypes, PageAt, AtTool, Paper, Counted, FirstPages, files, progress

\* What moves the reader within run_process().
LEMMA PageInProcess ==
  ASSUME PageInv, UNCHANGED <<document, tool, files, progress, cancelled>>,
         at \in InProcess \cup {"tool"}, at' \in InProcess \cup {"ended", "thrown"}
  PROVE  PageInv'
<1> USE DEF PageInv
<1>1. AtTool /\ AtTool' BY DEF PageAt, AtTool, Paper, Counted, FirstPages, files, progress
<1>2. \E n \in Nat : FirstPages(n)' /\ (n # 0 => Counted')
  <2>1. CASE tool = "render"
    <3>1. page \in 1 .. count /\ count \in Nat BY <2>1, <1>1 DEF AtTool, DocumentTypes
    <3>2. page - 1 \in Nat BY <3>1
    <3>3. FirstPages(page - 1)' /\ Counted'
      BY <1>1, <2>1 DEF AtTool, Counted, FirstPages, progress
    <3>4. QED BY <3>2, <3>3 DEF progress
  <2>2. CASE tool # "render"
    <3>1. FirstPages(0)' BY <1>1, <2>2 DEF AtTool
    <3>2. QED BY <3>1
  <2>3. QED BY <2>1, <2>2
<1>3. DocumentTypes' BY DEF DocumentTypes, InProcess, ReaderPlaces, files, progress
<1>4. QED BY <1>1, <1>2, <1>3 DEF PageAt, InProcess, ReaderPlaces, files, progress

LEMMA PageToolStep ==
  PageInv /\ (ReaderCancel \/ ToolWrites \/ HelperWrites \/ ToolForks \/ ToolExits) => PageInv'
<1> SUFFICES ASSUME PageInv PROVE
      ReaderCancel \/ ToolWrites \/ HelperWrites \/ ToolForks \/ ToolExits => PageInv'
  OBVIOUS
<1>1. cancelled \in BOOLEAN BY DEF PageInv, DocumentTypes
<1>2. ReaderCancel => PageInv' BY PageSame DEF ReaderCancel
<1>3. ToolWrites => PageInv' BY <1>1, PageSame DEF ToolWrites
<1>4. HelperWrites => PageInv' BY <1>1, PageSame DEF HelperWrites
<1>5. ToolForks => PageInv' BY <1>1, PageSame DEF ToolForks
<1>6. ASSUME ToolExits PROVE PageInv'
  <2>1. /\ UNCHANGED <<document, at, tool, progress, cancelled>>
        /\ pageFile' \in {pageFile, page} /\ (tool # "render" => pageFile' = pageFile)
    BY <1>6 DEF ToolExits, files
  <2>2. UNCHANGED <<page, count, delivered>> BY <2>1 DEF progress
  <2>3. QED
    BY <2>1, <2>2 DEF PageInv, DocumentTypes, PageAt, AtTool, Paper, Counted, FirstPages
<1>7. QED BY <1>2, <1>3, <1>4, <1>5, <1>6

LEMMA PageProcessStep ==
  PageInv /\ (Spawn \/ Loop \/ Read \/ Drained \/ Wait \/ Cleanup \/ CleanupWaits) => PageInv'
<1> SUFFICES ASSUME PageInv PROVE
      Spawn \/ Loop \/ Read \/ Drained \/ Wait \/ Cleanup \/ CleanupWaits => PageInv'
  OBVIOUS
<1> USE DEF InProcess
<1>1. Spawn => PageInv' BY PageInProcess DEF Spawn, Throw
<1>2. Loop => PageInv' BY PageInProcess DEF Loop
<1>3. Read => PageInv' BY PageInProcess DEF Read
<1>4. Drained => PageInv' BY PageInProcess DEF Drained
<1>5. Wait => PageInv' BY PageInProcess DEF Wait
<1>6. Cleanup => PageInv' BY PageInProcess DEF Cleanup
<1>7. CleanupWaits => PageInv' BY PageInProcess DEF CleanupWaits
<1>8. QED BY <1>1, <1>2, <1>3, <1>4, <1>5, <1>6, <1>7

\* Wherever the reader is, what it has handed out is the first pages.
LEMMA SomePages ==
  ASSUME PageInv
  PROVE  \E n \in Nat : FirstPages(n) /\ (n # 0 /\ document.kind # "image" => Counted)
<1>1. page \in Nat /\ count \in Nat /\ at \in ReaderPlaces BY DEF PageInv, DocumentTypes
<1>2. CASE at \in {"start", "tiff"} BY <1>2 DEF PageInv, PageAt, InProcess, ReaderPlaces
<1>3. CASE at \in InProcess \cup {"tool", "ended"}
  <2>1. CASE tool = "render"
    <3>1. page - 1 \in Nat /\ FirstPages(page - 1) /\ Counted
      BY <1>1, <1>3, <2>1 DEF PageInv, PageAt, AtTool
    <3>2. QED BY <3>1
  <2>2. CASE tool # "render"
    <3>1. FirstPages(0) BY <1>3, <2>2 DEF PageInv, PageAt, AtTool
    <3>2. QED BY <3>1
  <2>3. QED BY <2>1, <2>2
<1>4. CASE at \in {"page", "load"}
  <2>1. page - 1 \in Nat /\ FirstPages(page - 1) /\ (document.kind = "image" \/ Counted)
    BY <1>1, <1>4 DEF PageInv, PageAt
  <2>2. QED BY <2>1
<1>5. CASE at = "consumed" BY <1>1, <1>5 DEF PageInv, PageAt
<1>6. CASE at \in {"returned", "thrown"} BY <1>6 DEF PageInv, PageAt
<1>7. QED BY <1>1, <1>2, <1>3, <1>4, <1>5, <1>6 DEF ReaderPlaces

\* Whoever throws keeps the pages handed out so far.
LEMMA PageThrown ==
  ASSUME PageInv, UNCHANGED <<document, tool, pageFile, progress, cancelled>>, Throw
  PROVE  PageInv'
<1>1. UNCHANGED <<page, count, delivered, document>> BY DEF progress
<1>2. \E n \in Nat : FirstPages(n)' /\ (n # 0 /\ document'.kind # "image" => Counted')
  BY <1>1, SomePages DEF FirstPages, Counted
<1>3. QED BY <1>1, <1>2 DEF PageInv, DocumentTypes, PageAt, Throw, InProcess, ReaderPlaces

LEMMA PageDocumentStep ==
  PageInv /\ (BeginDocument \/ ReadTiff \/ Result \/ Page \/ LoadPage \/ Consumed) => PageInv'
<1> SUFFICES ASSUME PageInv PROVE
      BeginDocument \/ ReadTiff \/ Result \/ Page \/ LoadPage \/ Consumed => PageInv'
  OBVIOUS
<1>0. /\ document \in Documents /\ page \in Nat /\ count \in Nat /\ cancelled \in BOOLEAN
      /\ document.pages \in Nat /\ document.pages >= 1
      /\ document.kind \in {"image", "tiff", "pdf", "office"}
  BY DrainAssumption DEF PageInv, DocumentTypes, Documents
<1>1. ASSUME BeginDocument PROVE PageInv'
  <2>1. page = 0 /\ FirstPages(0) /\ tool = "none" /\ pageFile = 0
    BY <1>1 DEF BeginDocument, PageInv, PageAt
  <2>2. UNCHANGED <<document, cancelled, pageFile, delivered>>
    BY <1>1 DEF BeginDocument, files, progress
  <2>3. FirstPages(0)' BY <2>1, <2>2 DEF FirstPages
  <2>4. CASE Throw /\ UNCHANGED <<tool, progress>>
    BY <1>1, <2>2, <2>4, PageThrown DEF BeginDocument
  <2>5. CASE document.kind = "image" /\ page' = 1 /\ count' = 1 /\ at' = "load" /\ tool' = tool
    BY <1>0, <2>1, <2>2, <2>3, <2>5 DEF PageInv, DocumentTypes, PageAt, InProcess, ReaderPlaces
  <2>6. CASE document.kind = "tiff" /\ at' = "tiff" /\ UNCHANGED <<tool, progress>>
    BY <1>0, <2>1, <2>2, <2>3, <2>6 DEF PageInv, DocumentTypes, PageAt, InProcess, ReaderPlaces, progress
  <2>7. CASE document.kind = "pdf" /\ ToTool("count") /\ UNCHANGED progress
    BY <1>0, <2>1, <2>2, <2>3, <2>7
    DEF PageInv, DocumentTypes, PageAt, InProcess, ReaderPlaces, progress, ToTool, AtTool, Paper
  <2>8. CASE document.kind = "office" /\ ToTool("convert") /\ UNCHANGED progress
    BY <1>0, <2>1, <2>2, <2>3, <2>8
    DEF PageInv, DocumentTypes, PageAt, InProcess, ReaderPlaces, progress, ToTool, AtTool, Paper
  <2>9. QED BY <1>1, <2>4, <2>5, <2>6, <2>7, <2>8 DEF BeginDocument
<1>2. ASSUME ReadTiff PROVE PageInv'
  <2>1. page = 0 /\ FirstPages(0) /\ tool = "none" /\ pageFile = 0 /\ document.kind = "tiff"
    BY <1>2 DEF ReadTiff, PageInv, PageAt
  <2>2. UNCHANGED <<document, cancelled, tool, pageFile, delivered>> BY <1>2 DEF ReadTiff, files
  <2>3. FirstPages(0)' BY <2>1, <2>2 DEF FirstPages
  <2>4. CASE Throw /\ UNCHANGED <<page, count>>
    BY <1>2, <2>2, <2>4, PageThrown DEF ReadTiff, progress
  <2>5. CASE document.pages <= PageLimit /\ count' = document.pages /\ page' = 1 /\ at' = "load"
    BY <1>0, <2>1, <2>2, <2>3, <2>5 DEF PageInv, DocumentTypes, PageAt, InProcess, ReaderPlaces, Counted
  <2>6. QED BY <1>2, <2>4, <2>5 DEF ReadTiff
<1>3. ASSUME Result PROVE PageInv'
  <2>1. at = "ended" /\ AtTool BY <1>3 DEF Result, PageInv, PageAt
  <2>2. UNCHANGED <<document, cancelled, pageFile, delivered>> BY <1>3 DEF Result, files
  <2>3. CASE Throw /\ UNCHANGED <<tool, page, count>>
    BY <2>1, <2>2, <2>3, PageThrown DEF progress
  <2>4. CASE tool = "convert" /\ ToTool("count") /\ UNCHANGED <<page, count>>
    BY <1>0, <2>1, <2>2, <2>4
    DEF PageInv, DocumentTypes, PageAt, InProcess, ReaderPlaces, ToTool, AtTool, Paper, FirstPages
  <2>5. CASE /\ tool = "count" /\ document.pages <= PageLimit /\ count' = document.pages
             /\ ToTool("sizes") /\ page' = page
    BY <1>0, <2>1, <2>2, <2>5
    DEF PageInv, DocumentTypes, PageAt, InProcess, ReaderPlaces, ToTool, AtTool, Paper, FirstPages, Counted
  <2>6. CASE tool = "sizes" /\ page' = 1 /\ at' = "page" /\ UNCHANGED <<tool, count>>
    BY <1>0, <2>1, <2>2, <2>6
    DEF PageInv, DocumentTypes, PageAt, InProcess, ReaderPlaces, AtTool, Paper, FirstPages, Counted
  <2>7. CASE tool = "render" /\ at' = "load" /\ UNCHANGED <<tool, page, count>>
    BY <1>0, <2>1, <2>2, <2>7
    DEF PageInv, DocumentTypes, PageAt, InProcess, ReaderPlaces, AtTool, Paper, FirstPages, Counted
  <2>8. QED BY <1>3, <2>3, <2>4, <2>5, <2>6, <2>7 DEF Result
<1>4. ASSUME Page PROVE PageInv'
  <2>1. /\ at = "page" /\ Paper /\ Counted /\ page \in 1 .. count + 1 /\ FirstPages(page - 1)
    BY <1>4 DEF Page, PageInv, PageAt
  <2>2. UNCHANGED <<document, cancelled, pageFile, delivered, page, count>>
    BY <1>4 DEF Page, files, progress
  <2>3. CASE page > count /\ at' = "returned" /\ tool' = tool
    <3>1. page - 1 = count BY <1>0, <2>1, <2>3
    <3>2. FirstPages(count)' /\ Counted' BY <2>1, <2>2, <3>1 DEF FirstPages, Counted
    <3>3. QED BY <1>0, <2>2, <2>3, <3>2 DEF PageInv, DocumentTypes, PageAt, InProcess, ReaderPlaces
  <2>4. CASE page <= count /\ ToTool("render")
    BY <1>0, <2>1, <2>2, <2>4
    DEF PageInv, DocumentTypes, PageAt, InProcess, ReaderPlaces, ToTool, AtTool, Paper, FirstPages, Counted
  <2>5. CASE Throw /\ tool' = tool BY <2>1, <2>2, <2>5, PageThrown DEF progress
  <2>6. QED BY <1>4, <2>3, <2>4, <2>5 DEF Page
<1>5. ASSUME LoadPage PROVE PageInv'
  <2>1. /\ at = "load" /\ (document.kind = "image" \/ Counted) /\ page \in 1 .. count
        /\ FirstPages(page - 1)
    BY <1>5 DEF LoadPage, PageInv, PageAt
  <2>2. UNCHANGED <<document, cancelled, pageFile, tool, page, count>> BY <1>5 DEF LoadPage, files
  <2>3. CASE Throw /\ delivered' = delivered BY <2>1, <2>2, <2>3, PageThrown DEF progress
  <2>4. CASE /\ LoadedImage # 0 /\ delivered' = Append(delivered, LoadedImage) /\ at' = "consumed"
    <3>1. LoadedImage = page BY <2>4 DEF LoadedImage, PageInv, DocumentTypes
    <3>2. page - 1 \in Nat /\ (page - 1) + 1 = page BY <1>0, <2>1
    <3>3. FirstPages((page - 1) + 1)'
      <4>1. delivered' = Append(delivered, (page - 1) + 1) BY <2>4, <3>1, <3>2
      <4>2. \A n \in Nat : n = page - 1 => FirstPages(n + 1)' BY <2>1, <4>1, NextPage
      <4>3. QED BY <2>2, <3>2, <4>2
    <3>4. FirstPages(page)' BY <2>2, <3>2, <3>3
    <3>5. QED
      BY <1>0, <2>1, <2>2, <2>4, <3>4 DEF PageInv, DocumentTypes, PageAt, InProcess, ReaderPlaces, Counted
  <2>5. QED BY <1>5, <2>3, <2>4 DEF LoadPage
<1>6. ASSUME Consumed PROVE PageInv'
  <2>1. /\ at = "consumed" /\ (document.kind = "image" \/ Counted) /\ page \in 1 .. count
        /\ FirstPages(page)
    BY <1>6 DEF Consumed, PageInv, PageAt
  <2>2. UNCHANGED <<document, cancelled, tool, count, delivered>> BY <1>6 DEF Consumed
  <2>3. CASE Throw /\ UNCHANGED <<pageFile, page>> BY <2>1, <2>2, <2>3, PageThrown DEF progress
  <2>4. CASE RemovePage /\ page' = page + 1
    <3>1. (page + 1) - 1 = page /\ page + 1 \in Nat /\ pageFile' = 0 BY <1>0, <2>4 DEF RemovePage
    <3>2. FirstPages(page - 1)' /\ (Counted <=> Counted')
      BY <2>1, <2>2, <2>4, <3>1 DEF FirstPages, Counted
    <3>3. at' \in {"page", "load", "returned"} => DocumentTypes'
      BY <1>0, <2>2, <2>4, <3>1 DEF DocumentTypes, ReaderPlaces
    <3>4. CASE Paper /\ at' = "page"
      BY <1>0, <2>1, <2>2, <2>4, <3>1, <3>2, <3>3, <3>4 DEF PageInv, PageAt, InProcess, ReaderPlaces, Paper
    <3>5. CASE page < count /\ at' = "load"
      BY <1>0, <2>1, <2>2, <2>4, <3>1, <3>2, <3>3, <3>5 DEF PageInv, PageAt, InProcess, ReaderPlaces
    <3>6. CASE ~(page < count) /\ at' = "returned"
      <4>1. page = count BY <1>0, <2>1, <3>6
      <4>2. FirstPages(count)' BY <2>1, <2>2, <4>1 DEF FirstPages
      <4>3. document'.kind = "image" \/ Counted' BY <2>1, <2>2, <3>2
      <4>4. QED BY <1>0, <2>2, <3>1, <3>3, <3>6, <4>2, <4>3 DEF PageInv, PageAt, InProcess, ReaderPlaces
    <3>7. QED BY <1>6, <2>4, <3>4, <3>5, <3>6 DEF Consumed, Paper, Throw
  <2>5. QED BY <1>6, <2>3, <2>4 DEF Consumed
<1>7. QED BY <1>1, <1>2, <1>3, <1>4, <1>5, <1>6

LEMMA PageStep == PageInv /\ [ReaderNext]_readerVars => PageInv'
<1>1. PageInv /\ UNCHANGED readerVars => PageInv'
  BY PageSame DEF readerVars, PageInv, DocumentTypes
<1>2. QED BY <1>1, PageToolStep, PageProcessStep, PageDocumentStep DEF ReaderNext

-----------------------------------------------------------------------------
(* What the tool has written, and what is known of it.                     *)

InOutput(i) == \E k \in 1 .. Len(output) : output[k] = i
InPipe(i) == \E k \in 1 .. Len(pipe) : pipe[k] = i

\* The chunks written are in the output or, with andPiped, in the pipe still, unless the
\* output is as long as is kept.
Kept(andPiped) ==
  Len(output) < OutputLimit =>
    \A i \in 1 .. wrote : InOutput(i) \/ (andPiped /\ InPipe(i))

OutputTypes ==
  /\ output \in Seq(Nat) /\ Len(output) <= OutputLimit
  /\ pipe \in Seq(Nat) /\ Len(pipe) <= PipeSize
  /\ wrote \in Nat /\ reads \in Nat /\ failing \in BOOLEAN

\* The last drain() begins with all that the child has written, in what the pipe holds;
\* what a helper adds meanwhile comes after it.
OutputInv ==
  /\ OutputTypes
  /\ at \in {"loop", "drain", "wait", "last"} => Kept(TRUE)
  /\ at = "last" => \A k \in 1 .. Len(pipe) : pipe[k] # 0 => k <= PipeSize - reads
  /\ at \in {"cleanup", "waitpid"} /\ ~failing => child = "reaped" /\ Kept(FALSE)
  /\ at = "ended" /\ ~failing => Kept(FALSE)

LEMMA NothingIn == \A s : s = <<>> => s \in Seq(Nat) /\ Len(s) = 0
  OBVIOUS

LEMMA OutputInit == ReaderInit => OutputInv
<1> SUFFICES ASSUME ReaderInit PROVE OutputInv OBVIOUS
<1>1. output = <<>> /\ pipe = <<>> /\ wrote = 0 /\ reads = 0 /\ failing = FALSE /\ at = "start"
  BY DEF ReaderInit
<1>2. OutputLimit \in Nat /\ PipeSize \in Nat BY DrainAssumption
<1>3. OutputTypes
  <2>1. output \in Seq(Nat) /\ Len(output) = 0 /\ pipe \in Seq(Nat) /\ Len(pipe) = 0
    BY <1>1, NothingIn
  <2>2. Len(output) <= OutputLimit /\ Len(pipe) <= PipeSize BY <1>2, <2>1
  <2>3. wrote \in Nat /\ reads \in Nat /\ failing \in BOOLEAN BY <1>1
  <2>4. QED BY <2>1, <2>2, <2>3, Zenon DEF OutputTypes
<1>4. QED BY <1>1, <1>3 DEF OutputInv

\* What leaves the pipe, the output and the reads alone.
LEMMA OutputSame ==
  ASSUME OutputInv, UNCHANGED <<output, pipe, wrote, reads, failing>>,
         at' = at, child' = child \/ child # "reaped"
  PROVE  OutputInv'
BY DEF OutputInv, OutputTypes, Kept, InOutput, InPipe

\* A chunk is written to the pipe.
LEMMA Written ==
  ASSUME OutputTypes, NEW chunk \in Nat, Write(chunk)
  PROVE  /\ pipe' \in Seq(Nat) /\ Len(pipe') <= PipeSize
         /\ Len(pipe') = Len(pipe) + 1 /\ pipe'[Len(pipe) + 1] = chunk
         /\ \A k \in 1 .. Len(pipe) : pipe'[k] = pipe[k]
         /\ Len(pipe) \in Nat /\ PipeSize \in Nat
         /\ \A i : InPipe(i)' <=> InPipe(i) \/ i = chunk
<1>1. /\ pipe' \in Seq(Nat) /\ Len(pipe') = Len(pipe) + 1 /\ pipe'[Len(pipe) + 1] = chunk
      /\ \A k \in 1 .. Len(pipe) : pipe'[k] = pipe[k]
      /\ Len(pipe) \in Nat
  BY AppendProperties, LenProperties DEF OutputTypes, Write
<1>2. PipeSize \in Nat BY DrainAssumption
<1>3. Len(pipe') <= PipeSize BY <1>1, <1>2 DEF Write
<1>4. ASSUME NEW i PROVE InPipe(i)' <=> InPipe(i) \/ i = chunk
  <2>1. \A k \in 1 .. Len(pipe) + 1 : k \in 1 .. Len(pipe) \/ k = Len(pipe) + 1 BY <1>1
  <2>2. \A k \in 1 .. Len(pipe) : k \in 1 .. Len(pipe) + 1 BY <1>1
  <2>3. Len(pipe) + 1 \in 1 .. Len(pipe) + 1 BY <1>1
  <2>4. QED BY <1>1, <2>1, <2>2, <2>3 DEF InPipe
<1>5. QED BY <1>1, <1>2, <1>3, <1>4

LEMMA OutputToolStep ==
  ASSUME GroupInv, OutputInv,
         ReaderCancel \/ ToolWrites \/ HelperWrites \/ ToolForks \/ ToolExits
  PROVE  OutputInv'
<1>0. OutputTypes BY DEF OutputInv
<1>1. ReaderCancel => OutputInv' BY OutputSame DEF ReaderCancel, process, received
<1>2. ToolForks => OutputInv' BY OutputSame DEF ToolForks, received
<1>3. ToolExits => OutputInv' BY OutputSame DEF ToolExits, received
<1>4. ASSUME ToolWrites PROVE OutputInv'
  <2>1. /\ child = "running" /\ Write(wrote + 1) /\ wrote' = wrote + 1
        /\ UNCHANGED <<at, child, output, reads, failing>>
    BY <1>4 DEF ToolWrites, received
  <2>2. wrote \in Nat /\ wrote + 1 \in Nat BY <1>0 DEF OutputTypes
  <2>3. pipe' \in Seq(Nat) /\ Len(pipe') <= PipeSize /\ \A i : InPipe(i)' <=> InPipe(i) \/ i = wrote + 1
    BY <1>0, <2>1, <2>2, Written
  <2>4. at # "last" /\ (at # "ended")  BY <2>1 DEF GroupInv, InProcess
  <2>5. OutputTypes' BY <1>0, <2>1, <2>2, <2>3 DEF OutputTypes
  <2>6. Kept(TRUE) => Kept(TRUE)'
    <3>1. \A i \in 1 .. wrote + 1 : i \in 1 .. wrote \/ i = wrote + 1 BY <2>2
    <3>2. QED BY <2>1, <2>3, <3>1 DEF Kept, InOutput
  <2>7. QED BY <2>1, <2>4, <2>5, <2>6 DEF OutputInv
<1>5. ASSUME HelperWrites PROVE OutputInv'
  <2>1. Write(0) /\ UNCHANGED <<at, child, wrote, output, reads, failing>>
    BY <1>5 DEF HelperWrites, received
  <2>2. /\ pipe' \in Seq(Nat) /\ Len(pipe') <= PipeSize /\ Len(pipe) \in Nat
        /\ Len(pipe') = Len(pipe) + 1 /\ pipe'[Len(pipe) + 1] = 0
        /\ \A k \in 1 .. Len(pipe) : pipe'[k] = pipe[k]
        /\ \A i : InPipe(i) => InPipe(i)'
    BY <1>0, <2>1, Written
  <2>3. OutputTypes' BY <1>0, <2>1, <2>2 DEF OutputTypes
  <2>4. Kept(TRUE) => Kept(TRUE)' BY <2>1, <2>2 DEF Kept, InOutput
  <2>5. Kept(FALSE) => Kept(FALSE)' BY <2>1 DEF Kept, InOutput
  <2>6. at = "last" => \A k \in 1 .. Len(pipe') : pipe'[k] # 0 => k <= PipeSize - reads
    <3>1. \A k \in 1 .. Len(pipe) + 1 : k \in 1 .. Len(pipe) \/ k = Len(pipe) + 1 BY <2>2
    <3>2. QED BY <2>2, <3>1 DEF OutputInv
  <2>7. QED BY <2>1, <2>3, <2>4, <2>5, <2>6 DEF OutputInv
<1>6. QED BY <1>1, <1>2, <1>3, <1>4, <1>5

\* One read of drain().
LEMMA OutputRead ==
  ASSUME OutputInv, Read
  PROVE  OutputInv'
<1>0. OutputTypes /\ OutputLimit \in Nat /\ PipeSize \in Nat BY DrainAssumption DEF OutputInv
<1>1. /\ pipe # <<>> /\ pipe' = Tail(pipe) /\ reads' = reads + 1 /\ at \in {"drain", "last"}
      /\ output' = IF Len(output) < OutputLimit THEN Append(output, Head(pipe)) ELSE output
      /\ UNCHANGED <<at, child, wrote, failing>>
  BY DEF Read
<1>2. /\ Len(pipe) \in Nat /\ Len(pipe) >= 1 /\ Head(pipe) = pipe[1] /\ pipe[1] \in Nat
      /\ pipe' \in Seq(Nat) /\ Len(pipe') = Len(pipe) - 1
      /\ \A k \in 1 .. Len(pipe) - 1 : pipe'[k] = pipe[k + 1]
  <2>1. pipe \in Seq(Nat) BY <1>0 DEF OutputTypes
  <2>2. QED BY <1>1, <2>1, HeadTailProperties, LenProperties, EmptySeq
<1>3. \A i : InPipe(i) => InPipe(i)' \/ i = Head(pipe)
  <2> SUFFICES ASSUME NEW i, NEW k \in 1 .. Len(pipe), pipe[k] = i, k # 1 PROVE InPipe(i)'
    BY <1>2 DEF InPipe
  <2>1. k - 1 \in 1 .. Len(pipe) - 1 /\ (k - 1) + 1 = k BY <1>2
  <2>2. pipe'[k - 1] = i BY <1>2, <2>1
  <2>3. QED BY <1>2, <2>1, <2>2 DEF InPipe
<1>4. /\ output' \in Seq(Nat) /\ Len(output') <= OutputLimit
      /\ Len(output') < OutputLimit =>
           /\ Len(output) < OutputLimit
           /\ \A i : InOutput(i) \/ i = Head(pipe) => InOutput(i)'
  <2>1. output \in Seq(Nat) /\ Len(output) \in Nat /\ Len(output) <= OutputLimit
    BY <1>0, LenProperties DEF OutputTypes
  <2>2. CASE Len(output) < OutputLimit
    <3>1. /\ output' \in Seq(Nat) /\ Len(output') = Len(output) + 1
          /\ output'[Len(output) + 1] = Head(pipe)
          /\ \A k \in 1 .. Len(output) : output'[k] = output[k]
      BY <1>1, <1>2, <2>1, <2>2, AppendProperties
    <3>2. \A k \in 1 .. Len(output) : k \in 1 .. Len(output') BY <2>1, <3>1
    <3>3. Len(output) + 1 \in 1 .. Len(output') BY <2>1, <3>1
    <3>4. \A i : InOutput(i) \/ i = Head(pipe) => InOutput(i)' BY <3>1, <3>2, <3>3 DEF InOutput
    <3>5. QED BY <1>0, <2>1, <2>2, <3>1, <3>4
  <2>3. CASE ~(Len(output) < OutputLimit) BY <1>1, <2>1, <2>3
  <2>4. QED BY <2>2, <2>3
<1>5. OutputTypes' BY <1>0, <1>1, <1>2, <1>4 DEF OutputTypes
<1>6. Kept(TRUE)' BY <1>1, <1>3, <1>4 DEF OutputInv, Kept
<1>7. at = "last" => \A k \in 1 .. Len(pipe') : pipe'[k] # 0 => k <= PipeSize - reads'
  <2> SUFFICES ASSUME at = "last", NEW k \in 1 .. Len(pipe'), pipe'[k] # 0 PROVE k <= PipeSize - reads'
    OBVIOUS
  <2>1. k + 1 \in 1 .. Len(pipe) /\ pipe[k + 1] # 0 BY <1>2
  <2>2. k + 1 <= PipeSize - reads BY <2>1 DEF OutputInv
  <2>3. QED BY <1>0, <1>1, <1>2, <2>2 DEF OutputTypes
<1>8. QED BY <1>1, <1>5, <1>6, <1>7 DEF OutputInv

\* The last drain() has read what the child had written.
LEMMA OutputDrained ==
  ASSUME GroupInv, OutputInv, Drained
  PROVE  OutputInv'
<1>0. OutputTypes /\ Reads \in Nat /\ PipeSize \in Nat /\ Reads >= PipeSize
  BY DrainAssumption DEF OutputInv
<1>1. /\ UNCHANGED <<output, pipe, wrote, reads, failing, child>> /\ at \in {"drain", "last"}
      /\ at' = IF at = "last" THEN "cleanup" ELSE "wait"
      /\ pipe = <<>> \/ reads = Reads
  BY DEF Drained, process, received
<1>2. Kept(TRUE) BY <1>1 DEF OutputInv
<1>3. CASE at = "last"
  <2>1. \A i \in 1 .. wrote : ~InPipe(i)
    <3> SUFFICES ASSUME NEW i \in 1 .. wrote, NEW k \in 1 .. Len(pipe), pipe[k] = i PROVE FALSE
      BY DEF InPipe
    <3>1. Len(pipe) \in Nat /\ (pipe = <<>> => Len(pipe) = 0) BY <1>0, LenProperties DEF OutputTypes
    <3>2. reads = Reads BY <1>1, <3>1
    <3>3. k <= PipeSize - reads BY <1>0, <1>3 DEF OutputInv, OutputTypes
    <3>4. QED BY <1>0, <3>1, <3>2, <3>3
  <2>2. Kept(FALSE) BY <1>2, <2>1 DEF Kept
  <2>3. Kept(FALSE)' BY <1>1, <2>2 DEF Kept, InOutput
  <2>4. child' = "reaped" BY <1>1, <1>3 DEF GroupInv
  <2>5. QED BY <1>0, <1>1, <1>3, <2>3, <2>4 DEF OutputInv, OutputTypes
<1>4. CASE at = "drain"
  <2>1. Kept(TRUE)' BY <1>1, <1>2 DEF Kept, InOutput, InPipe
  <2>2. QED BY <1>0, <1>1, <1>4, <2>1 DEF OutputInv, OutputTypes
<1>5. QED BY <1>1, <1>3, <1>4

LEMMA OutputProcessStep ==
  ASSUME cancelled \in BOOLEAN, OutputInv, Spawn \/ Loop \/ Wait \/ Cleanup \/ CleanupWaits
  PROVE  OutputInv'
<1>0. OutputTypes /\ PipeSize \in Nat /\ OutputLimit \in Nat BY DrainAssumption DEF OutputInv
<1>1. ASSUME Spawn PROVE OutputInv'
  <2>1. CASE Throw /\ UNCHANGED <<process, received>>
    BY <1>0, <2>1 DEF Throw, process, received, OutputInv, OutputTypes
  <2>2. CASE at' = "loop" /\ wrote' = 0 /\ pipe' = <<>> /\ output' = <<>> /\ reads' = 0 /\ failing' = FALSE
    <3>1. /\ output' \in Seq(Nat) /\ Len(output') = 0
          /\ pipe' \in Seq(Nat) /\ Len(pipe') = 0
      BY <2>2, NothingIn
    <3>2. OutputTypes'
      <4>1. Len(output') <= OutputLimit /\ Len(pipe') <= PipeSize BY <1>0, <3>1
      <4>2. wrote' \in Nat /\ reads' \in Nat /\ failing' \in BOOLEAN BY <2>2
      <4>3. QED BY <3>1, <4>1, <4>2, Zenon DEF OutputTypes
    <3>3. Kept(TRUE)' BY <2>2 DEF Kept
    <3>4. QED BY <2>2, <3>2, <3>3 DEF OutputInv
  <2>3. QED BY <1>1, <2>1, <2>2 DEF Spawn
<1>2. ASSUME Loop PROVE OutputInv'
  <2>1. /\ at = "loop" /\ at' = (IF cancelled THEN "cleanup" ELSE "drain") /\ failing' = cancelled
        /\ reads' = 0 /\ UNCHANGED <<output, pipe, wrote, child>>
    BY <1>2 DEF Loop, process
  <2>2. Kept(TRUE)' BY <2>1 DEF OutputInv, Kept, InOutput, InPipe
  <2>3. QED BY <1>0, <2>1, <2>2 DEF OutputInv, OutputTypes
<1>3. ASSUME Wait PROVE OutputInv'
  <2>1. /\ at = "wait" /\ reads' = 0 /\ UNCHANGED <<output, pipe, wrote>>
        /\ \/ at' = "last" /\ failing' = failing
           \/ at' = "cleanup" /\ failing' = TRUE
           \/ at' = "loop" /\ failing' = failing
    BY <1>3 DEF Wait
  <2>2. Kept(TRUE)' BY <2>1 DEF OutputInv, Kept, InOutput, InPipe
  <2>3. OutputTypes' BY <1>0, <2>1 DEF OutputTypes
  <2>4. \A k \in 1 .. Len(pipe') : k <= PipeSize - reads'
    <3>1. Len(pipe) \in Nat BY <1>0, LenProperties DEF OutputTypes
    <3>2. QED BY <1>0, <2>1, <3>1 DEF OutputTypes
  <2>5. QED BY <2>1, <2>2, <2>3, <2>4 DEF OutputInv
<1>4. ASSUME Cleanup \/ CleanupWaits PROVE OutputInv'
  <2>1. /\ UNCHANGED <<output, pipe, wrote, reads, failing>> /\ at \in {"cleanup", "waitpid"}
        /\ at' \in {"ended", "waitpid"} /\ (child = "reaped" => child' = "reaped")
    BY <1>4 DEF Cleanup, CleanupWaits, Kill, received
  <2>2. Kept(FALSE) => Kept(FALSE)' BY <2>1 DEF Kept, InOutput
  <2>3. QED BY <1>0, <2>1, <2>2 DEF OutputInv, OutputTypes
<1>5. QED BY <1>1, <1>2, <1>3, <1>4

\* Outside of run_process() nothing is known of the output and nothing is changed.
LEMMA OutputDocumentStep ==
  ASSUME OutputInv, BeginDocument \/ ReadTiff \/ Result \/ Page \/ LoadPage \/ Consumed
  PROVE  OutputInv'
<1>1. /\ UNCHANGED <<process, received>>
      /\ at' \in {"tool", "thrown", "load", "tiff", "page", "returned", "consumed"}
  BY DEF BeginDocument, ReadTiff, Result, Page, LoadPage, Consumed, Throw, ToTool
<1>2. UNCHANGED <<output, pipe, wrote, reads, failing>> BY <1>1 DEF process, received
<1>3. QED BY <1>1, <1>2 DEF OutputInv, OutputTypes

LEMMA OutputStep ==
  GroupInv /\ PageInv /\ OutputInv /\ [ReaderNext]_readerVars => OutputInv'
<1>0. PageInv => cancelled \in BOOLEAN BY DEF PageInv, DocumentTypes
<1>1. OutputInv /\ UNCHANGED readerVars => OutputInv'
  BY OutputSame DEF readerVars, process, received
<1>2. QED
  BY <1>0, <1>1, OutputToolStep, OutputRead, OutputDrained, OutputProcessStep, OutputDocumentStep
  DEF ReaderNext

(* The images handed to consume() are the pages of the document in order, each once and *)
(* all of them if read_document() returns; and the output of a tool that succeeded is   *)
(* complete, as far as it is kept, although a helper may still hold the pipe, for any   *)
(* sizes of the pipe and of the output.                                                 *)
THEOREM EveryPageInOrder == ReaderSpec => []PagesAreTrue
<1>1. PageInv /\ OutputInv => PagesAreTrue
  <2> SUFFICES ASSUME PageInv, OutputInv PROVE PagesAreTrue OBVIOUS
  <2>1. PICK n \in Nat : FirstPages(n) /\ (n # 0 /\ document.kind # "image" => Counted)
    BY SomePages
  <2>2. \A i \in DOMAIN delivered : delivered[i] = i BY <2>1, FirstIs
  <2>3. at = "returned" /\ document.kind # "image" => Len(delivered) = document.pages
    BY DEF PageInv, PageAt, Counted, FirstPages
  <2>4. delivered # <<>> /\ document.kind # "image" => document.pages <= PageLimit
    <3>1. delivered # <<>> => n # 0 BY <2>1, EmptySeq DEF FirstPages
    <3>2. QED BY <2>1, <3>1 DEF Counted
  <2>5. ASSUME at = "ended", ~ToolFailed, Len(output) # OutputLimit, NEW i \in 1 .. wrote
        PROVE  i \in Range(output)
    <3>1. /\ output \in Seq(Nat) /\ Len(output) \in Nat /\ Len(output) <= OutputLimit
          /\ OutputLimit \in Nat
      BY DrainAssumption, LenProperties DEF OutputInv, OutputTypes
    <3>2. Kept(FALSE) BY <2>5 DEF OutputInv, ToolFailed
    <3>3. Len(output) < OutputLimit BY <2>5, <3>1
    <3>4. PICK k \in 1 .. Len(output) : output[k] = i BY <2>5, <3>2, <3>3 DEF Kept, InOutput
    <3>5. DOMAIN output = 1 .. Len(output) BY <3>1, LenProperties
    <3>6. QED BY <3>4, <3>5 DEF Range
  <2>6. QED BY <2>2, <2>3, <2>4, <2>5 DEF PagesAreTrue
<1>2. QED BY <1>1, GroupInit, GroupStep, PageInit, PageStep, OutputInit, OutputStep, PTL DEF ReaderSpec

-----------------------------------------------------------------------------
(* CsvRows.  Induction, on sets.                                           *)

\* A nonempty set of natural numbers has a least element.
LEMMA LeastNatural ==
  ASSUME NEW T \in SUBSET Nat, T # {}
  PROVE \E n \in T : \A m \in T : n <= m
<1>1. IsWellFoundedOn(OpToRel(<, Nat), Nat)
  BY NatLessThanWellFounded
<1>2. PICK n \in T : \A m \in T : ~(<<m, n>> \in OpToRel(<, Nat))
  BY <1>1, WFMin
<1>3. \A m \in T : <<m, n>> \in OpToRel(<, Nat) <=> m < n
  BY DEF OpToRel
<1>4. \A m \in T : ~(m < n)
  BY <1>2, <1>3
<1> QED BY <1>4

\* Induction over the natural numbers, on a set.
LEMMA NatInductive ==
  ASSUME NEW T, 0 \in T, \A n \in Nat : n \in T => n + 1 \in T
  PROVE Nat \subseteq T
<1> SUFFICES ASSUME Nat \ T # {} PROVE FALSE
  OBVIOUS
<1>1. PICK n \in Nat \ T : \A m \in Nat \ T : n <= m
  BY LeastNatural
<1>2. n # 0 /\ n - 1 \in Nat /\ ~(n <= n - 1)
  BY <1>1
<1> QED BY <1>1, <1>2

-----------------------------------------------------------------------------
(* CsvRows.  What a sequence holds at a set of places.                     *)

NthPlace(S, n) == CHOOSE k \in S : Cardinality({j \in S : j < k}) = n - 1

\* How many come before, and that there is one for each such number.
Rank(S, k) == Cardinality({j \in S : j < k})
Ranked(S) ==
  /\ IsFiniteSet(S)
  /\ \A k \in S : Rank(S, k) \in 0 .. Cardinality(S) - 1
  /\ \A n \in 0 .. Cardinality(S) - 1 : \E k \in S : Rank(S, k) = n

LEMMA RanksTaken == \A length \in Nat : \A S \in SUBSET (1 .. length) : Ranked(S)
<1> DEFINE T == {length \in Nat : \A S \in SUBSET (1 .. length) : Ranked(S)}
<1>1. 0 \in T
  <2>1. ASSUME NEW S \in SUBSET (1 .. 0) PROVE Ranked(S)
    <3>1. S = {}
      OBVIOUS
    <3>2. IsFiniteSet({}) /\ Cardinality({}) = 0
      BY FS_EmptySet
    <3> QED BY <3>1, <3>2 DEF Ranked
  <2> QED BY <2>1
<1>2. ASSUME NEW length \in Nat, length \in T PROVE length + 1 \in T
  <2>1. ASSUME NEW S \in SUBSET (1 .. length + 1) PROVE Ranked(S)
    <3> DEFINE top == length + 1
               U == S \ {top}
    <3>1. U \in SUBSET (1 .. length)
      OBVIOUS
    <3>2. Ranked(U)
      BY <1>2, <3>1
    <3>3. CASE top \notin S
      <4>1. U = S
        BY <3>3
      <4> QED BY <3>2, <4>1
    <3>4. CASE top \in S
      <4>1. S = U \cup {top} /\ top \notin U /\ \A k \in U : k < top /\ k \in Nat
        BY <3>1, <3>4
      <4>2. \A k \in U : {j \in S : j < k} = {j \in U : j < k}
        <5>1. \A k \in U : ~(top < k)
          BY <4>1
        <5> HIDE DEF U, top
        <5> QED BY <4>1, <5>1
      <4>3. {j \in S : j < top} = U
        <5>1. top \in Nat /\ ~(top < top)
          OBVIOUS
        <5> HIDE DEF U, top
        <5> QED BY <4>1, <5>1
      <4> HIDE DEF U, top
      <4>4. IsFiniteSet(S) /\ Cardinality(S) = Cardinality(U) + 1 /\ Cardinality(U) \in Nat
        BY <3>2, <4>1, FS_AddElement, FS_CardinalityType DEF Ranked
      <4>5. Rank(S, top) = Cardinality(U) /\ \A k \in U : Rank(S, k) = Rank(U, k)
        BY <4>2, <4>3 DEF Rank
      <4>6. ASSUME NEW k \in S PROVE Rank(S, k) \in 0 .. Cardinality(S) - 1
        <5>1. CASE k = top
          BY <4>4, <4>5, <5>1
        <5>2. CASE k \in U
          BY <3>2, <4>4, <4>5, <5>2 DEF Ranked
        <5> QED BY <4>1, <5>1, <5>2
      <4>7. ASSUME NEW n \in 0 .. Cardinality(S) - 1 PROVE \E k \in S : Rank(S, k) = n
        <5>1. CASE n = Cardinality(U)
          BY <3>4, <4>5, <5>1
        <5>2. CASE n # Cardinality(U)
          <6>1. n \in 0 .. Cardinality(U) - 1
            BY <4>4, <5>2
          <6>2. PICK k \in U : Rank(U, k) = n
            BY <3>2, <6>1 DEF Ranked
          <6> QED BY <4>1, <4>5, <6>2
        <5> QED BY <5>1, <5>2
      <4> QED BY <4>4, <4>6, <4>7 DEF Ranked
    <3> QED BY <3>3, <3>4
  <2> QED BY <2>1
<1>3. Nat \subseteq T
  <2> HIDE DEF T
  <2> QED BY <1>1, <1>2, NatInductive
<1> QED BY <1>3

\* There are as many places as the set has.
LEMMA NthPlaceIs ==
  ASSUME NEW length \in Nat, NEW S \in SUBSET (1 .. length)
  PROVE  /\ IsFiniteSet(S) /\ Cardinality(S) \in Nat
         /\ \A n \in 1 .. Cardinality(S) :
              NthPlace(S, n) \in S /\ Cardinality({j \in S : j < NthPlace(S, n)}) = n - 1
         /\ \A k \in S : Cardinality({j \in S : j < k}) \in 0 .. Cardinality(S) - 1
<1>1. Ranked(S)
  BY RanksTaken
<1>2. IsFiniteSet(S) /\ Cardinality(S) \in Nat
  BY <1>1, FS_CardinalityType DEF Ranked
<1>3. ASSUME NEW n \in 1 .. Cardinality(S)
      PROVE  NthPlace(S, n) \in S /\ Cardinality({j \in S : j < NthPlace(S, n)}) = n - 1
  <2>1. n - 1 \in 0 .. Cardinality(S) - 1
    BY <1>2
  <2>2. \E k \in S : Cardinality({j \in S : j < k}) = n - 1
    BY <1>1, <2>1 DEF Ranked, Rank
  <2> QED BY <2>2, Zenon DEF NthPlace
<1> QED BY <1>1, <1>2, <1>3 DEF Ranked, Rank

\* It is a sequence of what stands there.
LEMMA AtIs ==
  \A s, S : At(s, S) = [n \in 1 .. Cardinality(S) |-> s[NthPlace(S, n)]]
  BY Zenon DEF At, NthPlace

LEMMA AtType ==
  ASSUME NEW Y, NEW s \in Seq(Y), NEW S \in SUBSET (DOMAIN s)
  PROVE  /\ At(s, S) \in Seq(Y) /\ Len(At(s, S)) = Cardinality(S) /\ Cardinality(S) \in Nat
         /\ DOMAIN At(s, S) = 1 .. Cardinality(S)
<1> DEFINE c == Cardinality(S)
<1>1. Len(s) \in Nat /\ S \in SUBSET (1 .. Len(s)) /\ \A k \in S : s[k] \in Y
  OBVIOUS
<1>2. c \in Nat /\ \A n \in 1 .. c : NthPlace(S, n) \in S
  BY <1>1, NthPlaceIs
<1>3. At(s, S) = [n \in 1 .. c |-> s[NthPlace(S, n)]]
  BY <1>1, AtIs
<1> HIDE DEF c
<1>4. At(s, S) \in [1 .. c -> Y]
  BY <1>1, <1>2, <1>3
<1> QED BY <1>2, <1>4 DEF c

\* The same elements give the same.
LEMMA AtSame ==
  ASSUME NEW b \in Nat, NEW S \in SUBSET (1 .. b), NEW s, NEW t, \A k \in S : s[k] = t[k]
  PROVE  At(s, S) = At(t, S)
<1>1. \A n \in 1 .. Cardinality(S) : s[NthPlace(S, n)] = t[NthPlace(S, n)]
  BY NthPlaceIs
<1>2. /\ At(s, S) = [n \in 1 .. Cardinality(S) |-> s[NthPlace(S, n)]]
      /\ At(t, S) = [n \in 1 .. Cardinality(S) |-> t[NthPlace(S, n)]]
  BY AtIs, Zenon
<1> QED BY <1>1, <1>2

\* Nothing stands nowhere.
LEMMA AtNowhere == \A s : At(s, {}) = <<>>
<1> TAKE s
<1>1. Cardinality({}) = 0 /\ {} \in SUBSET (1 .. 0)
  BY FS_EmptySet
<1>2. At(s, {}) = [n \in 1 .. 0 |-> s[NthPlace({}, n)]]
  BY <1>1, AtIs
<1> QED BY <1>2

\* A place behind the others comes last.
LEMMA AtNext ==
  ASSUME NEW Y, NEW s \in Seq(Y), NEW S \in SUBSET (DOMAIN s), NEW k \in DOMAIN s, \A j \in S : j < k
  PROVE  At(s, S \cup {k}) = Append(At(s, S), s[k])
<1> DEFINE c == Cardinality(S)
           U == S \cup {k}
<1>1. /\ Len(s) \in Nat /\ S \in SUBSET (1 .. Len(s)) /\ U \in SUBSET (1 .. Len(s))
      /\ k \notin S /\ k \in Nat /\ \A j \in S : j \in Nat
  OBVIOUS
<1>2. IsFiniteSet(S) /\ c \in Nat
  BY <1>1, NthPlaceIs
<1>3. Cardinality(U) = c + 1
  BY <1>1, <1>2, FS_AddElement
<1>4. {j \in U : j < k} = S /\ \A i \in S : {j \in U : j < i} = {j \in S : j < i}
  <2>1. ~(k < k) /\ \A i \in S : ~(k < i)
    BY <1>1
  <2> QED BY <2>1
<1>5. \A i \in S : Cardinality({j \in S : j < i}) \in 0 .. c - 1
  BY <1>1, NthPlaceIs
<1>6. ASSUME NEW n \in 1 .. c PROVE NthPlace(U, n) = NthPlace(S, n)
  <2>1. c # n - 1
    BY <1>2
  <2>2. \A i \in U : Cardinality({j \in U : j < i}) = n - 1 <=> i \in S /\ Cardinality({j \in S : j < i}) = n - 1
    BY <1>4, <2>1
  <2>3. {i \in U : Cardinality({j \in U : j < i}) = n - 1} = {i \in S : Cardinality({j \in S : j < i}) = n - 1}
    BY <2>2
  <2>4. \A T, m : NthPlace(T, m) = CHOOSE i \in {i \in T : Cardinality({j \in T : j < i}) = m - 1} : TRUE
    BY Zenon DEF NthPlace
  <2>5. NthPlace(U, n) = CHOOSE i \in {i \in U : Cardinality({j \in U : j < i}) = n - 1} : TRUE
    BY <2>4, Zenon
  <2>6. NthPlace(S, n) = CHOOSE i \in {i \in S : Cardinality({j \in S : j < i}) = n - 1} : TRUE
    BY <2>4, Zenon
  <2> QED BY <2>3, <2>5, <2>6, Zenon
<1>7. NthPlace(U, c + 1) = k
  <2>1. NthPlace(U, c + 1) \in U /\ Cardinality({j \in U : j < NthPlace(U, c + 1)}) = c
    <3>1. c + 1 \in 1 .. Cardinality(U) /\ (c + 1) - 1 = c
      BY <1>2, <1>3
    <3> QED BY <1>1, <3>1, NthPlaceIs
  <2>2. \A i \in S : Cardinality({j \in S : j < i}) # c
    BY <1>2, <1>5
  <2> QED BY <1>4, <2>1, <2>2
<1>8. At(s, S) = [n \in 1 .. c |-> s[NthPlace(S, n)]]
  BY AtIs, Zenon
<1>9. At(s, U) = [n \in 1 .. c + 1 |-> s[NthPlace(U, n)]]
  <2>1. At(s, U) = [n \in 1 .. Cardinality(U) |-> s[NthPlace(U, n)]]
    BY AtIs, Zenon
  <2> QED BY <1>3, <2>1, Zenon
<1>10. At(s, S) \in Seq(Y) /\ Len(At(s, S)) = c
  BY AtType
<1>11. Append(At(s, S), s[k]) = [n \in 1 .. c + 1 |-> IF n = c + 1 THEN s[k] ELSE At(s, S)[n]]
  <2> DEFINE q == At(s, S)
           e == s[k]
  <2>1. q \in Seq(Y) /\ Len(q) = c /\ e \in Y /\ c \in Nat
    BY <1>2, <1>10
  <2> HIDE DEF q, c, e
  <2>2. Append(q, e) = [n \in 1 .. c + 1 |-> IF n = c + 1 THEN e ELSE q[n]]
    <3>1. Append(q, e) \in Seq(Y) /\ Len(Append(q, e)) = c + 1
      BY <2>1
    <3>4. Append(q, e) \in [1 .. c + 1 -> Y]
      BY <3>1, LenProperties, Zenon
    <3>2. \A n \in 1 .. c + 1 : Append(q, e)[n] = IF n = c + 1 THEN e ELSE q[n]
      BY <2>1
    <3> HIDE DEF c
    <3>3. Append(q, e) = [n \in 1 .. c + 1 |-> Append(q, e)[n]]
      BY <3>4
    <3> QED BY <3>2, <3>3
  <2> QED BY <2>2 DEF q, e
<1>12. \A n \in 1 .. c + 1 : s[NthPlace(U, n)] = IF n = c + 1 THEN s[k] ELSE At(s, S)[n]
  <2> TAKE n \in 1 .. c + 1
  <2>1. CASE n = c + 1
    BY <1>7, <2>1
  <2>2. CASE n # c + 1
    <3>1. n \in 1 .. c
      BY <1>2, <2>2
    <3>2. At(s, S)[n] = s[NthPlace(S, n)]
      BY <1>8, <3>1
    <3> QED BY <1>6, <2>2, <3>1, <3>2
  <2> QED BY <2>1, <2>2
<1> HIDE DEF U, c
<1> QED BY <1>9, <1>11, <1>12 DEF U

-----------------------------------------------------------------------------
(* CsvRows.  What one more character makes of the pieces of a text.        *)

Quotes(s) == {k \in DOMAIN s : s[k] = "quote"}
OpenQuote(s) == Cardinality(Quotes(s)) % 2 = 1

\* One more changes whether a number is odd.
LEMMA OddNext == \A n \in Nat : ((n + 1) % 2 = 1 <=> ~(n % 2 = 1)) /\ (n % 2 = 0 <=> ~(n % 2 = 1))
  OBVIOUS

\* A sequence with one more.
LEMMA AppendIs ==
  ASSUME NEW Y, NEW s \in Seq(Y), NEW x \in Y
  PROVE  /\ Append(s, x) \in Seq(Y) /\ Len(s) \in Nat /\ Len(Append(s, x)) = Len(s) + 1
         /\ DOMAIN s = 1 .. Len(s) /\ DOMAIN Append(s, x) = DOMAIN s \cup {Len(s) + 1}
         /\ DOMAIN Append(s, x) = 1 .. Len(s) + 1
         /\ Len(s) + 1 \notin DOMAIN s /\ \A k \in DOMAIN s : k < Len(s) + 1
         /\ Append(s, x)[Len(s) + 1] = x /\ \A k \in DOMAIN s : Append(s, x)[k] = s[k]
  OBVIOUS

\* Its quotes.
LEMMA QuotesFinite ==
  ASSUME NEW Y, NEW s \in Seq(Y)
  PROVE  IsFiniteSet(Quotes(s)) /\ Cardinality(Quotes(s)) \in Nat
<1>1. Len(s) \in Nat /\ Quotes(s) \in SUBSET (1 .. Len(s))
  BY DEF Quotes
<1> QED BY <1>1, NthPlaceIs

LEMMA QuotesNext ==
  ASSUME NEW Y, NEW s \in Seq(Y), NEW x \in Y
  PROVE  OpenQuote(Append(s, x)) <=> IF x = "quote" THEN ~OpenQuote(s) ELSE OpenQuote(s)
<1> DEFINE n == Len(s)
           t == Append(s, x)
<1>1. /\ DOMAIN t = DOMAIN s \cup {n + 1} /\ n + 1 \notin DOMAIN s
      /\ t[n + 1] = x /\ \A k \in DOMAIN s : t[k] = s[k]
  BY AppendIs
<1> HIDE DEF n, t
<1>2. CASE x = "quote"
  <2>1. Quotes(t) = Quotes(s) \cup {n + 1} /\ n + 1 \notin Quotes(s)
    BY <1>1, <1>2 DEF Quotes
  <2>2. Cardinality(Quotes(t)) = Cardinality(Quotes(s)) + 1
    BY <2>1, QuotesFinite, FS_AddElement
  <2> QED BY <1>2, <2>2, QuotesFinite, OddNext DEF OpenQuote, t
<1>3. CASE x # "quote"
  <2>1. Quotes(t) = Quotes(s)
    BY <1>1, <1>3 DEF Quotes
  <2> QED BY <1>3, <2>1 DEF OpenQuote, t
<1> QED BY <1>2, <1>3

\* Its cuts.
LEMMA CutsNext ==
  ASSUME NEW Y, NEW s \in Seq(Y), NEW x \in Y, NEW K
  PROVE  /\ Cuts(s, K) \in SUBSET (DOMAIN s)
         /\ x \in K /\ ~OpenQuote(s) => Cuts(Append(s, x), K) = Cuts(s, K) \cup {Len(s) + 1}
         /\ ~(x \in K /\ ~OpenQuote(s)) => Cuts(Append(s, x), K) = Cuts(s, K)
<1> DEFINE n == Len(s)
           t == Append(s, x)
<1>1. /\ n \in Nat /\ DOMAIN s = 1 .. n /\ DOMAIN t = 1 .. n + 1
      /\ t[n + 1] = x /\ \A k \in DOMAIN s : t[k] = s[k]
  BY AppendIs
<1> HIDE DEF n, t
<1>2. \A k \in 1 .. n : Outside(t, k) <=> Outside(s, k)
  <2> TAKE k \in 1 .. n
  <2>1. {m \in 1 .. k - 1 : t[m] = "quote"} = {m \in 1 .. k - 1 : s[m] = "quote"}
    BY <1>1
  <2> QED BY <2>1 DEF Outside
<1>3. Outside(t, n + 1) <=> ~OpenQuote(s)
  <2>1. {m \in 1 .. (n + 1) - 1 : t[m] = "quote"} = Quotes(s)
    BY <1>1 DEF Quotes
  <2> QED BY <2>1, QuotesFinite, OddNext DEF Outside, OpenQuote
<1>4. \A k : k \in Cuts(t, K) <=> (k \in 1 .. n + 1 /\ t[k] \in K /\ Outside(t, k))
  BY <1>1 DEF Cuts
<1>5. \A k : k \in Cuts(s, K) <=> (k \in 1 .. n /\ s[k] \in K /\ Outside(s, k))
  BY <1>1 DEF Cuts
<1>6. \A k : k \in Cuts(t, K) <=> k \in Cuts(s, K) \/ (k = n + 1 /\ x \in K /\ ~OpenQuote(s))
  <2> TAKE k
  <2>1. CASE k = n + 1
    <3>1. k \in 1 .. n + 1 /\ k \notin 1 .. n
      BY <1>1, <2>1
    <3>2. t[k] = x /\ (Outside(t, k) <=> ~OpenQuote(s))
      BY <1>1, <1>3, <2>1, Zenon
    <3> QED BY <1>4, <1>5, <2>1, <3>1, <3>2, Zenon
  <2>2. CASE k # n + 1
    <3>1. k \in 1 .. n + 1 <=> k \in 1 .. n
      BY <1>1, <2>2
    <3> QED BY <1>1, <1>2, <1>4, <1>5, <2>2, <3>1
  <2> QED BY <2>1, <2>2
<1>7. Cuts(s, K) \in SUBSET (DOMAIN s)
  BY <1>1, <1>5
<1> QED BY <1>6, <1>7 DEF n, t

\* The last of a sequence of sequences has one more.
Grown(P, x) == [n \in DOMAIN P |-> IF n = Len(P) THEN Append(P[n], x) ELSE P[n]]

\* The places of a piece.
Between(s, cuts, n) == {k \in DOMAIN s \ cuts : Cardinality({c \in cuts : c < k}) = n - 1}

LEMMA PiecesType ==
  ASSUME NEW Y, NEW s \in Seq(Y), NEW cuts \in SUBSET (DOMAIN s)
  PROVE  /\ Pieces(s, cuts) \in Seq(Seq(Y)) /\ Len(Pieces(s, cuts)) = Cardinality(cuts) + 1
         /\ Cardinality(cuts) \in Nat /\ DOMAIN Pieces(s, cuts) = 1 .. Cardinality(cuts) + 1
         /\ \A n \in 1 .. Cardinality(cuts) + 1 : Pieces(s, cuts)[n] = At(s, Between(s, cuts, n))
<1>1. Len(s) \in Nat /\ cuts \in SUBSET (1 .. Len(s))
  OBVIOUS
<1>2. Cardinality(cuts) \in Nat
  BY <1>1, NthPlaceIs
<1>3. \A n : Between(s, cuts, n) \in SUBSET (DOMAIN s)
  BY DEF Between
<1>4. \A n : At(s, Between(s, cuts, n)) \in Seq(Y)
  BY <1>3, AtType
<1>5. Pieces(s, cuts) = [n \in 1 .. Cardinality(cuts) + 1 |-> At(s, Between(s, cuts, n))]
  BY DEF Pieces, Between
<1> DEFINE Z == Seq(Y)
           m == Cardinality(cuts) + 1
           p == Pieces(s, cuts)
<1>6. p = [n \in 1 .. m |-> At(s, Between(s, cuts, n))] /\ m \in Nat
  BY <1>2, <1>5
<1> HIDE DEF Z, m, p
<1>7. p \in [1 .. m -> Z]
  BY <1>4, <1>6 DEF Z
<1>8. p \in Seq(Z) /\ Len(p) = m /\ DOMAIN p = 1 .. m
  BY <1>6, <1>7
<1>9. \A n \in 1 .. m : p[n] = At(s, Between(s, cuts, n))
  BY <1>6
<1> QED BY <1>2, <1>8, <1>9 DEF Z, m, p

\* Another character is in the last piece, unless it is a cut: then a piece begins.
LEMMA PiecesNext ==
  ASSUME NEW Y, NEW s \in Seq(Y), NEW x \in Y, NEW cuts \in SUBSET (DOMAIN s)
  PROVE  /\ Pieces(Append(s, x), cuts) = Grown(Pieces(s, cuts), x)
         /\ Pieces(Append(s, x), cuts \cup {Len(s) + 1}) = Append(Pieces(s, cuts), <<>>)
<1> DEFINE n == Len(s)
           t == Append(s, x)
           c == Cardinality(cuts)
           more == cuts \cup {n + 1}
           below(k) == {i \in cuts : i < k}
<1>1. /\ t \in Seq(Y) /\ n \in Nat /\ DOMAIN s = 1 .. n /\ DOMAIN t = 1 .. n + 1 /\ DOMAIN t = DOMAIN s \cup {n + 1}
      /\ t[n + 1] = x /\ \A k \in DOMAIN s : t[k] = s[k]
  BY AppendIs
<1>2. cuts \in SUBSET (1 .. n) /\ n + 1 \notin cuts /\ cuts \in SUBSET (DOMAIN t) /\ more \in SUBSET (DOMAIN t)
  BY <1>1
<1> HIDE DEF n, t
<1>3. IsFiniteSet(cuts) /\ c \in Nat /\ Cardinality(more) = c + 1
  BY <1>1, <1>2, NthPlaceIs, FS_AddElement
<1>4. below(n + 1) = cuts
  BY <1>1, <1>2
<1>5. \A k \in 1 .. n + 1 : {i \in more : i < k} = below(k)
  BY <1>1, <1>2
<1>6. \A k \in 1 .. n : Cardinality(below(k)) \in Nat /\ Cardinality(below(k)) <= c
  BY <1>3, FS_Subset, FS_CardinalityType
<1>7. \A m : Between(s, cuts, m) \in SUBSET (1 .. n)
  BY <1>1 DEF Between
<1>8. \A m : At(t, Between(s, cuts, m)) = At(s, Between(s, cuts, m))
  <2> TAKE m
  <2>1. \A k \in Between(s, cuts, m) : t[k] = s[k]
    BY <1>1, <1>7
  <2> QED BY <1>1, <1>7, <2>1, AtSame
<1>9. Pieces(t, cuts) = Grown(Pieces(s, cuts), x)
  <2>1. \A m \in 1 .. c : Between(t, cuts, m) = Between(s, cuts, m)
    <3> TAKE m \in 1 .. c
    <3>1. c # m - 1
      BY <1>3
    <3>2. \A k : k \in DOMAIN t \ cuts /\ Cardinality(below(k)) = m - 1
              <=> k \in DOMAIN s \ cuts /\ Cardinality(below(k)) = m - 1
      BY <1>1, <1>4, <3>1
    <3> HIDE DEF below
    <3>3. \A k : k \in Between(t, cuts, m) <=> k \in DOMAIN t \ cuts /\ Cardinality(below(k)) = m - 1
      BY Zenon DEF Between, below
    <3>4. \A k : k \in Between(s, cuts, m) <=> k \in DOMAIN s \ cuts /\ Cardinality(below(k)) = m - 1
      BY Zenon DEF Between, below
    <3> QED BY <3>2, <3>3, <3>4, Zenon
  <2>2. Between(t, cuts, c + 1) = Between(s, cuts, c + 1) \cup {n + 1}
    <3>1. c = (c + 1) - 1
      BY <1>3
    <3>2. \A k : k \in DOMAIN t \ cuts /\ Cardinality(below(k)) = c
              <=> (k \in DOMAIN s \ cuts /\ Cardinality(below(k)) = c) \/ k = n + 1
      BY <1>1, <1>2, <1>4
    <3> HIDE DEF below, c
    <3>3. \A k : k \in Between(t, cuts, c + 1) <=> k \in DOMAIN t \ cuts /\ Cardinality(below(k)) = c
      BY <3>1, Zenon DEF Between, below
    <3>4. \A k : k \in Between(s, cuts, c + 1) <=> k \in DOMAIN s \ cuts /\ Cardinality(below(k)) = c
      BY <3>1, Zenon DEF Between, below
    <3>5. \A k : k \in Between(t, cuts, c + 1) <=> k \in Between(s, cuts, c + 1) \/ k = n + 1
      BY <3>2, <3>3, <3>4, Zenon
    <3> QED BY <3>5
  <2>3. At(t, Between(t, cuts, c + 1)) = Append(At(s, Between(s, cuts, c + 1)), x)
    <3> DEFINE S == Between(s, cuts, c + 1)
    <3>1. S \in SUBSET (DOMAIN t) /\ n + 1 \in DOMAIN t /\ \A j \in S : j < n + 1
      BY <1>1, <1>7
    <3>2. At(t, S \cup {n + 1}) = Append(At(t, S), t[n + 1])
      BY <1>1, <3>1, AtNext
    <3> QED BY <1>1, <1>8, <2>2, <3>2
  <2>4. /\ DOMAIN Pieces(t, cuts) = 1 .. c + 1 /\ Pieces(t, cuts) \in Seq(Seq(Y))
        /\ \A m \in 1 .. c + 1 : Pieces(t, cuts)[m] = At(t, Between(t, cuts, m))
    BY <1>1, <1>2, PiecesType
  <2>5. /\ DOMAIN Pieces(s, cuts) = 1 .. c + 1 /\ Len(Pieces(s, cuts)) = c + 1
        /\ \A m \in 1 .. c + 1 : Pieces(s, cuts)[m] = At(s, Between(s, cuts, m))
    BY PiecesType
  <2>6. \A m \in 1 .. c + 1 :
          Pieces(t, cuts)[m] = IF m = c + 1 THEN Append(Pieces(s, cuts)[m], x) ELSE Pieces(s, cuts)[m]
    <3> TAKE m \in 1 .. c + 1
    <3>1. CASE m = c + 1
      BY <2>3, <2>4, <2>5, <3>1
    <3>2. CASE m # c + 1
      <4>1. m \in 1 .. c
        BY <1>3, <3>2
      <4> QED BY <1>8, <2>1, <2>4, <2>5, <3>2, <4>1
    <3> QED BY <3>1, <3>2
  <2> HIDE DEF c
  <2>7. Pieces(t, cuts) = [m \in 1 .. c + 1 |-> Pieces(t, cuts)[m]]
    BY <2>4
  <2> QED BY <2>5, <2>6, <2>7 DEF Grown
<1>10. Pieces(t, more) = Append(Pieces(s, cuts), <<>>)
  <2>1. \A m : Between(t, more, m) = Between(s, cuts, m)
    <3> TAKE m
    <3>1. \A k : k \in DOMAIN t \ more <=> k \in DOMAIN s \ cuts
      BY <1>1
    <3>2. \A k \in DOMAIN t : Cardinality({i \in more : i < k}) = Cardinality(below(k))
      BY <1>1, <1>5
    <3> HIDE DEF more
    <3> QED BY <3>1, <3>2 DEF Between
  <2>2. Between(s, cuts, c + 2) = {}
    <3>1. \A k \in DOMAIN s \ cuts : Cardinality(below(k)) # (c + 2) - 1
      BY <1>1, <1>3, <1>6
    <3> QED BY <3>1 DEF Between
  <2>3. At(t, Between(t, more, c + 2)) = <<>>
    BY <2>1, <2>2, AtNowhere
  <2>4. /\ DOMAIN Pieces(t, more) = 1 .. c + 2 /\ Pieces(t, more) \in Seq(Seq(Y)) /\ Len(Pieces(t, more)) = c + 2
        /\ \A m \in 1 .. c + 2 : Pieces(t, more)[m] = At(t, Between(t, more, m))
    <3>1. (c + 1) + 1 = c + 2
      BY <1>3
    <3> HIDE DEF more, c
    <3> QED BY <1>1, <1>2, <1>3, <3>1, PiecesType
  <2>5. /\ Pieces(s, cuts) \in Seq(Seq(Y)) /\ Len(Pieces(s, cuts)) = c + 1
        /\ \A m \in 1 .. c + 1 : Pieces(s, cuts)[m] = At(s, Between(s, cuts, m))
    BY PiecesType
  <2> DEFINE p == Pieces(s, cuts)
             q == Append(p, <<>>)
             w == Pieces(t, more)
  <2>6. /\ q \in Seq(Seq(Y)) /\ Len(q) = c + 2
        /\ q[c + 2] = <<>> /\ \A m \in 1 .. c + 1 : q[m] = p[m]
    <3>1. <<>> \in Seq(Y)
      OBVIOUS
    <3> HIDE DEF p, c
    <3> QED BY <1>3, <2>5, <3>1, AppendIs DEF p
  <2>7. w \in Seq(Seq(Y)) /\ Len(w) = c + 2 /\ w[c + 2] = <<>> /\ \A m \in 1 .. c + 1 : w[m] = p[m]
    <3>1. c + 2 \in 1 .. c + 2 /\ \A m \in 1 .. c + 1 : m \in 1 .. c + 2
      BY <1>3
    <3>2. \A m \in 1 .. c + 1 : w[m] = p[m]
      BY <1>8, <2>1, <2>4, <2>5, <3>1
    <3> QED BY <2>3, <2>4, <3>1, <3>2
  <2> HIDE DEF p, q, w, c
  <2>8. \A m \in 1 .. c + 2 : w[m] = q[m]
    <3> TAKE m \in 1 .. c + 2
    <3>1. m = c + 2 \/ m \in 1 .. c + 1
      BY <1>3
    <3> QED BY <2>6, <2>7, <3>1
  <2>9. w = q
    BY <2>6, <2>7, <2>8, SeqEqual
  <2> QED BY <2>9 DEF w, q, p
<1> QED BY <1>9, <1>10 DEF t, n

-----------------------------------------------------------------------------
(* CsvRows.  What one more character makes of the rows and cells.          *)

AllLines(s) == Pieces(s, Cuts(s, {"break"}))
TextRows(s) == [r \in DOMAIN AllLines(s) |-> Fields(AllLines(s)[r])]

\* The last line alone says whether a quote is open.
Level(s) == OpenQuote(AllLines(s)[Len(AllLines(s))]) <=> OpenQuote(s)

\* The last cell of the last row has one more.
GrownCell(T, x) == [r \in DOMAIN T |-> IF r = Len(T) THEN Grown(T[r], x) ELSE T[r]]

LEMMA GrownIs ==
  ASSUME NEW Y, NEW P \in Seq(Seq(Y)), NEW x \in Y
  PROVE  /\ Grown(P, x) \in Seq(Seq(Y)) /\ Len(Grown(P, x)) = Len(P) /\ DOMAIN Grown(P, x) = DOMAIN P
         /\ \A n \in DOMAIN P : Grown(P, x)[n] = IF n = Len(P) THEN Append(P[n], x) ELSE P[n]
<1>1. \A n \in DOMAIN P : Append(P[n], x) \in Seq(Y) /\ P[n] \in Seq(Y)
  BY AppendIs
<1>2. Len(P) \in Nat /\ DOMAIN P = 1 .. Len(P)
  OBVIOUS
<1>3. \A n \in DOMAIN P : (IF n = Len(P) THEN Append(P[n], x) ELSE P[n]) \in Seq(Y)
  BY <1>1
<1> DEFINE Z == Seq(Y)
           g == Grown(P, x)
           m == Len(P)
<1>0. m \in Nat
  BY <1>2
<1>4. g = [n \in 1 .. m |-> IF n = m THEN Append(P[n], x) ELSE P[n]]
  BY <1>2 DEF Grown
<1> HIDE DEF Z, g, m
<1>5. g \in [1 .. m -> Z]
  BY <1>2, <1>3, <1>4 DEF Z, m
<1>6. g \in Seq(Z) /\ Len(g) = m /\ DOMAIN g = 1 .. m
  BY <1>0, <1>5
<1>7. \A n \in 1 .. m : g[n] = IF n = m THEN Append(P[n], x) ELSE P[n]
  BY <1>4
<1>8. DOMAIN P = 1 .. m
  BY <1>2 DEF m
<1>9. /\ g \in Seq(Z) /\ Len(g) = m /\ DOMAIN g = DOMAIN P
      /\ \A n \in DOMAIN P : g[n] = IF n = m THEN Append(P[n], x) ELSE P[n]
  BY <1>6, <1>7, <1>8
<1> QED BY <1>9, Zenon DEF Z, g, m

LEMMA LinesNext ==
  ASSUME NEW Y, NEW s \in Seq(Y), NEW x \in Y
  PROVE  AllLines(Append(s, x)) = IF x = "break" /\ ~OpenQuote(s) THEN Append(AllLines(s), <<>>)
                                  ELSE Grown(AllLines(s), x)
<1>1. Cuts(s, {"break"}) \in SUBSET (DOMAIN s)
  BY CutsNext
<1>2. CASE x = "break" /\ ~OpenQuote(s)
  <2>1. Cuts(Append(s, x), {"break"}) = Cuts(s, {"break"}) \cup {Len(s) + 1}
    BY <1>2, CutsNext
  <2>2. Pieces(Append(s, x), Cuts(s, {"break"}) \cup {Len(s) + 1}) = Append(Pieces(s, Cuts(s, {"break"})), <<>>)
    BY <1>1, PiecesNext
  <2> QED BY <1>2, <2>1, <2>2, Zenon DEF AllLines
<1>3. CASE ~(x = "break" /\ ~OpenQuote(s))
  <2>1. Cuts(Append(s, x), {"break"}) = Cuts(s, {"break"})
    BY <1>3, CutsNext
  <2>2. Pieces(Append(s, x), Cuts(s, {"break"})) = Grown(Pieces(s, Cuts(s, {"break"})), x)
    BY <1>1, PiecesNext
  <2> QED BY <1>3, <2>1, <2>2, Zenon DEF AllLines
<1> QED BY <1>2, <1>3

LEMMA FieldsNext ==
  ASSUME NEW Y, NEW s \in Seq(Y), NEW x \in Y
  PROVE  Fields(Append(s, x)) = IF x = "delimiter" /\ ~OpenQuote(s) THEN Append(Fields(s), <<>>)
                                ELSE Grown(Fields(s), x)
<1>1. Cuts(s, {"delimiter"}) \in SUBSET (DOMAIN s)
  BY CutsNext
<1>2. CASE x = "delimiter" /\ ~OpenQuote(s)
  <2>1. Cuts(Append(s, x), {"delimiter"}) = Cuts(s, {"delimiter"}) \cup {Len(s) + 1}
    BY <1>2, CutsNext
  <2>2. Pieces(Append(s, x), Cuts(s, {"delimiter"}) \cup {Len(s) + 1}) = Append(Pieces(s, Cuts(s, {"delimiter"})), <<>>)
    BY <1>1, PiecesNext
  <2> QED BY <1>2, <2>1, <2>2, Zenon DEF Fields
<1>3. CASE ~(x = "delimiter" /\ ~OpenQuote(s))
  <2>1. Cuts(Append(s, x), {"delimiter"}) = Cuts(s, {"delimiter"})
    BY <1>3, CutsNext
  <2>2. Pieces(Append(s, x), Cuts(s, {"delimiter"})) = Grown(Pieces(s, Cuts(s, {"delimiter"})), x)
    BY <1>1, PiecesNext
  <2> QED BY <1>3, <2>1, <2>2, Zenon DEF Fields
<1> QED BY <1>2, <1>3

\* Every text has lines, and every line cells.
LEMMA FieldsType ==
  ASSUME NEW Y, NEW s \in Seq(Y)
  PROVE  /\ AllLines(s) \in Seq(Seq(Y)) /\ Len(AllLines(s)) \in Nat \ {0}
         /\ Fields(s) \in Seq(Seq(Y)) /\ Len(Fields(s)) \in Nat \ {0}
<1>1. Cuts(s, {"break"}) \in SUBSET (DOMAIN s) /\ Cuts(s, {"delimiter"}) \in SUBSET (DOMAIN s)
  BY DEF Cuts
<1> QED BY <1>1, PiecesType DEF AllLines, Fields

LEMMA RowsType ==
  ASSUME NEW Y, NEW s \in Seq(Y)
  PROVE  /\ TextRows(s) \in Seq(Seq(Seq(Y))) /\ Len(TextRows(s)) \in Nat \ {0}
         /\ Len(TextRows(s)) = Len(AllLines(s)) /\ DOMAIN TextRows(s) = DOMAIN AllLines(s)
         /\ \A r \in DOMAIN TextRows(s) : /\ TextRows(s)[r] = Fields(AllLines(s)[r])
                                      /\ TextRows(s)[r] \in Seq(Seq(Y)) /\ Len(TextRows(s)[r]) \in Nat \ {0}
<1> DEFINE l == AllLines(s)
<1>1. l \in Seq(Seq(Y)) /\ Len(l) \in Nat \ {0} /\ DOMAIN l = 1 .. Len(l)
  BY FieldsType
<1> HIDE DEF l
<1>2. \A r \in DOMAIN l : Fields(l[r]) \in Seq(Seq(Y)) /\ Len(Fields(l[r])) \in Nat \ {0}
  <2> TAKE r \in DOMAIN l
  <2>1. l[r] \in Seq(Y)
    BY <1>1
  <2> QED BY <2>1, FieldsType
<1>3. TextRows(s) = [r \in 1 .. Len(l) |-> Fields(l[r])]
  BY <1>1 DEF TextRows, l
<1>4. TextRows(s) \in [1 .. Len(l) -> Seq(Seq(Y))]
  BY <1>1, <1>2, <1>3
<1> QED BY <1>1, <1>2, <1>3, <1>4 DEF l

\* Of nothing there is one empty cell.
LEMMA NoText ==
  /\ AllLines(<<>>) = << <<>> >> /\ Fields(<<>>) = << <<>> >> /\ TextRows(<<>>) = << << <<>> >> >>
  /\ ~OpenQuote(<<>>) /\ Level(<<>>)
<1>1. \A K : Cuts(<<>>, K) = {}
  BY DEF Cuts
<1>2. Pieces(<<>>, {}) = << <<>> >>
  <2>1. Cardinality({}) = 0
    BY FS_EmptySet
  <2>2. Pieces(<<>>, {}) = [n \in 1 .. 1 |-> At(<<>>, {})]
    BY <2>1 DEF Pieces
  <2>3. Pieces(<<>>, {}) = [n \in 1 .. 1 |-> <<>>]
    BY <2>2, AtNowhere
  <2> QED BY <2>3
<1>3. AllLines(<<>>) = << <<>> >> /\ Fields(<<>>) = << <<>> >>
  BY <1>1, <1>2 DEF AllLines, Fields
<1>4. TextRows(<<>>) = << << <<>> >> >>
  BY <1>3 DEF TextRows
<1>5. ~OpenQuote(<<>>)
  <2>1. Quotes(<<>>) = {}
    BY DEF Quotes
  <2>2. Cardinality(Quotes(<<>>)) = 0
    BY <2>1, FS_EmptySet
  <2> QED BY <2>2 DEF OpenQuote
<1> QED BY <1>3, <1>4, <1>5 DEF Level

\* A line break begins a row, a delimiter a cell; what is between quotes does not.
LEMMA RowsNext ==
  ASSUME NEW Y, NEW s \in Seq(Y), NEW x \in Y, Level(s)
  PROVE  /\ Level(Append(s, x))
         /\ x = "break" /\ ~OpenQuote(s) => TextRows(Append(s, x)) = Append(TextRows(s), << <<>> >>)
         /\ x = "delimiter" /\ ~OpenQuote(s) => TextRows(Append(s, x)) = Grown(TextRows(s), <<>>)
         /\ ~(x \in {"break", "delimiter"} /\ ~OpenQuote(s)) => TextRows(Append(s, x)) = GrownCell(TextRows(s), x)
<1> DEFINE t == Append(s, x)
           l == AllLines(s)
           n == Len(l)
<1>1. /\ l \in Seq(Seq(Y)) /\ n \in Nat \ {0} /\ DOMAIN l = 1 .. n
      /\ n \in DOMAIN l /\ \A r \in 1 .. n : l[r] \in Seq(Y)
  BY FieldsType
<1>2. /\ TextRows(s) \in Seq(Seq(Seq(Y))) /\ Len(TextRows(s)) = n /\ DOMAIN TextRows(s) = 1 .. n
      /\ \A r \in 1 .. n : TextRows(s)[r] = Fields(l[r])
  BY <1>1, RowsType
<1>3. t \in Seq(Y) /\ AllLines(t) = IF x = "break" /\ ~OpenQuote(s) THEN Append(l, <<>>) ELSE Grown(l, x)
  BY LinesNext, AppendIs
<1>4. OpenQuote(t) <=> IF x = "quote" THEN ~OpenQuote(s) ELSE OpenQuote(s)
  BY QuotesNext
<1>5. OpenQuote(l[n]) <=> OpenQuote(s)
  BY DEF Level
<1>6. TextRows(t) = [r \in DOMAIN AllLines(t) |-> Fields(AllLines(t)[r])]
  BY DEF TextRows
<1>7. Level(t) <=> (OpenQuote(AllLines(t)[Len(AllLines(t))]) <=> OpenQuote(t))
  BY DEF Level
<1> HIDE DEF l, n, t
<1>8. CASE x = "break" /\ ~OpenQuote(s)
  <2>1. /\ AllLines(t) = Append(l, <<>>) /\ Len(AllLines(t)) = n + 1 /\ DOMAIN AllLines(t) = 1 .. n + 1
        /\ AllLines(t)[n + 1] = <<>> /\ \A r \in 1 .. n : AllLines(t)[r] = l[r]
    <3>1. <<>> \in Seq(Y)
      OBVIOUS
    <3> QED BY <1>1, <1>3, <1>8, <3>1, AppendIs DEF n
  <2>2. Level(t)
    BY <1>4, <1>7, <1>8, <2>1, NoText
  <2> DEFINE w == Append(TextRows(s), << <<>> >>)
  <2>3. /\ w \in Seq(Seq(Seq(Y))) /\ Len(w) = n + 1
        /\ w[n + 1] = << <<>> >> /\ \A r \in 1 .. n : w[r] = Fields(l[r])
    <3>1. << <<>> >> \in Seq(Seq(Y))
      OBVIOUS
    <3> QED BY <1>2, <3>1, AppendIs
  <2> HIDE DEF w
  <2>4. \A r \in 1 .. n + 1 : TextRows(t)[r] = w[r]
    <3> TAKE r \in 1 .. n + 1
    <3>1. r = n + 1 \/ r \in 1 .. n
      BY <1>1
    <3>2. TextRows(t)[r] = Fields(AllLines(t)[r])
      BY <1>6, <2>1
    <3> QED BY <2>1, <2>3, <3>1, <3>2, NoText
  <2>5. TextRows(t) = w
    <3>1. TextRows(t) \in Seq(Seq(Seq(Y))) /\ Len(TextRows(t)) = n + 1
      BY <1>3, <2>1, RowsType
    <3> QED BY <2>3, <2>4, <3>1, SeqEqual
  <2> QED BY <1>8, <2>2, <2>5 DEF w, t
<1>9. CASE ~(x = "break" /\ ~OpenQuote(s))
  <2>1. /\ AllLines(t) = Grown(l, x) /\ Len(AllLines(t)) = n /\ DOMAIN AllLines(t) = 1 .. n
        /\ \A r \in 1 .. n : AllLines(t)[r] = IF r = n THEN Append(l[r], x) ELSE l[r]
    <3>1. AllLines(t) = Grown(l, x)
      BY <1>3, <1>9
    <3>2. Len(l) = n
      BY DEF n
    <3>3. /\ Len(Grown(l, x)) = Len(l) /\ DOMAIN Grown(l, x) = DOMAIN l
          /\ \A r \in DOMAIN l : Grown(l, x)[r] = IF r = Len(l) THEN Append(l[r], x) ELSE l[r]
      BY <1>1, GrownIs
    <3> QED BY <1>1, <3>1, <3>2, <3>3
  <2>2. Level(t)
    <3>1. OpenQuote(Append(l[n], x)) <=> IF x = "quote" THEN ~OpenQuote(l[n]) ELSE OpenQuote(l[n])
      BY <1>1, QuotesNext
    <3>2. AllLines(t)[n] = Append(l[n], x)
      BY <1>1, <2>1
    <3> QED BY <1>4, <1>5, <1>7, <2>1, <3>1, <3>2
  <2>3. Fields(Append(l[n], x)) = IF x = "delimiter" /\ ~OpenQuote(s) THEN Append(Fields(l[n]), <<>>)
                                  ELSE Grown(Fields(l[n]), x)
    <3>1. l[n] \in Seq(Y)
      BY <1>1
    <3> QED BY <1>5, <3>1, FieldsNext
  <2>4. \A r \in 1 .. n : TextRows(t)[r] = IF r = n THEN Fields(Append(l[n], x)) ELSE TextRows(s)[r]
    <3> TAKE r \in 1 .. n
    <3>1. TextRows(t)[r] = Fields(AllLines(t)[r])
      BY <1>6, <2>1
    <3> QED BY <1>2, <2>1, <3>1
  <2>5. TextRows(t) = [r \in 1 .. n |-> TextRows(t)[r]]
    BY <1>6, <2>1
  <2>6. CASE x = "delimiter" /\ ~OpenQuote(s)
    <3>1. TextRows(t) = [r \in 1 .. n |-> IF r = n THEN Append(TextRows(s)[r], <<>>) ELSE TextRows(s)[r]]
      <4>1. \A r \in 1 .. n : TextRows(t)[r] = IF r = n THEN Append(TextRows(s)[r], <<>>) ELSE TextRows(s)[r]
        BY <1>2, <2>3, <2>4, <2>6
      <4> QED BY <2>5, <4>1
    <3> QED BY <1>2, <2>2, <2>6, <3>1 DEF Grown, t
  <2>7. CASE ~(x = "delimiter" /\ ~OpenQuote(s))
    <3>1. TextRows(t) = [r \in 1 .. n |-> IF r = n THEN Grown(TextRows(s)[r], x) ELSE TextRows(s)[r]]
      <4>1. \A r \in 1 .. n : TextRows(t)[r] = IF r = n THEN Grown(TextRows(s)[r], x) ELSE TextRows(s)[r]
        BY <1>2, <2>3, <2>4, <2>7
      <4> QED BY <2>5, <4>1
    <3> QED BY <1>2, <1>9, <2>2, <2>7, <3>1 DEF GrownCell, t
  <2> QED BY <2>6, <2>7
<1> QED BY <1>8, <1>9

\* Where a text ends with the end of a line, the next one is empty.
LEMMA EmptyLastLine ==
  ASSUME NEW Y, NEW s \in Seq(Y), Len(s) \in Cuts(s, {"break"})
  PROVE  AllLines(s)[Len(AllLines(s))] = <<>> /\ ~OpenQuote(s)
<1> DEFINE cuts == Cuts(s, {"break"})
           c == Cardinality(cuts)
           n == Len(s)
           below(k) == {i \in cuts : i < k}
<1>1. n \in Nat /\ DOMAIN s = 1 .. n /\ cuts \in SUBSET (1 .. n) /\ n \in cuts /\ s[n] = "break" /\ Outside(s, n)
  BY DEF Cuts
<1> HIDE DEF n, cuts
<1>2. IsFiniteSet(cuts) /\ c \in Nat
  BY <1>1, NthPlaceIs
<1>3. \A k \in (1 .. n) \ cuts : Cardinality(below(k)) < c
  <2> TAKE k \in (1 .. n) \ cuts
  <2>1. below(k) \in SUBSET cuts /\ n \notin below(k)
    BY <1>1
  <2>2. Cardinality(below(k)) <= c /\ Cardinality(below(k)) # c /\ IsFiniteSet(below(k))
    BY <1>1, <1>2, <2>1, FS_Subset
  <2>3. Cardinality(below(k)) \in Nat
    BY <2>2, FS_CardinalityType
  <2> HIDE DEF c, below
  <2> QED BY <1>2, <2>2, <2>3
<1>4. Between(s, cuts, c + 1) = {}
  <2>1. \A k \in (1 .. n) \ cuts : Cardinality(below(k)) # (c + 1) - 1
    BY <1>2, <1>3
  <2> QED BY <1>1, <2>1 DEF Between
<1>5. Pieces(s, cuts)[c + 1] = <<>> /\ Len(Pieces(s, cuts)) = c + 1
  <2>1. cuts \in SUBSET (DOMAIN s) /\ c + 1 \in 1 .. c + 1
    BY <1>1, <1>2
  <2> HIDE DEF c
  <2>2. Len(Pieces(s, cuts)) = c + 1 /\ \A m \in 1 .. c + 1 : Pieces(s, cuts)[m] = At(s, Between(s, cuts, m))
    BY <2>1, PiecesType DEF c
  <2> QED BY <1>4, <2>1, <2>2, AtNowhere
<1>6. ~OpenQuote(s)
  <2>1. Quotes(s) = {m \in 1 .. n - 1 : s[m] = "quote"}
    <3>1. \A m \in 1 .. n : m \in 1 .. n - 1 \/ m = n
      BY <1>1
    <3> QED BY <1>1, <3>1 DEF Quotes
  <2> QED BY <1>1, <2>1 DEF OpenQuote, Outside
<1> QED BY <1>5, <1>6 DEF AllLines, cuts

-----------------------------------------------------------------------------
(* CsvRows.  Cells.                                                        *)

Signs == {"quote", "delimiter", "break", "other"}

\* Between quotes, the first of two is followed by the second.
Doubled(s) == \A k \in DOMAIN s : FirstOfTwo(s, k) => k < Len(s) /\ s[k + 1] = "quote"
Undoubled(s) == At(s, {k \in DOMAIN s : ~FirstOfTwo(s, k)})

\* A cell begins with a quote, and w is behind it.
OpensWith(c, w) == Len(c) = Len(w) + 1 /\ c[1] = "quote" /\ \A k \in DOMAIN w : c[k + 1] = w[k]

\* How far a cell is read: what there is of it, and the value that has been written.
CellReads(c, state, value) ==
  \/ state = "start" /\ c = <<>> /\ value = <<>>
  \/ state = "plain" /\ c # <<>> /\ Quotes(c) = {} /\ value = c
  \/ \E w \in Seq(Signs) :
       /\ \/ state = "quoted" /\ OpensWith(c, w)
          \/ state = "closed" /\ OpensWith(c, Append(w, "quote"))
       /\ Doubled(w) /\ value = Undoubled(w)

\* What no continuation makes a cell of.
Spoilt(c) ==
  \/ c # <<>> /\ c[1] # "quote" /\ Quotes(c) # {}
  \/ \E w \in Seq(Signs) : \E k \in 1 .. Len(w) - 1 :
       OpensWith(c, w) /\ FirstOfTwo(w, k) /\ w[k + 1] # "quote"

\* Quotes that follow each other are first and second in turn.
LEMMA FirstNext ==
  \A s : /\ ~FirstOfTwo(s, 0)
         /\ \A k \in Nat : FirstOfTwo(s, k + 1) <=> s[k + 1] = "quote" /\ ~FirstOfTwo(s, k)
<1> TAKE s
<1> DEFINE run(k) == {m \in 1 .. k : \A j \in m .. k : s[j] = "quote"}
<1>1. \A k : FirstOfTwo(s, k) <=> Cardinality(run(k)) % 2 = 1
  BY DEF FirstOfTwo
<1>2. ~FirstOfTwo(s, 0)
  <2>1. run(0) = {}
    OBVIOUS
  <2>2. Cardinality(run(0)) = 0
    BY <2>1, FS_EmptySet
  <2> HIDE DEF run
  <2> QED BY <1>1, <2>2
<1>3. ASSUME NEW k \in Nat PROVE FirstOfTwo(s, k + 1) <=> s[k + 1] = "quote" /\ ~FirstOfTwo(s, k)
  <2>1. k + 1 \notin run(k) /\ IsFiniteSet(run(k)) /\ Cardinality(run(k)) \in Nat
    <3>1. run(k) \in SUBSET (1 .. k)
      OBVIOUS
    <3>2. k + 1 \notin 1 .. k
      OBVIOUS
    <3> HIDE DEF run
    <3> QED BY <3>1, <3>2, NthPlaceIs
  <2>2. CASE s[k + 1] = "quote"
    <3>1. run(k + 1) = run(k) \cup {k + 1}
      <4>1. \A m \in 1 .. k : m .. k + 1 = (m .. k) \cup {k + 1}
        OBVIOUS
      <4>2. (k + 1) .. (k + 1) = {k + 1}
        OBVIOUS
      <4>3. \A m : m \in 1 .. k + 1 <=> m \in 1 .. k \/ m = k + 1
        OBVIOUS
      <4>4. \A m : m \in run(k + 1) <=> m \in run(k) \/ m = k + 1
        BY <2>2, <4>1, <4>2, <4>3
      <4> QED BY <4>4
    <3> HIDE DEF run
    <3>2. Cardinality(run(k + 1)) = Cardinality(run(k)) + 1
      BY <2>1, <3>1, FS_AddElement
    <3> QED BY <1>1, <2>1, <2>2, <3>2, OddNext
  <2>3. CASE s[k + 1] # "quote"
    <3>1. run(k + 1) = {}
      <4>1. \A m \in 1 .. k + 1 : k + 1 \in m .. k + 1
        OBVIOUS
      <4> QED BY <2>3, <4>1
    <3>2. Cardinality(run(k + 1)) = 0
      BY <3>1, FS_EmptySet
    <3> HIDE DEF run
    <3> QED BY <1>1, <2>3, <3>2
  <2> QED BY <2>2, <2>3
<1> QED BY <1>2, <1>3

\* Only what comes before counts.
LEMMA FirstSame ==
  ASSUME NEW s, NEW t, NEW n \in Nat, \A k \in 1 .. n : s[k] = t[k]
  PROVE  \A k \in 0 .. n : FirstOfTwo(s, k) <=> FirstOfTwo(t, k)
<1> TAKE k \in 0 .. n
<1>1. \A m \in 1 .. k : \A j \in m .. k : s[j] = t[j]
  OBVIOUS
<1>2. {m \in 1 .. k : \A j \in m .. k : s[j] = "quote"} = {m \in 1 .. k : \A j \in m .. k : t[j] = "quote"}
  BY <1>1
<1> QED BY <1>2 DEF FirstOfTwo

\* Every quote has its second one, so the last is no first.
LEMMA DoubledEnds ==
  ASSUME NEW Y, NEW w \in Seq(Y), Doubled(w)
  PROVE  ~FirstOfTwo(w, Len(w))
<1>1. Len(w) \in Nat /\ DOMAIN w = 1 .. Len(w)
  OBVIOUS
<1>2. CASE Len(w) = 0
  BY <1>2, FirstNext
<1>3. CASE Len(w) # 0
  <2>1. Len(w) \in DOMAIN w /\ ~(Len(w) < Len(w))
    BY <1>1, <1>3
  <2> QED BY <2>1 DEF Doubled
<1> QED BY <1>2, <1>3

\* Another character between the quotes.
LEMMA DoubledNext ==
  ASSUME NEW Y, NEW w \in Seq(Y), Doubled(w), NEW x \in Y, x # "quote"
  PROVE  Doubled(Append(w, x)) /\ Undoubled(Append(w, x)) = Append(Undoubled(w), x)
<1> DEFINE n == Len(w)
           t == Append(w, x)
           S == {k \in DOMAIN w : ~FirstOfTwo(w, k)}
<1>1. /\ t \in Seq(Y) /\ n \in Nat /\ Len(t) = n + 1 /\ DOMAIN w = 1 .. n /\ DOMAIN t = 1 .. n + 1
      /\ t[n + 1] = x /\ \A k \in 1 .. n : t[k] = w[k]
  BY AppendIs
<1> HIDE DEF n, t
<1>2. \A k \in 0 .. n : FirstOfTwo(t, k) <=> FirstOfTwo(w, k)
  BY <1>1, FirstSame
<1>3. ~FirstOfTwo(t, n + 1)
  BY <1>1, FirstNext
<1>4. Doubled(t)
  <2> SUFFICES ASSUME NEW k \in 1 .. n + 1, FirstOfTwo(t, k) PROVE k < n + 1 /\ t[k + 1] = "quote"
    BY <1>1 DEF Doubled
  <2>1. k \in 1 .. n /\ k \in 0 .. n
    BY <1>1, <1>3
  <2>2. k < n /\ w[k + 1] = "quote"
    BY <1>1, <1>2, <2>1 DEF Doubled, n
  <2> QED BY <1>1, <2>1, <2>2
<1>5. {k \in DOMAIN t : ~FirstOfTwo(t, k)} = S \cup {n + 1}
  <2>1. \A k : k \in 1 .. n + 1 <=> k \in 1 .. n \/ k = n + 1
    BY <1>1
  <2>2. \A k \in 1 .. n : k \in 0 .. n
    BY <1>1
  <2> QED BY <1>1, <1>2, <1>3, <2>1, <2>2
<1>6. At(t, S \cup {n + 1}) = Append(At(t, S), x)
  <2>1. S \in SUBSET (DOMAIN t) /\ n + 1 \in DOMAIN t /\ \A j \in S : j < n + 1
    BY <1>1
  <2> HIDE DEF S
  <2> QED BY <1>1, <2>1, AtNext
<1>7. At(t, S) = At(w, S)
  <2>1. S \in SUBSET (1 .. n) /\ \A k \in S : t[k] = w[k]
    BY <1>1
  <2> HIDE DEF S
  <2> QED BY <1>1, <2>1, AtSame
<1> QED BY <1>4, <1>5, <1>6, <1>7 DEF Undoubled, t

\* Two more quotes, of which the second is kept.
LEMMA DoubledQuote ==
  ASSUME NEW Y, NEW w \in Seq(Y), Doubled(w), NEW x \in Y, x = "quote"
  PROVE  LET t == Append(Append(w, x), x)
         IN  Doubled(t) /\ Undoubled(t) = Append(Undoubled(w), x)
<1> DEFINE n == Len(w)
           u == Append(w, x)
           t == Append(u, x)
           S == {k \in DOMAIN w : ~FirstOfTwo(w, k)}
<1>1. /\ u \in Seq(Y) /\ n \in Nat /\ Len(u) = n + 1 /\ DOMAIN w = 1 .. n /\ DOMAIN u = 1 .. n + 1
      /\ u[n + 1] = x /\ \A k \in 1 .. n : u[k] = w[k]
  BY AppendIs
<1> HIDE DEF u
<1>2. /\ t \in Seq(Y) /\ Len(t) = n + 2 /\ DOMAIN t = 1 .. n + 2
      /\ t[n + 2] = x /\ \A k \in 1 .. n + 1 : t[k] = u[k]
  <2>1. (n + 1) + 1 = n + 2
    BY <1>1
  <2> QED BY <1>1, <2>1, AppendIs
<1> HIDE DEF n, t
<1>3. t[n + 1] = x /\ \A k \in 1 .. n : t[k] = w[k]
  <2>1. n + 1 \in 1 .. n + 1 /\ \A k \in 1 .. n : k \in 1 .. n + 1
    BY <1>1
  <2> QED BY <1>1, <1>2, <2>1
<1>4. \A k \in 0 .. n : FirstOfTwo(t, k) <=> FirstOfTwo(w, k)
  BY <1>1, <1>3, FirstSame
<1>5. FirstOfTwo(t, n + 1) /\ ~FirstOfTwo(t, n + 2)
  <2>1. n \in Nat /\ n \in 0 .. n /\ n + 1 \in Nat /\ (n + 1) + 1 = n + 2
    BY <1>1
  <2>2. ~FirstOfTwo(w, n)
    BY DoubledEnds DEF n
  <2>3. FirstOfTwo(t, n + 1)
    BY <1>3, <1>4, <2>1, <2>2, FirstNext
  <2>4. FirstOfTwo(t, (n + 1) + 1) <=> t[(n + 1) + 1] = "quote" /\ ~FirstOfTwo(t, n + 1)
    BY <2>1, FirstNext
  <2> QED BY <2>1, <2>3, <2>4
<1>6. Doubled(t)
  <2> SUFFICES ASSUME NEW k \in 1 .. n + 2, FirstOfTwo(t, k) PROVE k < n + 2 /\ t[k + 1] = "quote"
    BY <1>2 DEF Doubled
  <2>1. CASE k \in 1 .. n
    <3>1. k < n /\ w[k + 1] = "quote"
      BY <1>1, <1>4, <2>1 DEF Doubled, n
    <3> QED BY <1>1, <1>3, <2>1, <3>1
  <2>2. CASE k = n + 1
    BY <1>1, <1>2, <2>2
  <2> QED BY <1>1, <1>5, <2>1, <2>2
<1>7. {k \in DOMAIN t : ~FirstOfTwo(t, k)} = S \cup {n + 2}
  <2>1. \A k : k \in 1 .. n + 2 <=> k \in 1 .. n \/ k = n + 1 \/ k = n + 2
    BY <1>1
  <2>2. \A k \in 1 .. n : k \in 0 .. n
    BY <1>1
  <2>3. n + 1 # n + 2 /\ n + 1 \notin 1 .. n
    BY <1>1
  <2> QED BY <1>1, <1>2, <1>4, <1>5, <2>1, <2>2, <2>3
<1>8. At(t, S \cup {n + 2}) = Append(At(t, S), x)
  <2>1. S \in SUBSET (DOMAIN t) /\ n + 2 \in DOMAIN t /\ \A j \in S : j < n + 2
    BY <1>1, <1>2
  <2> HIDE DEF S
  <2> QED BY <1>2, <2>1, AtNext
<1>9. At(t, S) = At(w, S)
  <2>1. S \in SUBSET (1 .. n) /\ \A k \in S : t[k] = w[k]
    BY <1>1, <1>3
  <2> HIDE DEF S
  <2> QED BY <1>1, <2>1, AtSame
<1> QED BY <1>6, <1>7, <1>8, <1>9 DEF Undoubled, t, u

\* The quote is one of the signs.
LEMMA QuoteIsSign == "quote" \in Signs /\ "break" \in Signs /\ "delimiter" \in Signs /\ "other" \in Signs
  BY DEF Signs

\* What a cell opens with goes on with it.
LEMMA OpensNext ==
  ASSUME NEW Y, NEW c \in Seq(Y), NEW w \in Seq(Y), NEW x \in Y, OpensWith(c, w)
  PROVE  OpensWith(Append(c, x), Append(w, x))
<1>1. /\ Len(w) \in Nat /\ Len(c) = Len(w) + 1 /\ c[1] = "quote"
      /\ \A k \in 1 .. Len(w) : c[k + 1] = w[k]
  BY DEF OpensWith
<1>2. /\ Len(Append(c, x)) = Len(w) + 2 /\ Append(c, x)[Len(w) + 2] = x
      /\ \A k \in 1 .. Len(w) + 1 : Append(c, x)[k] = c[k]
  BY <1>1
<1>3. /\ Len(Append(w, x)) = Len(w) + 1 /\ DOMAIN Append(w, x) = 1 .. Len(w) + 1
      /\ Append(w, x)[Len(w) + 1] = x
      /\ \A k \in 1 .. Len(w) : Append(w, x)[k] = w[k]
  BY AppendIs
<1> DEFINE d == Append(c, x)
           v == Append(w, x)
           n == Len(w)
<1> HIDE DEF d, v, n
<1>4. \A k \in 1 .. n + 1 : d[k + 1] = v[k]
  <2> TAKE k \in 1 .. n + 1
  <2>1. CASE k = n + 1
    <3>1. k + 1 = n + 2
      BY <1>1, <2>1 DEF n
    <3> QED BY <1>2, <1>3, <2>1, <3>1 DEF d, v, n
  <2>2. CASE k # n + 1
    <3>1. k \in 1 .. n /\ k + 1 \in 1 .. n + 1
      BY <1>1, <2>2 DEF n
    <3> QED BY <1>1, <1>2, <1>3, <3>1 DEF d, v, n
  <2> QED BY <2>1, <2>2
<1>5. d[1] = "quote" /\ Len(d) = (n + 1) + 1 /\ Len(v) = n + 1
  BY <1>1, <1>2, <1>3 DEF d, v, n
<1> QED BY <1>3, <1>4, <1>5 DEF OpensWith, d, v, n

\* How the reading of a cell goes on.
LEMMA CellNext ==
  ASSUME NEW c \in Seq(Signs), NEW state, NEW value, CellReads(c, state, value), NEW x \in Signs
  PROVE  /\ state = "quoted" /\ x # "quote" => CellReads(Append(c, x), "quoted", Append(value, x))
         /\ state = "quoted" /\ x = "quote" => CellReads(Append(c, x), "closed", value)
         /\ state = "closed" /\ x = "quote" => CellReads(Append(c, x), "quoted", Append(value, x))
         /\ state = "start" /\ x = "quote" => CellReads(Append(c, x), "quoted", value)
         /\ state \in {"start", "plain"} /\ x # "quote" => CellReads(Append(c, x), "plain", Append(value, x))
<1>1. CASE state \in {"quoted", "closed"}
  <2>1. PICK w \in Seq(Signs) :
          /\ \/ state = "quoted" /\ OpensWith(c, w)
             \/ state = "closed" /\ OpensWith(c, Append(w, "quote"))
          /\ Doubled(w) /\ value = Undoubled(w)
    BY <1>1 DEF CellReads
  <2>2. Append(w, x) \in Seq(Signs) /\ Append(w, "quote") \in Seq(Signs)
    BY QuoteIsSign, AppendIs
  <2>3. ASSUME state = "quoted", x # "quote" PROVE CellReads(Append(c, x), "quoted", Append(value, x))
    <3>1. OpensWith(Append(c, x), Append(w, x))
      BY <2>1, <2>3, OpensNext
    <3>2. Doubled(Append(w, x)) /\ Append(value, x) = Undoubled(Append(w, x))
      BY <2>1, <2>3, DoubledNext
    <3> QED BY <2>2, <3>1, <3>2 DEF CellReads
  <2>4. ASSUME state = "quoted", x = "quote" PROVE CellReads(Append(c, x), "closed", value)
    <3>1. OpensWith(Append(c, x), Append(w, x))
      BY <2>1, <2>4, OpensNext
    <3> QED BY <2>1, <2>4, <3>1 DEF CellReads
  <2>5. ASSUME state = "closed", x = "quote" PROVE CellReads(Append(c, x), "quoted", Append(value, x))
    <3> DEFINE t == Append(Append(w, x), x)
    <3>1. OpensWith(c, Append(w, x))
      BY <2>1, <2>5
    <3>2. OpensWith(Append(c, x), t)
      BY <2>2, <3>1, OpensNext
    <3>3. Doubled(t) /\ Append(value, x) = Undoubled(t)
      BY <2>1, <2>5, DoubledQuote
    <3>4. t \in Seq(Signs)
      BY <2>2, AppendIs
    <3> HIDE DEF t
    <3> QED BY <3>2, <3>3, <3>4 DEF CellReads
  <2> QED BY <1>1, <2>3, <2>4, <2>5
<1>2. CASE state \in {"start", "plain"}
  <2>1. /\ state = "start" => c = <<>> /\ value = <<>>
        /\ state = "plain" => c # <<>> /\ Quotes(c) = {} /\ value = c
    BY <1>2 DEF CellReads
  <2>2. ASSUME state = "start", x = "quote" PROVE CellReads(Append(c, x), "quoted", value)
    <3>1. Append(c, x) = <<"quote">> /\ value = <<>>
      BY <2>1, <2>2
    <3>2. OpensWith(<<"quote">>, <<>>)
      BY DEF OpensWith
    <3>3. Doubled(<<>>)
      BY DEF Doubled
    <3>4. Undoubled(<<>>) = <<>>
      <4>1. {k \in DOMAIN <<>> : ~FirstOfTwo(<<>>, k)} = {}
        OBVIOUS
      <4> QED BY <4>1, AtNowhere DEF Undoubled
    <3>5. <<>> \in Seq(Signs)
      OBVIOUS
    <3> QED BY <3>1, <3>2, <3>3, <3>4, <3>5 DEF CellReads
  <2>3. ASSUME x # "quote" PROVE CellReads(Append(c, x), "plain", Append(value, x))
    <3>1. value = c /\ Quotes(c) = {}
      BY <1>2, <2>1 DEF Quotes
    <3>2. /\ DOMAIN Append(c, x) = DOMAIN c \cup {Len(c) + 1} /\ Append(c, x)[Len(c) + 1] = x
          /\ \A k \in DOMAIN c : Append(c, x)[k] = c[k]
      BY AppendIs
    <3>3. Quotes(Append(c, x)) = {}
      BY <2>3, <3>1, <3>2 DEF Quotes
    <3>4. Append(c, x) # <<>>
      <4>1. Len(Append(c, x)) = Len(c) + 1 /\ Len(c) \in Nat
        BY AppendIs
      <4> QED BY <4>1
    <3> QED BY <3>1, <3>3, <3>4 DEF CellReads
  <2> QED BY <1>2, <2>2, <2>3
<1>3. state \in {"start", "plain", "quoted", "closed"}
  BY DEF CellReads
<1> QED BY <1>1, <1>2, <1>3

\* What is between the first character and the last.
LEMMA InnerIs ==
  ASSUME NEW Y, NEW c \in Seq(Y), NEW w \in Seq(Y), OpensWith(c, w), Len(w) >= 1
  PROVE  /\ Inner(c) \in Seq(Y) /\ Len(Inner(c)) = Len(w) - 1
         /\ DOMAIN Inner(c) = 1 .. Len(w) - 1
         /\ \A k \in 1 .. Len(w) - 1 : Inner(c)[k] = w[k]
         /\ InQuotes(c) <=> w[Len(w)] = "quote"
<1> DEFINE n == Len(w)
<1>1. n \in Nat /\ n >= 1 /\ Len(c) = n + 1 /\ c[1] = "quote" /\ \A k \in 1 .. n : c[k + 1] = w[k]
  BY DEF OpensWith
<1> HIDE DEF n
<1>2. Inner(c) = SubSeq(c, 2, n)
  BY <1>1 DEF Inner
<1>3. Inner(c) \in Seq(Y) /\ Len(Inner(c)) = n - 1 /\ \A k \in 1 .. n - 1 : Inner(c)[k] = c[k + 1]
  BY <1>1, <1>2
<1>4. c[n + 1] = w[n]
  BY <1>1
<1>5. InQuotes(c) <=> w[n] = "quote"
  BY <1>1, <1>4 DEF InQuotes
<1> QED BY <1>1, <1>3, <1>5 DEF n

\* A cell that has been read to its end is one, and its value is its content.
LEMMA CellDone ==
  ASSUME NEW c \in Seq(Signs), NEW state \in {"start", "plain", "closed"}, NEW value, CellReads(c, state, value)
  PROVE  IsCell(c) /\ value = Content(c)
<1>1. CASE state \in {"start", "plain"}
  <2>1. value = c /\ Quotes(c) = {}
    BY <1>1 DEF CellReads, Quotes
  <2>2. IsCell(c)
    BY <2>1 DEF IsCell, Quotes
  <2>3. ~InQuotes(c)
    BY <2>1 DEF InQuotes, Quotes
  <2> QED BY <2>1, <2>2, <2>3 DEF Content
<1>2. CASE state = "closed"
  <2>1. PICK w \in Seq(Signs) : OpensWith(c, Append(w, "quote")) /\ Doubled(w) /\ value = Undoubled(w)
    BY <1>2 DEF CellReads
  <2> DEFINE v == Append(w, "quote")
  <2>2. /\ v \in Seq(Signs) /\ Len(w) \in Nat /\ Len(v) = Len(w) + 1 /\ v[Len(w) + 1] = "quote"
        /\ \A k \in 1 .. Len(w) : v[k] = w[k]
    BY QuoteIsSign, AppendIs
  <2> HIDE DEF v
  <2>3. /\ Inner(c) \in Seq(Signs) /\ Len(Inner(c)) = Len(w)
        /\ \A k \in 1 .. Len(w) : Inner(c)[k] = v[k]
        /\ InQuotes(c)
    <3>1. Len(v) >= 1 /\ Len(v) - 1 = Len(w) /\ OpensWith(c, v)
      BY <2>1, <2>2 DEF v
    <3>2. /\ Inner(c) \in Seq(Signs) /\ Len(Inner(c)) = Len(v) - 1
          /\ \A k \in 1 .. Len(v) - 1 : Inner(c)[k] = v[k]
          /\ InQuotes(c) <=> v[Len(v)] = "quote"
      BY <2>2, <3>1, InnerIs
    <3>3. v[Len(v)] = "quote"
      BY <2>2
    <3> QED BY <3>1, <3>2, <3>3
  <2>4. Inner(c) = w
    BY <2>2, <2>3, SeqEqual
  <2>5. IsCell(c)
    BY <2>1, <2>3, <2>4 DEF IsCell, Doubled
  <2>6. Content(c) = Undoubled(w)
    BY <2>3, <2>4 DEF Content, Undoubled
  <2> QED BY <2>1, <2>5, <2>6
<1> QED BY <1>1, <1>2

\* A text that ends in quotes ends in no cell.
LEMMA CellOpen ==
  ASSUME NEW c \in Seq(Signs), NEW value, CellReads(c, "quoted", value)
  PROVE  ~IsCell(c)
<1>1. PICK w \in Seq(Signs) : OpensWith(c, w) /\ Doubled(w)
  BY DEF CellReads
<1> DEFINE n == Len(w)
<1>2. n \in Nat /\ Len(c) = n + 1 /\ c[1] = "quote" /\ 1 \in DOMAIN c
  BY <1>1 DEF OpensWith
<1> SUFFICES ASSUME InQuotes(c),
                    \A k \in DOMAIN Inner(c) :
                      FirstOfTwo(Inner(c), k) => k < Len(Inner(c)) /\ Inner(c)[k + 1] = "quote"
             PROVE  FALSE
  BY <1>2 DEF IsCell
<1>3. n >= 1
  BY <1>2 DEF InQuotes
<1>4. /\ Len(Inner(c)) = n - 1 /\ DOMAIN Inner(c) = 1 .. n - 1
      /\ \A k \in 1 .. n - 1 : Inner(c)[k] = w[k]
      /\ w[n] = "quote"
  BY <1>1, <1>3, InnerIs
<1>5. ~FirstOfTwo(w, n)
  BY <1>1, DoubledEnds
<1> HIDE DEF n
<1>6. FirstOfTwo(w, n - 1) /\ n - 1 # 0
  <2>1. n - 1 \in Nat /\ (n - 1) + 1 = n
    BY <1>2, <1>3
  <2>3. FirstOfTwo(w, (n - 1) + 1) <=> w[(n - 1) + 1] = "quote" /\ ~FirstOfTwo(w, n - 1)
    BY <2>1, FirstNext, Zenon
  <2>2. FirstOfTwo(w, n) <=> w[n] = "quote" /\ ~FirstOfTwo(w, n - 1)
    BY <2>1, <2>3
  <2> QED BY <1>4, <1>5, <2>2, FirstNext
<1>7. FirstOfTwo(Inner(c), n - 1)
  <2>1. n - 1 \in Nat /\ n - 1 \in 0 .. n - 1
    BY <1>2, <1>3
  <2> QED BY <1>4, <1>6, <2>1, FirstSame
<1>8. n - 1 \in DOMAIN Inner(c) /\ ~(n - 1 < Len(Inner(c)))
  BY <1>2, <1>3, <1>4, <1>6
<1> QED BY <1>7, <1>8

\* Once spoilt, a cell stays so.
LEMMA SpoiltStays ==
  ASSUME NEW c \in Seq(Signs), NEW x \in Signs, Spoilt(c)
  PROVE  Spoilt(Append(c, x))
<1>1. /\ Len(c) \in Nat /\ DOMAIN c = 1 .. Len(c) /\ DOMAIN Append(c, x) = 1 .. Len(c) + 1
      /\ Len(Append(c, x)) = Len(c) + 1
      /\ \A k \in 1 .. Len(c) : Append(c, x)[k] = c[k]
  BY AppendIs
<1>2. ASSUME c # <<>>, c[1] # "quote", Quotes(c) # {} PROVE Spoilt(Append(c, x))
  <2>1. Len(c) >= 1
    BY <1>1, <1>2
  <2>2. Append(c, x) # <<>> /\ Append(c, x)[1] = c[1]
    BY <1>1, <2>1
  <2>3. PICK k \in 1 .. Len(c) : c[k] = "quote"
    BY <1>1, <1>2 DEF Quotes
  <2>4. k \in 1 .. Len(c) + 1 /\ Append(c, x)[k] = "quote"
    BY <1>1, <2>3
  <2>5. Quotes(Append(c, x)) # {}
    BY <1>1, <2>4 DEF Quotes
  <2> QED BY <1>2, <2>2, <2>5 DEF Spoilt
<1>3. ASSUME NEW w \in Seq(Signs), NEW k \in 1 .. Len(w) - 1, OpensWith(c, w), FirstOfTwo(w, k), w[k + 1] # "quote"
      PROVE  Spoilt(Append(c, x))
  <2> DEFINE v == Append(w, x)
  <2>1. /\ v \in Seq(Signs) /\ Len(w) \in Nat /\ Len(v) = Len(w) + 1 /\ \A j \in 1 .. Len(w) : v[j] = w[j]
    BY AppendIs
  <2>2. OpensWith(Append(c, x), v)
    BY <1>3, OpensNext
  <2> HIDE DEF v
  <2>3. k \in 1 .. Len(v) - 1 /\ k \in 0 .. Len(w) /\ k + 1 \in 1 .. Len(w)
    BY <2>1
  <2>4. FirstOfTwo(v, k)
    BY <1>3, <2>1, <2>3, FirstSame
  <2>5. v[k + 1] # "quote"
    BY <1>3, <2>1, <2>3
  <2> QED BY <2>1, <2>2, <2>3, <2>4, <2>5 DEF Spoilt
<1> QED BY <1>2, <1>3 DEF Spoilt

\* It is no cell.
LEMMA SpoiltIsNone ==
  ASSUME NEW c \in Seq(Signs), Spoilt(c)
  PROVE  ~IsCell(c) /\ c # <<>>
<1>1. ASSUME c # <<>>, c[1] # "quote", Quotes(c) # {} PROVE ~IsCell(c)
  BY <1>1 DEF IsCell, InQuotes, Quotes
<1>2. ASSUME NEW w \in Seq(Signs), NEW k \in 1 .. Len(w) - 1, OpensWith(c, w), FirstOfTwo(w, k), w[k + 1] # "quote"
      PROVE  ~IsCell(c) /\ c # <<>>
  <2> DEFINE n == Len(w)
  <2>1. n \in Nat /\ n >= 1 /\ Len(c) = n + 1 /\ c[1] = "quote" /\ 1 \in DOMAIN c /\ c # <<>>
    BY <1>2 DEF OpensWith
  <2> SUFFICES ASSUME InQuotes(c),
                      \A j \in DOMAIN Inner(c) :
                        FirstOfTwo(Inner(c), j) => j < Len(Inner(c)) /\ Inner(c)[j + 1] = "quote"
               PROVE  FALSE
    BY <2>1 DEF IsCell
  <2>2. /\ Len(Inner(c)) = n - 1 /\ DOMAIN Inner(c) = 1 .. n - 1
        /\ \A j \in 1 .. n - 1 : Inner(c)[j] = w[j]
        /\ w[n] = "quote"
    BY <1>2, <2>1, InnerIs
  <2> HIDE DEF n
  <2>3. k \in 1 .. n - 1 /\ k \in 0 .. n - 1 /\ n - 1 \in Nat
    BY <2>1 DEF n
  <2>4. FirstOfTwo(Inner(c), k)
    BY <1>2, <2>2, <2>3, FirstSame
  <2>5. k + 1 \in 1 .. n - 1
    <3>1. k < Len(Inner(c))
      BY <2>2, <2>3, <2>4
    <3> QED BY <2>1, <2>2, <2>3, <3>1
  <2> QED BY <1>2, <2>2, <2>3, <2>4, <2>5
<1> QED BY <1>1, <1>2 DEF Spoilt

\* A quote in a plain cell, or anything but a quote behind the closing one, spoils it.
LEMMA CellSpoils ==
  ASSUME NEW c \in Seq(Signs), NEW state, NEW value, CellReads(c, state, value), NEW x \in Signs,
         \/ state = "plain" /\ x = "quote"
         \/ state = "closed" /\ x # "quote"
  PROVE  Spoilt(Append(c, x))
<1>1. /\ Len(c) \in Nat /\ DOMAIN c = 1 .. Len(c) /\ DOMAIN Append(c, x) = 1 .. Len(c) + 1
      /\ Append(c, x)[Len(c) + 1] = x /\ Len(Append(c, x)) = Len(c) + 1
      /\ \A k \in 1 .. Len(c) : Append(c, x)[k] = c[k]
  BY AppendIs
<1>2. CASE state = "plain" /\ x = "quote"
  <2>1. c # <<>> /\ Quotes(c) = {}
    BY <1>2 DEF CellReads
  <2>2. 1 \in 1 .. Len(c)
    BY <1>1, <2>1
  <2>3. Append(c, x)[1] # "quote" /\ Append(c, x) # <<>>
    BY <1>1, <2>1, <2>2 DEF Quotes
  <2>4. Len(c) + 1 \in Quotes(Append(c, x))
    BY <1>1, <1>2 DEF Quotes
  <2> QED BY <2>3, <2>4 DEF Spoilt
<1>3. CASE state = "closed" /\ x # "quote"
  <2>1. PICK w \in Seq(Signs) : OpensWith(c, Append(w, "quote")) /\ Doubled(w)
    BY <1>3 DEF CellReads
  <2> DEFINE n == Len(w)
             v == Append(w, "quote")
             u == Append(v, x)
  <2>2. /\ v \in Seq(Signs) /\ n \in Nat /\ Len(v) = n + 1 /\ v[n + 1] = "quote"
        /\ \A k \in 1 .. n : v[k] = w[k]
    BY QuoteIsSign, AppendIs
  <2>3. OpensWith(Append(c, x), u)
    BY <2>1, <2>2, OpensNext
  <2> HIDE DEF v
  <2>4. u \in Seq(Signs) /\ Len(u) = n + 2 /\ u[n + 2] = x /\ \A k \in 1 .. n + 1 : u[k] = v[k]
    <3>1. (n + 1) + 1 = n + 2
      BY <2>2
    <3> QED BY <2>2, <3>1, AppendIs
  <2> HIDE DEF u
  <2>5. FirstOfTwo(u, n + 1)
    <3>1. ~FirstOfTwo(w, n)
      BY <2>1, DoubledEnds
    <3> HIDE DEF n
    <3>2. \A k \in 1 .. n : u[k] = w[k]
      BY <2>2, <2>4
    <3>3. ~FirstOfTwo(u, n)
      <4>1. n \in 0 .. n
        BY <2>2
      <4> QED BY <2>2, <3>1, <3>2, <4>1, FirstSame
    <3>4. u[n + 1] = "quote"
      <4>1. n + 1 \in 1 .. n + 1
        BY <2>2
      <4> QED BY <2>2, <2>4, <4>1
    <3> QED BY <2>2, <3>3, <3>4, FirstNext
  <2>6. n + 1 \in 1 .. Len(u) - 1 /\ u[(n + 1) + 1] # "quote"
    <3> HIDE DEF n
    <3>1. (n + 1) + 1 = n + 2 /\ Len(u) - 1 = n + 1
      BY <2>2, <2>4
    <3> QED BY <1>3, <2>2, <2>4, <3>1
  <2> QED BY <2>3, <2>4, <2>5, <2>6 DEF Spoilt
<1> QED BY <1>2, <1>3

-----------------------------------------------------------------------------
(* CsvRows.  What has been read, as units.                                 *)

Chars == {"quote", "delimiter", "cr", "lf", "other"}

\* The characters that are units, and the units before a place.
KeptOf(s) == {k \in DOMAIN s : ~(k > 1 /\ PairAt(s, k - 1))}
AsUnits(q) == [n \in DOMAIN q |-> Unit(q[n])]
Prefix(s, p) == AsUnits(At(s, {k \in KeptOf(s) : k < p}))

LEMMA UnitType == \A x \in Chars : Unit(x) \in Signs
  BY DEF Chars, Signs, Unit

LEMMA AsUnitsIs ==
  ASSUME NEW q \in Seq(Chars)
  PROVE  /\ AsUnits(q) \in Seq(Signs)
         /\ \A x \in Chars : AsUnits(Append(q, x)) = Append(AsUnits(q), Unit(x))
<1>1. ASSUME NEW u \in Seq(Chars)
      PROVE  AsUnits(u) \in Seq(Signs) /\ Len(AsUnits(u)) = Len(u) /\ \A k \in 1 .. Len(u) : AsUnits(u)[k] = Unit(u[k])
  <2>1. Len(u) \in Nat /\ DOMAIN u = 1 .. Len(u) /\ \A k \in 1 .. Len(u) : u[k] \in Chars
    OBVIOUS
  <2>2. AsUnits(u) = [k \in 1 .. Len(u) |-> Unit(u[k])]
    BY <2>1 DEF AsUnits
  <2>3. \A k \in 1 .. Len(u) : Unit(u[k]) \in Signs
    BY <2>1, UnitType
  <2> QED BY <2>1, <2>2, <2>3
<1>2. ASSUME NEW x \in Chars PROVE AsUnits(Append(q, x)) = Append(AsUnits(q), Unit(x))
  <2> DEFINE n == Len(q)
             t == Append(q, x)
             a == AsUnits(q)
             b == AsUnits(t)
             d == Append(a, Unit(x))
  <2>1. /\ t \in Seq(Chars) /\ n \in Nat /\ Len(t) = n + 1 /\ t[n + 1] = x /\ DOMAIN q = 1 .. n
        /\ \A k \in DOMAIN q : t[k] = q[k]
    BY AppendIs
  <2>2. a \in Seq(Signs) /\ Len(a) = n /\ \A k \in 1 .. n : a[k] = Unit(q[k])
    BY <1>1
  <2> HIDE DEF t
  <2>3. b \in Seq(Signs) /\ Len(b) = n + 1 /\ \A k \in 1 .. n + 1 : b[k] = Unit(t[k])
    BY <1>1, <2>1
  <2> HIDE DEF a, b, n
  <2>4. /\ d \in Seq(Signs) /\ Len(d) = n + 1 /\ d[n + 1] = Unit(x)
        /\ \A k \in 1 .. n : d[k] = a[k]
    BY <2>2, UnitType, AppendIs
  <2> HIDE DEF d
  <2>5. \A k \in 1 .. n + 1 : b[k] = d[k]
    <3> TAKE k \in 1 .. n + 1
    <3>1. k = n + 1 \/ k \in 1 .. n
      BY <2>1
    <3> QED BY <2>1, <2>2, <2>3, <2>4, <3>1
  <2>6. b = d
    BY <2>3, <2>4, <2>5, SeqEqual
  <2> QED BY <2>6 DEF b, d, a, t
<1> QED BY <1>1, <1>2

\* A character that is passed adds its unit, or nothing if it is the second of a pair.
LEMMA PrefixNext ==
  ASSUME NEW s \in Seq(Chars)
  PROVE  /\ \A p : Prefix(s, p) \in Seq(Signs)
         /\ \A p \in DOMAIN s :
              Prefix(s, p + 1) = IF p \in KeptOf(s) THEN Append(Prefix(s, p), Unit(s[p])) ELSE Prefix(s, p)
         /\ Prefix(s, 1) = <<>>
         /\ Prefix(s, Len(s) + 1) = Units(s)
<1>1. Len(s) \in Nat /\ DOMAIN s = 1 .. Len(s) /\ KeptOf(s) \in SUBSET (1 .. Len(s))
  BY DEF KeptOf
<1>2. \A p : {k \in KeptOf(s) : k < p} \in SUBSET (DOMAIN s)
  BY <1>1
<1>3. \A p : At(s, {k \in KeptOf(s) : k < p}) \in Seq(Chars)
  BY <1>2, AtType
<1>4. \A p : Prefix(s, p) \in Seq(Signs)
  BY <1>3, AsUnitsIs DEF Prefix
<1>5. ASSUME NEW p \in DOMAIN s
      PROVE  Prefix(s, p + 1) = IF p \in KeptOf(s) THEN Append(Prefix(s, p), Unit(s[p])) ELSE Prefix(s, p)
  <2> DEFINE S == {k \in KeptOf(s) : k < p}
  <2>1. CASE p \in KeptOf(s)
    <3>1. {k \in KeptOf(s) : k < p + 1} = S \cup {p}
      BY <1>1, <2>1
    <3>2. At(s, S \cup {p}) = Append(At(s, S), s[p])
      <4>1. S \in SUBSET (DOMAIN s) /\ \A j \in S : j < p
        BY <1>1
      <4> HIDE DEF S
      <4> QED BY <4>1, AtNext
    <3>3. s[p] \in Chars
      BY <1>1
    <3>4. AsUnits(Append(At(s, S), s[p])) = Append(AsUnits(At(s, S)), Unit(s[p]))
      BY <1>3, <3>3, AsUnitsIs
    <3> QED BY <2>1, <3>1, <3>2, <3>4 DEF Prefix
  <2>2. CASE p \notin KeptOf(s)
    <3>1. {k \in KeptOf(s) : k < p + 1} = S
      BY <1>1, <2>2
    <3> QED BY <2>2, <3>1 DEF Prefix
  <2> QED BY <2>1, <2>2
<1>6. Prefix(s, 1) = <<>>
  <2>1. {k \in KeptOf(s) : k < 1} = {}
    BY <1>1
  <2>2. AsUnits(<<>>) = <<>>
    BY DEF AsUnits
  <2> QED BY <2>1, <2>2, AtNowhere DEF Prefix
<1>7. Prefix(s, Len(s) + 1) = Units(s)
  <2>1. {k \in KeptOf(s) : k < Len(s) + 1} = KeptOf(s)
    BY <1>1
  <2> QED BY <2>1 DEF Prefix, Units, KeptOf, AsUnits
<1> QED BY <1>4, <1>5, <1>6, <1>7

\* The parser passes both characters of a pair.
LEMMA ReadOn ==
  ASSUME NEW s \in Seq(Chars), NEW p \in KeptOf(s)
  PROVE  /\ p \in DOMAIN s /\ s[p] \in Chars /\ (PairAt(s, p) => s[p] = "cr")
         /\ PairAt(s, p) => /\ Prefix(s, p + 2) = Append(Prefix(s, p), Unit(s[p]))
                            /\ p + 2 \in KeptOf(s) \cup {Len(s) + 1}
         /\ ~PairAt(s, p) => /\ Prefix(s, p + 1) = Append(Prefix(s, p), Unit(s[p]))
                             /\ p + 1 \in KeptOf(s) \cup {Len(s) + 1}
<1>1. Len(s) \in Nat /\ DOMAIN s = 1 .. Len(s) /\ p \in DOMAIN s /\ s[p] \in Chars
  BY DEF KeptOf
<1>2. Prefix(s, p + 1) = Append(Prefix(s, p), Unit(s[p]))
  BY <1>1, PrefixNext
<1>3. ASSUME PairAt(s, p)
      PROVE  /\ s[p] = "cr" /\ Prefix(s, p + 2) = Append(Prefix(s, p), Unit(s[p]))
             /\ p + 2 \in KeptOf(s) \cup {Len(s) + 1}
  <2>1. s[p] = "cr" /\ p < Len(s) /\ s[p + 1] = "lf"
    BY <1>3 DEF PairAt
  <2>2. p + 1 \in DOMAIN s /\ p + 1 > 1 /\ (p + 1) - 1 = p /\ (p + 1) + 1 = p + 2 /\ (p + 2) - 1 = p + 1
    BY <1>1, <2>1
  <2>3. p + 1 \notin KeptOf(s)
    BY <1>3, <2>2 DEF KeptOf
  <2>4. Prefix(s, (p + 1) + 1) = Prefix(s, p + 1)
    BY <2>2, <2>3, PrefixNext
  <2>5. ~PairAt(s, p + 1)
    BY <2>1 DEF PairAt
  <2>6. p + 2 \in KeptOf(s) \cup {Len(s) + 1}
    <3>1. p + 2 \in DOMAIN s \/ p + 2 = Len(s) + 1
      BY <1>1, <2>1
    <3>2. p + 2 \in DOMAIN s => p + 2 \in KeptOf(s)
      BY <2>2, <2>5 DEF KeptOf
    <3> QED BY <3>1, <3>2
  <2> QED BY <1>2, <2>1, <2>2, <2>4, <2>6
<1>4. ASSUME ~PairAt(s, p) PROVE p + 1 \in KeptOf(s) \cup {Len(s) + 1}
  <2>1. p + 1 \in DOMAIN s \/ p + 1 = Len(s) + 1
    BY <1>1
  <2>2. (p + 1) - 1 = p
    BY <1>1
  <2>3. p + 1 \in DOMAIN s => p + 1 \in KeptOf(s)
    BY <1>4, <2>2 DEF KeptOf
  <2> QED BY <2>1, <2>3
<1> QED BY <1>1, <1>2, <1>3, <1>4

-----------------------------------------------------------------------------
(* CsvRows.  What is written, against the cells that have been read.       *)

States == {"start", "plain", "quoted", "closed"}

\* Rows of cells, and the cell that is last.
Cells == Seq(Seq(Seq(Signs)))
Filled(rows) == rows \in Cells /\ Len(rows) >= 1 /\ \A r \in DOMAIN rows : Len(rows[r]) >= 1
IsLast(rows, r, m) == r = Len(rows) /\ m = Len(rows[r])
LastCell(rows) == rows[Len(rows)][Len(rows[Len(rows)])]

\* Whole cells hold what they say, and the last cell is read that far.
Whole(c, value) == IsCell(c) /\ value = Content(c)
Writes(rows, written, state) ==
  /\ Len(written) = Len(rows)
  /\ \A r \in DOMAIN rows :
       /\ Len(written[r]) = Len(rows[r])
       /\ \A m \in DOMAIN rows[r] : ~IsLast(rows, r, m) => Whole(rows[r][m], written[r][m])
  /\ CellReads(LastCell(rows), state, LastCell(written))

\* The same cells but the last.
SameBut(rows, others) ==
  /\ Len(others) = Len(rows)
  /\ \A r \in DOMAIN rows :
       /\ Len(others[r]) = Len(rows[r])
       /\ \A m \in DOMAIN rows[r] : ~IsLast(rows, r, m) => others[r][m] = rows[r][m]

LEMMA FilledIs ==
  ASSUME NEW rows, Filled(rows)
  PROVE  /\ Len(rows) \in Nat \ {0} /\ DOMAIN rows = 1 .. Len(rows) /\ Len(rows) \in DOMAIN rows
         /\ \A r \in DOMAIN rows : /\ rows[r] \in Seq(Seq(Signs)) /\ Len(rows[r]) \in Nat \ {0}
                                   /\ DOMAIN rows[r] = 1 .. Len(rows[r])
                                   /\ \A m \in DOMAIN rows[r] : rows[r][m] \in Seq(Signs)
         /\ LastCell(rows) \in Seq(Signs)
<1>1. Len(rows) \in Nat \ {0} /\ DOMAIN rows = 1 .. Len(rows) /\ Len(rows) \in DOMAIN rows
  BY DEF Filled, Cells
<1>2. ASSUME NEW r \in DOMAIN rows
      PROVE  /\ rows[r] \in Seq(Seq(Signs)) /\ Len(rows[r]) \in Nat \ {0}
             /\ DOMAIN rows[r] = 1 .. Len(rows[r])
             /\ \A m \in DOMAIN rows[r] : rows[r][m] \in Seq(Signs)
  <2>1. rows[r] \in Seq(Seq(Signs)) /\ Len(rows[r]) >= 1
    BY DEF Filled, Cells
  <2> QED BY <2>1
<1>3. Len(rows[Len(rows)]) \in DOMAIN rows[Len(rows)]
  BY <1>1, <1>2
<1> QED BY <1>1, <1>2, <1>3 DEF LastCell

\* A last cell with one more.
LEMMA LastGrows ==
  ASSUME NEW rows, Filled(rows), NEW x \in Signs
  PROVE  /\ Filled(GrownCell(rows, x)) /\ SameBut(rows, GrownCell(rows, x))
         /\ LastCell(GrownCell(rows, x)) = Append(LastCell(rows), x)
<1> DEFINE n == Len(rows)
           g == GrownCell(rows, x)
<1>1. n \in Nat \ {0} /\ DOMAIN rows = 1 .. n /\ n \in DOMAIN rows
  BY FilledIs
<1>2. g = [r \in 1 .. n |-> IF r = n THEN Grown(rows[r], x) ELSE rows[r]]
  BY <1>1 DEF GrownCell
<1>3. ASSUME NEW r \in DOMAIN rows
      PROVE  rows[r] \in Seq(Seq(Signs)) /\ Grown(rows[r], x) \in Seq(Seq(Signs))
  BY FilledIs, GrownIs
<1>4. g \in Cells /\ Len(g) = n /\ DOMAIN g = 1 .. n
  <2>1. \A r \in 1 .. n : (IF r = n THEN Grown(rows[r], x) ELSE rows[r]) \in Seq(Seq(Signs))
    BY <1>1, <1>3
  <2> DEFINE S == Seq(Seq(Signs))
  <2> HIDE DEF S, n
  <2>2. g \in [1 .. n -> S]
    BY <1>2, <2>1 DEF S
  <2>3. n \in Nat
    BY <1>1
  <2> HIDE DEF g
  <2>4. g \in Seq(S) /\ Len(g) = n /\ DOMAIN g = 1 .. n
    BY <2>2, <2>3
  <2> QED BY <2>4 DEF S, Cells
<1>5. \A r \in 1 .. n : g[r] = IF r = n THEN Grown(rows[r], x) ELSE rows[r]
  BY <1>2
<1> HIDE DEF g, n
<1>6. ASSUME NEW r \in 1 .. n
      PROVE  /\ Len(g[r]) = Len(rows[r]) /\ Len(rows[r]) \in Nat \ {0}
             /\ \A m \in DOMAIN rows[r] :
                  g[r][m] = IF r = n /\ m = Len(rows[r]) THEN Append(rows[r][m], x) ELSE rows[r][m]
  <2>1. rows[r] \in Seq(Seq(Signs)) /\ Len(rows[r]) \in Nat \ {0}
    BY <1>1, FilledIs
  <2>2. CASE r = n
    BY <1>5, <2>1, <2>2, GrownIs
  <2>3. CASE r # n
    BY <1>5, <2>1, <2>3
  <2> QED BY <2>2, <2>3
<1>7. Filled(g)
  BY <1>1, <1>4, <1>6 DEF Filled
<1>8. SameBut(rows, g)
  BY <1>1, <1>4, <1>6 DEF SameBut, IsLast, n
<1>9. LastCell(g) = Append(LastCell(rows), x)
  <2>1. Len(rows[n]) \in DOMAIN rows[n]
    BY <1>1, FilledIs
  <2>2. g[n][Len(rows[n])] = Append(rows[n][Len(rows[n])], x) /\ Len(g[n]) = Len(rows[n])
    BY <1>1, <1>6, <2>1
  <2> QED BY <1>4, <2>2 DEF LastCell, n
<1> QED BY <1>7, <1>8, <1>9 DEF g

\* The last cell is read on.
LEMMA WritesCell ==
  ASSUME NEW rows, Filled(rows), NEW written, NEW state, Writes(rows, written, state), Filled(written),
         NEW more, Filled(more), SameBut(rows, more), NEW after, SameBut(written, after), NEW later,
         CellReads(LastCell(more), later, LastCell(after))
  PROVE  Writes(more, after, later)
<1>1. Len(rows) \in Nat /\ DOMAIN rows = 1 .. Len(rows) /\ DOMAIN written = 1 .. Len(written)
  BY FilledIs
<1>2. Len(written) = Len(rows) /\ Len(more) = Len(rows) /\ Len(after) = Len(written)
  BY DEF Writes, SameBut
<1>3. ASSUME NEW r \in DOMAIN rows
      PROVE  /\ Len(after[r]) = Len(more[r]) /\ Len(more[r]) = Len(rows[r])
             /\ \A m \in DOMAIN rows[r] :
                  ~IsLast(more, r, m) => Whole(more[r][m], after[r][m])
  <2>1. r \in DOMAIN written
    BY <1>1, <1>2
  <2>2. Len(written[r]) = Len(rows[r]) /\ Len(more[r]) = Len(rows[r]) /\ Len(after[r]) = Len(written[r])
    BY <2>1 DEF Writes, SameBut
  <2>3. DOMAIN rows[r] = 1 .. Len(rows[r]) /\ DOMAIN written[r] = 1 .. Len(written[r])
    BY <2>1, FilledIs
  <2>4. ASSUME NEW m \in DOMAIN rows[r], ~IsLast(more, r, m)
        PROVE  Whole(more[r][m], after[r][m])
    <3>1. m \in DOMAIN written[r] /\ ~IsLast(rows, r, m) /\ ~IsLast(written, r, m)
      BY <1>2, <2>2, <2>3, <2>4 DEF IsLast
    <3>2. Whole(rows[r][m], written[r][m])
      BY <3>1 DEF Writes
    <3>3. more[r][m] = rows[r][m]
      BY <3>1 DEF SameBut
    <3>4. after[r][m] = written[r][m]
      BY <2>1, <3>1 DEF SameBut
    <3> QED BY <3>2, <3>3, <3>4
  <2> QED BY <2>2, <2>4
<1> QED
  <2>1. DOMAIN more = DOMAIN rows /\ \A r \in DOMAIN rows : DOMAIN more[r] = DOMAIN rows[r]
    <3>1. DOMAIN more = 1 .. Len(more) /\ \A r \in DOMAIN more : DOMAIN more[r] = 1 .. Len(more[r])
      BY FilledIs
    <3>2. \A r \in DOMAIN rows : DOMAIN rows[r] = 1 .. Len(rows[r])
      BY FilledIs
    <3> QED BY <1>1, <1>2, <1>3, <3>1, <3>2
  <2> QED BY <1>2, <1>3, <2>1 DEF Writes

\* Rows with one more cell, that is empty.
LEMMA RowGrows ==
  ASSUME NEW rows, Filled(rows)
  PROVE  LET more == Grown(rows, <<>>)
         IN  /\ Filled(more) /\ Len(more) = Len(rows) /\ LastCell(more) = <<>>
             /\ \A r \in DOMAIN rows :
                  /\ Len(more[r]) = IF r = Len(rows) THEN Len(rows[r]) + 1 ELSE Len(rows[r])
                  /\ \A m \in DOMAIN rows[r] : more[r][m] = rows[r][m]
<1> DEFINE n == Len(rows)
           g == Grown(rows, <<>>)
<1>1. n \in Nat \ {0} /\ DOMAIN rows = 1 .. n /\ n \in DOMAIN rows
  BY FilledIs
<1>2. /\ g \in Cells /\ Len(g) = n /\ DOMAIN g = 1 .. n
      /\ \A r \in 1 .. n : g[r] = IF r = n THEN Append(rows[r], <<>>) ELSE rows[r]
  <2> DEFINE Y == Seq(Signs)
  <2>1. <<>> \in Y /\ rows \in Seq(Seq(Y))
    BY DEF Filled, Cells
  <2> HIDE DEF Y
  <2>2. /\ g \in Seq(Seq(Y)) /\ Len(g) = n /\ DOMAIN g = DOMAIN rows
        /\ \A r \in DOMAIN rows : g[r] = IF r = n THEN Append(rows[r], <<>>) ELSE rows[r]
    BY <2>1, GrownIs
  <2> QED BY <1>1, <2>2 DEF Y, Cells
<1> HIDE DEF g, n
<1>3. ASSUME NEW r \in 1 .. n
      PROVE  /\ Len(g[r]) = IF r = n THEN Len(rows[r]) + 1 ELSE Len(rows[r])
             /\ Len(rows[r]) \in Nat \ {0}
             /\ r = n => g[r][Len(rows[r]) + 1] = <<>>
             /\ \A m \in DOMAIN rows[r] : g[r][m] = rows[r][m]
  <2> DEFINE Y == Seq(Signs)
  <2>1. rows[r] \in Seq(Y) /\ Len(rows[r]) \in Nat \ {0} /\ <<>> \in Y
    BY <1>1, FilledIs
  <2> HIDE DEF Y
  <2>2. CASE r = n
    BY <1>2, <2>1, <2>2, AppendIs
  <2>3. CASE r # n
    BY <1>2, <2>1, <2>3
  <2> QED BY <2>2, <2>3
<1>4. Filled(g)
  BY <1>1, <1>2, <1>3 DEF Filled
<1>5. LastCell(g) = <<>>
  BY <1>1, <1>2, <1>3 DEF LastCell
<1> QED BY <1>1, <1>2, <1>3, <1>4, <1>5 DEF g, n

\* A cell is done and the next begins.
LEMMA WritesColumn ==
  ASSUME NEW rows, Filled(rows), NEW written, NEW state, Writes(rows, written, state), Filled(written),
         state \in {"start", "plain", "closed"}
  PROVE  Writes(Grown(rows, <<>>), Grown(written, <<>>), "start")
<1> DEFINE more == Grown(rows, <<>>)
           after == Grown(written, <<>>)
<1>1. /\ Filled(more) /\ Len(more) = Len(rows) /\ LastCell(more) = <<>>
      /\ \A r \in DOMAIN rows :
           /\ Len(more[r]) = IF r = Len(rows) THEN Len(rows[r]) + 1 ELSE Len(rows[r])
           /\ \A m \in DOMAIN rows[r] : more[r][m] = rows[r][m]
  BY RowGrows
<1>2. /\ Len(after) = Len(written) /\ LastCell(after) = <<>>
      /\ \A r \in DOMAIN written :
           /\ Len(after[r]) = IF r = Len(written) THEN Len(written[r]) + 1 ELSE Len(written[r])
           /\ \A m \in DOMAIN written[r] : after[r][m] = written[r][m]
  BY RowGrows
<1> HIDE DEF more, after
<1>3. Len(rows) \in Nat \ {0} /\ DOMAIN rows = 1 .. Len(rows) /\ DOMAIN written = 1 .. Len(written)
  BY FilledIs
<1>4. DOMAIN more = 1 .. Len(more)
  BY <1>1, FilledIs
<1>5. Len(written) = Len(rows)
  BY DEF Writes
<1>6. ASSUME NEW r \in DOMAIN rows
      PROVE  /\ Len(after[r]) = Len(more[r])
             /\ \A m \in DOMAIN more[r] : ~IsLast(more, r, m) => Whole(more[r][m], after[r][m])
  <2>1. r \in DOMAIN written
    BY <1>3, <1>5
  <2>2. Len(written[r]) = Len(rows[r])
    BY DEF Writes
  <2>3. /\ DOMAIN rows[r] = 1 .. Len(rows[r]) /\ Len(rows[r]) \in Nat
        /\ DOMAIN written[r] = 1 .. Len(written[r])
    BY <2>1, FilledIs
  <2>4. Len(after[r]) = Len(more[r])
    BY <1>1, <1>2, <1>5, <2>1, <2>2
  <2>5. ASSUME NEW m \in DOMAIN more[r], ~IsLast(more, r, m)
        PROVE  Whole(more[r][m], after[r][m])
    <3>1. DOMAIN more[r] = 1 .. Len(more[r])
      BY <1>1, <1>3, <1>4, FilledIs
    <3>2. m \in DOMAIN rows[r]
      BY <1>1, <2>3, <2>5, <3>1 DEF IsLast
    <3>3. more[r][m] = rows[r][m] /\ after[r][m] = written[r][m]
      BY <1>1, <1>2, <2>1, <2>2, <2>3, <3>2
    <3>4. Whole(rows[r][m], written[r][m])
      <4>1. CASE IsLast(rows, r, m)
        <5>1. CellReads(rows[r][m], state, written[r][m])
          BY <1>5, <2>2, <4>1 DEF Writes, IsLast, LastCell
        <5>2. rows[r][m] \in Seq(Signs)
          BY <3>2, FilledIs
        <5> QED BY <5>1, <5>2, CellDone DEF Whole
      <4>2. CASE ~IsLast(rows, r, m)
        BY <3>2, <4>2 DEF Writes
      <4> QED BY <4>1, <4>2
    <3> QED BY <3>3, <3>4
  <2> QED BY <2>4, <2>5
<1>7. CellReads(LastCell(more), "start", LastCell(after))
  BY <1>1, <1>2 DEF CellReads
<1> QED
  <2>1. Writes(more, after, "start")
    BY <1>1, <1>2, <1>3, <1>4, <1>5, <1>6, <1>7 DEF Writes
  <2> QED BY <2>1 DEF more, after

\* Rows with one more row, of one empty cell.
LEMMA RowsGrow ==
  ASSUME NEW rows, Filled(rows)
  PROVE  LET more == Append(rows, << <<>> >>)
         IN  /\ Filled(more) /\ Len(more) = Len(rows) + 1 /\ LastCell(more) = <<>>
             /\ more[Len(rows) + 1] = << <<>> >> /\ \A r \in DOMAIN rows : more[r] = rows[r]
<1> DEFINE n == Len(rows)
           Y == Seq(Seq(Signs))
           x == << <<>> >>
           g == Append(rows, x)
<1>1. n \in Nat \ {0} /\ DOMAIN rows = 1 .. n
  BY FilledIs
<1>2. rows \in Seq(Y) /\ x \in Y /\ Len(x) = 1 /\ x[1] = <<>>
  BY DEF Filled, Cells
<1> HIDE DEF x, Y
<1>3. /\ g \in Seq(Y) /\ Len(g) = n + 1 /\ DOMAIN g = 1 .. n + 1 /\ g[n + 1] = x
      /\ \A r \in DOMAIN rows : g[r] = rows[r]
  BY <1>2, AppendIs
<1> HIDE DEF g
<1>4. \A r \in DOMAIN g : Len(g[r]) >= 1
  <2> TAKE r \in DOMAIN g
  <2>1. CASE r = n + 1
    BY <1>2, <1>3, <2>1
  <2>2. CASE r # n + 1
    <3>1. r \in DOMAIN rows
      BY <1>1, <1>3, <2>2
    <3>2. Len(rows[r]) >= 1
      BY <3>1 DEF Filled
    <3> QED BY <1>3, <3>1, <3>2
  <2> QED BY <2>1, <2>2
<1>5. Filled(g)
  BY <1>1, <1>3, <1>4 DEF Filled, Cells, Y
<1>6. LastCell(g) = <<>>
  BY <1>2, <1>3 DEF LastCell
<1> QED BY <1>3, <1>5, <1>6 DEF g, n, x

\* A row is done and the next begins.
LEMMA WritesRow ==
  ASSUME NEW rows, Filled(rows), NEW written, NEW state, Writes(rows, written, state), Filled(written),
         state \in {"start", "plain", "closed"}
  PROVE  Writes(Append(rows, << <<>> >>), Append(written, << <<>> >>), "start")
<1> DEFINE more == Append(rows, << <<>> >>)
           after == Append(written, << <<>> >>)
           one == << <<>> >>
<1>1. /\ Filled(more) /\ Len(more) = Len(rows) + 1 /\ LastCell(more) = <<>>
      /\ more[Len(rows) + 1] = one /\ \A r \in DOMAIN rows : more[r] = rows[r]
  BY RowsGrow
<1>2. /\ Len(after) = Len(written) + 1 /\ LastCell(after) = <<>>
      /\ after[Len(written) + 1] = one /\ \A r \in DOMAIN written : after[r] = written[r]
  BY RowsGrow
<1>3. Len(rows) \in Nat \ {0} /\ DOMAIN rows = 1 .. Len(rows) /\ DOMAIN written = 1 .. Len(written)
  BY FilledIs
<1>4. DOMAIN one = {1} /\ Len(one) = 1
  OBVIOUS
<1> HIDE DEF more, after, one
<1>5. DOMAIN more = 1 .. Len(rows) + 1
  BY <1>1, FilledIs
<1>6. Len(written) = Len(rows)
  BY DEF Writes
<1>7. ASSUME NEW r \in DOMAIN more
      PROVE  /\ Len(after[r]) = Len(more[r])
             /\ \A m \in DOMAIN more[r] : ~IsLast(more, r, m) => Whole(more[r][m], after[r][m])
  <2>1. CASE r = Len(rows) + 1
    <3>1. more[r] = one /\ after[r] = one
      BY <1>1, <1>2, <1>6, <2>1
    <3>2. \A m \in DOMAIN more[r] : IsLast(more, r, m)
      BY <1>1, <1>4, <2>1, <3>1 DEF IsLast
    <3> QED BY <3>1, <3>2
  <2>2. CASE r # Len(rows) + 1
    <3>1. r \in DOMAIN rows /\ r \in DOMAIN written
      BY <1>3, <1>5, <1>6, <2>2
    <3>2. more[r] = rows[r] /\ after[r] = written[r]
      BY <1>1, <1>2, <3>1
    <3>3. Len(written[r]) = Len(rows[r])
      BY <3>1 DEF Writes
    <3>4. ASSUME NEW m \in DOMAIN rows[r] PROVE Whole(rows[r][m], written[r][m])
      <4>1. CASE IsLast(rows, r, m)
        <5>1. CellReads(rows[r][m], state, written[r][m])
          BY <1>6, <3>3, <4>1 DEF Writes, IsLast, LastCell
        <5>2. rows[r][m] \in Seq(Signs)
          BY <3>1, <3>4, FilledIs
        <5> QED BY <5>1, <5>2, CellDone DEF Whole
      <4>2. CASE ~IsLast(rows, r, m)
        BY <3>1, <4>2 DEF Writes
      <4> QED BY <4>1, <4>2
    <3> QED BY <3>2, <3>3, <3>4
  <2> QED BY <2>1, <2>2
<1>8. CellReads(LastCell(more), "start", LastCell(after))
  BY <1>1, <1>2 DEF CellReads
<1> QED
  <2>1. Writes(more, after, "start")
    BY <1>1, <1>2, <1>6, <1>7, <1>8 DEF Writes
  <2> QED BY <2>1 DEF more, after

-----------------------------------------------------------------------------
(* CsvRows.  How far a text is read.                                       *)

TextReads(v, written, state) ==
  /\ v \in Seq(Signs) /\ Level(v)
  /\ state \in States /\ (OpenQuote(v) <=> state = "quoted")
  /\ Filled(written) /\ Writes(TextRows(v), written, state)

LEMMA RowsFilled ==
  ASSUME NEW v \in Seq(Signs)
  PROVE  Filled(TextRows(v))
<1>1. /\ TextRows(v) \in Seq(Seq(Seq(Signs))) /\ Len(TextRows(v)) \in Nat \ {0}
      /\ \A r \in DOMAIN TextRows(v) : Len(TextRows(v)[r]) \in Nat \ {0}
  BY RowsType
<1> QED BY <1>1 DEF Filled, Cells

\* What each character does to the rows, by the state that it is read in.
LEMMA ReadsNext ==
  ASSUME NEW v, NEW T, NEW state, TextReads(v, T, state), NEW x \in Signs
  PROVE  /\ state = "quoted" /\ x # "quote" => TextReads(Append(v, x), GrownCell(T, x), "quoted")
         /\ state = "quoted" /\ x = "quote" => TextReads(Append(v, x), T, "closed")
         /\ state = "closed" /\ x = "quote" => TextReads(Append(v, x), GrownCell(T, x), "quoted")
         /\ state = "start" /\ x = "quote" => TextReads(Append(v, x), T, "quoted")
         /\ state \in {"start", "plain"} /\ x = "other" => TextReads(Append(v, x), GrownCell(T, x), "plain")
         /\ state # "quoted" /\ x = "delimiter" => TextReads(Append(v, x), Grown(T, <<>>), "start")
         /\ state # "quoted" /\ x = "break" => TextReads(Append(v, x), Append(T, << <<>> >>), "start")
<1> DEFINE u == Append(v, x)
           R == TextRows(v)
<1>1. /\ v \in Seq(Signs) /\ Level(v) /\ state \in States /\ (OpenQuote(v) <=> state = "quoted")
      /\ Filled(T) /\ Writes(R, T, state)
  BY DEF TextReads
<1>2. u \in Seq(Signs) /\ Level(u) /\ Filled(R) /\ Filled(TextRows(u))
  <2>1. u \in Seq(Signs)
    BY <1>1, AppendIs
  <2>2. Level(u)
    BY <1>1, RowsNext
  <2> HIDE DEF u
  <2> QED BY <1>1, <2>1, <2>2, RowsFilled
<1>3. OpenQuote(u) <=> IF x = "quote" THEN ~OpenQuote(v) ELSE OpenQuote(v)
  BY <1>1, QuotesNext
<1>4. /\ x = "break" /\ ~OpenQuote(v) => TextRows(u) = Append(R, << <<>> >>)
      /\ x = "delimiter" /\ ~OpenQuote(v) => TextRows(u) = Grown(R, <<>>)
      /\ ~(x \in {"break", "delimiter"} /\ ~OpenQuote(v)) => TextRows(u) = GrownCell(R, x)
  BY <1>1, RowsNext
<1> HIDE DEF u, R
<1>5. CellReads(LastCell(R), state, LastCell(T)) /\ LastCell(R) \in Seq(Signs)
  BY <1>1, <1>2, FilledIs DEF Writes
<1>6. ASSUME NEW later \in States, NEW U, Filled(U), SameBut(T, U), OpenQuote(u) <=> later = "quoted",
             state = "quoted" \/ x \notin {"break", "delimiter"},
             CellReads(Append(LastCell(R), x), later, LastCell(U))
      PROVE  TextReads(u, U, later)
  <2>1. TextRows(u) = GrownCell(R, x)
    BY <1>1, <1>4, <1>6
  <2>2. SameBut(R, GrownCell(R, x)) /\ LastCell(GrownCell(R, x)) = Append(LastCell(R), x)
    BY <1>2, LastGrows
  <2>3. Writes(TextRows(u), U, later)
    BY <1>1, <1>2, <1>6, <2>1, <2>2, WritesCell
  <2> QED BY <1>2, <1>6, <2>3 DEF TextReads
<1>7. SameBut(T, T)
  BY DEF SameBut
<1>8. /\ Filled(GrownCell(T, x)) /\ SameBut(T, GrownCell(T, x))
      /\ LastCell(GrownCell(T, x)) = Append(LastCell(T), x)
  BY <1>1, LastGrows
<1>9. "quoted" \in States /\ "closed" \in States /\ "plain" \in States /\ "start" \in States
  BY DEF States
<1>10. ASSUME state = "quoted", x # "quote" PROVE TextReads(u, GrownCell(T, x), "quoted")
  <2>1. CellReads(Append(LastCell(R), x), "quoted", LastCell(GrownCell(T, x)))
    BY <1>5, <1>8, <1>10, CellNext
  <2> QED BY <1>1, <1>3, <1>6, <1>8, <1>9, <1>10, <2>1
<1>11. ASSUME state = "quoted", x = "quote" PROVE TextReads(u, T, "closed")
  <2>1. CellReads(Append(LastCell(R), x), "closed", LastCell(T))
    BY <1>5, <1>11, CellNext
  <2> QED BY <1>1, <1>3, <1>6, <1>7, <1>9, <1>11, <2>1
<1>12. ASSUME state = "closed", x = "quote" PROVE TextReads(u, GrownCell(T, x), "quoted")
  <2>1. CellReads(Append(LastCell(R), x), "quoted", LastCell(GrownCell(T, x)))
    BY <1>5, <1>8, <1>12, CellNext
  <2> QED BY <1>1, <1>3, <1>6, <1>8, <1>9, <1>12, <2>1
<1>13. ASSUME state = "start", x = "quote" PROVE TextReads(u, T, "quoted")
  <2>1. CellReads(Append(LastCell(R), x), "quoted", LastCell(T))
    BY <1>5, <1>13, CellNext
  <2> QED BY <1>1, <1>3, <1>6, <1>7, <1>9, <1>13, <2>1
<1>14. ASSUME state \in {"start", "plain"}, x = "other" PROVE TextReads(u, GrownCell(T, x), "plain")
  <2>1. CellReads(Append(LastCell(R), x), "plain", LastCell(GrownCell(T, x)))
    BY <1>5, <1>8, <1>14, CellNext
  <2> QED BY <1>1, <1>3, <1>6, <1>8, <1>9, <1>14, <2>1
<1>15. state # "quoted" => state \in {"start", "plain", "closed"}
  BY <1>1 DEF States
<1>16. ASSUME state # "quoted", x = "delimiter" PROVE TextReads(u, Grown(T, <<>>), "start")
  <2>1. Writes(Grown(R, <<>>), Grown(T, <<>>), "start")
    BY <1>1, <1>2, <1>15, <1>16, WritesColumn
  <2>2. Filled(Grown(T, <<>>))
    BY <1>1, RowGrows
  <2> QED BY <1>1, <1>2, <1>3, <1>4, <1>9, <1>16, <2>1, <2>2 DEF TextReads
<1>17. ASSUME state # "quoted", x = "break" PROVE TextReads(u, Append(T, << <<>> >>), "start")
  <2>1. Writes(Append(R, << <<>> >>), Append(T, << <<>> >>), "start")
    BY <1>1, <1>2, <1>15, <1>17, WritesRow
  <2>2. Filled(Append(T, << <<>> >>))
    BY <1>1, RowsGrow
  <2> QED BY <1>1, <1>2, <1>3, <1>4, <1>9, <1>17, <2>1, <2>2 DEF TextReads
<1> QED BY <1>10, <1>11, <1>12, <1>13, <1>14, <1>16, <1>17 DEF u

LEMMA NothingRead == TextReads(<<>>, << << <<>> >> >>, "start")
<1> DEFINE T == << << <<>> >> >>
           one == << <<>> >>
<1>1. <<>> \in Seq(Signs) /\ TextRows(<<>>) = T /\ ~OpenQuote(<<>>) /\ Level(<<>>)
  BY NoText
<1>2. Filled(T)
  BY <1>1, RowsFilled
<1>3. Len(T) = 1 /\ DOMAIN T = {1} /\ T[1] = one /\ Len(one) = 1 /\ DOMAIN one = {1} /\ one[1] = <<>>
  OBVIOUS
<1> HIDE DEF T, one
<1>4. LastCell(T) = <<>>
  BY <1>3 DEF LastCell
<1>5. Writes(T, T, "start")
  BY <1>3, <1>4 DEF Writes, IsLast, CellReads
<1> QED BY <1>1, <1>2, <1>5 DEF TextReads, States, T, one

\* The text has a cell that nothing repairs.
Broken(v) ==
  /\ v \in Seq(Signs) /\ Level(v)
  /\ \E r \in DOMAIN TextRows(v) : \E m \in DOMAIN TextRows(v)[r] : Spoilt(TextRows(v)[r][m])

LEMMA BrokenStays ==
  ASSUME NEW v, Broken(v), NEW x \in Signs
  PROVE  Broken(Append(v, x))
<1> DEFINE u == Append(v, x)
           R == TextRows(v)
           S == TextRows(u)
<1>1. v \in Seq(Signs) /\ Level(v) /\ Filled(R)
  BY RowsFilled DEF Broken
<1>2. u \in Seq(Signs) /\ Level(u)
  BY <1>1, AppendIs, RowsNext
<1>3. PICK r \in DOMAIN R : \E m \in DOMAIN R[r] : Spoilt(R[r][m])
  BY DEF Broken
<1>4. PICK m \in DOMAIN R[r] : Spoilt(R[r][m])
  BY <1>3
<1>5. /\ Len(R) \in Nat \ {0} /\ DOMAIN R = 1 .. Len(R) /\ r \in 1 .. Len(R)
      /\ Len(R[r]) \in Nat \ {0} /\ DOMAIN R[r] = 1 .. Len(R[r]) /\ m \in 1 .. Len(R[r])
      /\ R[r][m] \in Seq(Signs)
  BY <1>1, <1>4, FilledIs
<1>6. \/ S = Append(R, << <<>> >>)
      \/ S = Grown(R, <<>>)
      \/ S = GrownCell(R, x)
  BY <1>1, RowsNext
<1> HIDE DEF u, R, S
<1>7. Filled(S)
  BY <1>2, RowsFilled DEF S
<1>8. /\ DOMAIN S = 1 .. Len(S)
      /\ \A k \in DOMAIN S : DOMAIN S[k] = 1 .. Len(S[k])
  BY <1>7, FilledIs
<1>9. ASSUME S = Append(R, << <<>> >>) PROVE Broken(u)
  <2>1. Len(S) = Len(R) + 1 /\ \A k \in DOMAIN R : S[k] = R[k]
    BY <1>1, <1>9, RowsGrow
  <2>2. r \in DOMAIN S /\ S[r] = R[r]
    BY <1>3, <1>5, <1>8, <2>1
  <2> QED BY <1>2, <1>4, <2>2 DEF Broken, S
<1>10. ASSUME S = Grown(R, <<>>) PROVE Broken(u)
  <2>1. /\ Len(S) = Len(R)
        /\ Len(S[r]) = IF r = Len(R) THEN Len(R[r]) + 1 ELSE Len(R[r])
        /\ \A k \in DOMAIN R[r] : S[r][k] = R[r][k]
    BY <1>1, <1>3, <1>10, RowGrows
  <2>2. r \in DOMAIN S /\ m \in DOMAIN S[r] /\ S[r][m] = R[r][m]
    BY <1>4, <1>5, <1>8, <2>1
  <2> QED BY <1>2, <1>4, <2>2 DEF Broken, S
<1>11. ASSUME S = GrownCell(R, x) PROVE Broken(u)
  <2>1. SameBut(R, S) /\ LastCell(S) = Append(LastCell(R), x)
    BY <1>1, <1>11, LastGrows
  <2>2. Len(S) = Len(R) /\ Len(S[r]) = Len(R[r]) /\ (~IsLast(R, r, m) => S[r][m] = R[r][m])
    BY <1>3, <1>4, <2>1 DEF SameBut
  <2>3. r \in DOMAIN S /\ m \in DOMAIN S[r]
    BY <1>5, <1>8, <2>2
  <2>4. Spoilt(S[r][m])
    <3>1. CASE IsLast(R, r, m)
      <4>1. S[r][m] = Append(R[r][m], x)
        BY <2>1, <2>2, <3>1 DEF IsLast, LastCell
      <4> QED BY <1>4, <1>5, <4>1, SpoiltStays
    <3>2. CASE ~IsLast(R, r, m)
      BY <1>4, <2>2, <3>2
    <3> QED BY <3>1, <3>2
  <2> QED BY <1>2, <2>3, <2>4 DEF Broken, S
<1>12. Broken(u)
  BY <1>6, <1>9, <1>10, <1>11
<1> QED BY <1>12 DEF u

\* A character that the state does not allow breaks the text.
LEMMA TextBreaks ==
  ASSUME NEW v, NEW T, NEW state, TextReads(v, T, state), NEW x \in Signs,
         \/ state = "plain" /\ x = "quote"
         \/ state = "closed" /\ x = "other"
  PROVE  Broken(Append(v, x))
<1> DEFINE u == Append(v, x)
           R == TextRows(v)
<1>1. v \in Seq(Signs) /\ Level(v) /\ (OpenQuote(v) <=> state = "quoted") /\ Writes(R, T, state)
  BY DEF TextReads
<1>2. u \in Seq(Signs) /\ Level(u) /\ Filled(R)
  BY <1>1, AppendIs, RowsNext, RowsFilled
<1>3. x \notin {"break", "delimiter"}
  OBVIOUS
<1>4. TextRows(u) = GrownCell(R, x)
  BY <1>1, <1>3, RowsNext
<1> HIDE DEF u, R
<1>5. Spoilt(Append(LastCell(R), x))
  BY <1>1, <1>2, FilledIs, CellSpoils DEF Writes
<1>6. Filled(TextRows(u)) /\ LastCell(TextRows(u)) = Append(LastCell(R), x)
  BY <1>2, <1>4, LastGrows
<1>7. /\ Len(TextRows(u)) \in DOMAIN TextRows(u)
      /\ Len(TextRows(u)[Len(TextRows(u))]) \in DOMAIN TextRows(u)[Len(TextRows(u))]
  BY <1>6, FilledIs
<1>8. Broken(u)
  BY <1>2, <1>5, <1>6, <1>7 DEF Broken, LastCell
<1> QED BY <1>8 DEF u

-----------------------------------------------------------------------------
(* CsvRows.  The text is read.                                             *)

\* The row after a line break that ends the text is not written.
EndsLine(v) == Len(v) \in Cuts(v, {"break"})
RowsWritten == IF place > Len(text) /\ EndsLine(Prefix(text, place)) THEN Append(table, << <<>> >>) ELSE table

Unreadable ==
  \/ place <= Len(text) /\ field = "plain" /\ Char = "quote"
  \/ place <= Len(text) /\ field = "closed" /\ Char = "other"
  \/ place > Len(text) /\ field = "quoted"

CsvInv ==
  /\ text \in Seq(Chars) /\ table \in Cells
  /\ place \in KeptOf(text) \cup {Len(text) + 1}
  /\ reading \in {"called", "text", "end", "malformed"}
  /\ reading = "called" => text = <<>> /\ place = 1 /\ field = "start" /\ table = << << <<>> >> >>
  /\ TextReads(Prefix(text, place), RowsWritten, field)
  /\ reading = "malformed" => Unreadable
  /\ reading = "end" => place > Len(text) /\ field # "quoted"

\* What the parser does to the last cell, and to the last row.
LEMMA EmitIs ==
  ASSUME NEW T, Filled(T), NEW x
  PROVE  [T EXCEPT ![Len(T)][Len(T[Len(T)])] = Append(@, x)] = GrownCell(T, x)
<1> DEFINE n == Len(T)
           m == Len(T[n])
<1>1. n \in DOMAIN T /\ DOMAIN T = 1 .. n /\ T = [r \in DOMAIN T |-> T[r]]
  BY FilledIs DEF Filled, Cells
<1>2. T[n] \in Seq(Seq(Signs)) /\ m \in DOMAIN T[n]
  BY <1>1, FilledIs
<1>3. [T[n] EXCEPT ![m] = Append(@, x)] = Grown(T[n], x)
  BY <1>2 DEF Grown
<1> HIDE DEF n, m
<1>4. [T EXCEPT ![n] = [T[n] EXCEPT ![m] = Append(@, x)]] = GrownCell(T, x)
  BY <1>1, <1>3 DEF GrownCell, n
<1> QED BY <1>4 DEF n, m

LEMMA NewCellIs ==
  ASSUME NEW T, Filled(T), NEW x
  PROVE  [T EXCEPT ![Len(T)] = Append(@, x)] = Grown(T, x)
<1>1. Len(T) \in DOMAIN T /\ T = [r \in DOMAIN T |-> T[r]]
  BY FilledIs DEF Filled, Cells
<1> QED BY <1>1 DEF Grown

\* A line is ended by a line break that is not in quotes.
LEMMA EndsNext ==
  ASSUME NEW v \in Seq(Signs), NEW x \in Signs
  PROVE  EndsLine(Append(v, x)) <=> x = "break" /\ ~OpenQuote(v)
<1> DEFINE u == Append(v, x)
<1>1. Len(v) \in Nat /\ Len(u) = Len(v) + 1 /\ Len(v) + 1 \notin DOMAIN v
  BY AppendIs
<1>2. /\ Cuts(v, {"break"}) \in SUBSET (DOMAIN v)
      /\ x \in {"break"} /\ ~OpenQuote(v) => Cuts(u, {"break"}) = Cuts(v, {"break"}) \cup {Len(v) + 1}
      /\ ~(x \in {"break"} /\ ~OpenQuote(v)) => Cuts(u, {"break"}) = Cuts(v, {"break"})
  BY CutsNext
<1> HIDE DEF u
<1>3. EndsLine(u) <=> x = "break" /\ ~OpenQuote(v)
  BY <1>1, <1>2 DEF EndsLine
<1> QED BY <1>3 DEF u

\* At a character.
LEMMA AtChar ==
  ASSUME CsvInv, More
  PROVE  /\ place \in KeptOf(text) /\ Char \in Chars /\ Unit(Char) \in Signs
         /\ text \in Seq(Chars) /\ place <= Len(text) /\ (PairAt(text, place) => Char = "cr")
         /\ TextReads(Prefix(text, place), table, field)
         /\ field \in States /\ Filled(table) /\ Prefix(text, place) \in Seq(Signs)
         /\ OpenQuote(Prefix(text, place)) <=> field = "quoted"
<1>1. text \in Seq(Chars) /\ place \in KeptOf(text) /\ place <= Len(text) /\ Len(text) \in Nat
  <2>1. text \in Seq(Chars) /\ place \in KeptOf(text) \cup {Len(text) + 1} /\ place <= Len(text)
    BY DEF CsvInv, More
  <2> QED BY <2>1
<1>2. Char \in Chars /\ (PairAt(text, place) => Char = "cr") /\ place \in Nat
  <2>1. place \in DOMAIN text /\ text[place] \in Chars /\ (PairAt(text, place) => text[place] = "cr")
    BY <1>1, ReadOn
  <2> QED BY <1>1, <2>1 DEF Char
<1>3. RowsWritten = table
  BY <1>1, <1>2 DEF RowsWritten
<1>4. TextReads(Prefix(text, place), table, field)
  BY <1>3 DEF CsvInv
<1> QED BY <1>1, <1>2, <1>4, UnitType DEF TextReads

\* A character is passed, and its unit is read.
LEMMA CharPassed ==
  ASSUME CsvInv, More, NEW n, n = IF PairAt(text, place) THEN 2 ELSE 1,
         NEW f, Go(n, f)
  PROVE  /\ text' = text /\ reading' = "text" /\ field' = f
         /\ place' \in KeptOf(text) \cup {Len(text) + 1}
         /\ Prefix(text, place') = Append(Prefix(text, place), Unit(Char))
<1>1. text' = text /\ reading' = "text" /\ field' = f /\ place' = place + n
  BY DEF Go, More
<1>2. text \in Seq(Chars) /\ place \in KeptOf(text)
  BY AtChar
<1> QED BY <1>1, <1>2, ReadOn DEF Char

LEMMA CharRead ==
  ASSUME CsvInv, More, NEW n, n = IF PairAt(text, place) THEN 2 ELSE 1,
         NEW f, Go(n, f), field = "quoted" \/ Unit(Char) # "break",
         TextReads(Append(Prefix(text, place), Unit(Char)), table', f)
  PROVE  CsvInv'
<1>1. /\ text' = text /\ reading' = "text" /\ field' = f
      /\ place' \in KeptOf(text) \cup {Len(text) + 1}
      /\ Prefix(text, place') = Append(Prefix(text, place), Unit(Char))
  BY CharPassed
<1>2. /\ text \in Seq(Chars) /\ Unit(Char) \in Signs /\ Prefix(text, place) \in Seq(Signs)
      /\ OpenQuote(Prefix(text, place)) <=> field = "quoted"
  BY AtChar
<1>3. ~EndsLine(Prefix(text, place'))
  BY <1>1, <1>2, EndsNext
<1>4. RowsWritten' = table'
  BY <1>1, <1>3 DEF RowsWritten
<1>5. TextReads(Prefix(text', place'), RowsWritten', field') /\ table' \in Cells
  BY <1>1, <1>4 DEF TextReads, Filled
<1> QED BY <1>1, <1>2, <1>5 DEF CsvInv

LEMMA BreakRead ==
  ASSUME CsvInv, LineBreak
  PROVE  CsvInv'
<1> DEFINE v == Prefix(text, place)
           one == << <<>> >>
<1>1. /\ More /\ field # "quoted" /\ Char \in {"cr", "lf"} /\ Go(BreakLength, "start")
      /\ table' = IF place + BreakLength <= Len(text) THEN Append(table, one) ELSE table
  BY DEF LineBreak, NewRow
<1>2. BreakLength = IF PairAt(text, place) THEN 2 ELSE 1
  BY DEF BreakLength
<1>3. Unit(Char) = "break"
  BY <1>1 DEF Unit
<1> HIDE DEF one
<1>4. /\ text' = text /\ reading' = "text" /\ field' = "start" /\ place' = place + BreakLength
      /\ place' \in KeptOf(text) \cup {Len(text) + 1}
      /\ Prefix(text, place') = Append(v, "break")
  BY <1>1, <1>2, <1>3, CharPassed DEF Go
<1>5. /\ text \in Seq(Chars) /\ "break" \in Signs /\ v \in Seq(Signs) /\ ~OpenQuote(v)
      /\ TextReads(v, table, field) /\ place \in KeptOf(text) /\ table \in Cells
  BY <1>1, <1>3, AtChar DEF CsvInv
<1>6. TextReads(Append(v, "break"), Append(table, one), "start")
  BY <1>1, <1>5, ReadsNext DEF one
<1> HIDE DEF v
<1>7. EndsLine(Prefix(text, place'))
  BY <1>4, <1>5, EndsNext
<1>8. place \in Nat /\ Len(text) \in Nat /\ BreakLength \in Nat
  BY <1>2, <1>5, ReadOn
<1>9. RowsWritten' = Append(table, one)
  BY <1>1, <1>4, <1>7, <1>8 DEF RowsWritten, one
<1>10. Append(table, one) \in Cells
  BY <1>6 DEF TextReads, Filled
<1>11. table' \in Cells
  BY <1>1, <1>5, <1>10
<1>12. TextReads(Prefix(text', place'), RowsWritten', field')
  BY <1>4, <1>6, <1>9
<1> QED BY <1>4, <1>5, <1>11, <1>12 DEF CsvInv

\* Whatever is read next.
LEMMA CsvStarts == CsvInit => CsvInv
<1> SUFFICES ASSUME CsvInit PROVE CsvInv
  OBVIOUS
<1> DEFINE T == << << <<>> >> >>
<1>1. text = <<>> /\ reading = "called" /\ place = 1 /\ field = "start" /\ table = T
  BY DEF CsvInit
<1>2. text \in Seq(Chars) /\ Len(text) = 0
  BY <1>1
<1>3. Prefix(text, 1) = <<>>
  BY <1>2, PrefixNext
<1>4. ~EndsLine(<<>>)
  BY DEF EndsLine, Cuts
<1> HIDE DEF T
<1>5. RowsWritten = T
  BY <1>1, <1>3, <1>4 DEF RowsWritten
<1>6. TextReads(Prefix(text, place), RowsWritten, field)
  BY <1>1, <1>3, <1>5, NothingRead DEF T
<1>7. table \in Cells
  BY <1>1, NothingRead DEF T, TextReads, Filled
<1> QED BY <1>1, <1>2, <1>6, <1>7 DEF CsvInv, T

LEMMA TextIsGiven ==
  ASSUME CsvInv, ReadText
  PROVE  CsvInv'
<1> DEFINE T == << << <<>> >> >>
<1>1. /\ text = <<>> /\ place = 1 /\ field = "start" /\ table = T
      /\ text' \in Seq(Chars) /\ Len(text') >= 1 /\ reading' = "text"
      /\ place' = place /\ field' = field /\ table' = table
  <2>1. PICK n \in 1 .. MaxText : text' \in [1 .. n -> Chars]
    BY DEF ReadText, Chars
  <2>2. text' \in Seq(Chars) /\ Len(text') >= 1
    BY <2>1
  <2> QED BY <2>2 DEF ReadText, CsvInv
<1>2. Prefix(text', 1) = <<>>
  BY <1>1, PrefixNext
<1>3. 1 \in KeptOf(text')
  BY <1>1 DEF KeptOf
<1> HIDE DEF T
<1>4. RowsWritten' = T
  BY <1>1 DEF RowsWritten
<1>5. TextReads(Prefix(text', place'), RowsWritten', field') /\ table' \in Cells
  BY <1>1, <1>2, <1>4, NothingRead DEF T, TextReads, Filled
<1> QED BY <1>1, <1>3, <1>5 DEF CsvInv, T

LEMMA QuotedRead ==
  ASSUME CsvInv, Quoted
  PROVE  CsvInv'
<1> DEFINE v == Prefix(text, place)
<1>1. More /\ field = "quoted"
  BY DEF Quoted
<1>2. /\ TextReads(v, table, field) /\ Filled(table) /\ Unit(Char) \in Signs
      /\ (PairAt(text, place) => Char = "cr")
  BY <1>1, AtChar
<1> HIDE DEF v
<1>3. /\ Unit(Char) # "quote" => TextReads(Append(v, Unit(Char)), GrownCell(table, Unit(Char)), "quoted")
      /\ Unit(Char) = "quote" => TextReads(Append(v, Unit(Char)), table, "closed")
  BY <1>1, <1>2, ReadsNext
<1>4. \A x : Emit(x) => table' = GrownCell(table, x)
  BY <1>2, EmitIs DEF Emit
<1>5. CASE Char = "quote" /\ Go(1, "closed") /\ UNCHANGED table
  <2>1. Unit(Char) = "quote" /\ 1 = IF PairAt(text, place) THEN 2 ELSE 1
    BY <1>2, <1>5 DEF Unit
  <2>2. TextReads(Append(v, Unit(Char)), table', "closed")
    BY <1>3, <1>5, <2>1
  <2> QED BY <1>1, <1>5, <2>1, <2>2, CharRead DEF v
<1>6. CASE Char = "cr" /\ Emit("break") /\ Go(IF PairAt(text, place) THEN 2 ELSE 1, "quoted")
  <2>1. Unit(Char) = "break"
    BY <1>6 DEF Unit
  <2>2. TextReads(Append(v, Unit(Char)), table', "quoted")
    BY <1>3, <1>4, <1>6, <2>1
  <2> QED BY <1>1, <1>6, <2>2, CharRead DEF v
<1>7. CASE Char = "lf" /\ Emit("break") /\ Go(1, "quoted")
  <2>1. Unit(Char) = "break" /\ 1 = IF PairAt(text, place) THEN 2 ELSE 1
    BY <1>2, <1>7 DEF Unit
  <2>2. TextReads(Append(v, Unit(Char)), table', "quoted")
    BY <1>3, <1>4, <1>7, <2>1
  <2> QED BY <1>1, <1>7, <2>1, <2>2, CharRead DEF v
<1>8. CASE Char \in {"delimiter", "other"} /\ Emit(Char) /\ Go(1, "quoted")
  <2>1. Unit(Char) = Char /\ Char # "quote" /\ 1 = IF PairAt(text, place) THEN 2 ELSE 1
    BY <1>2, <1>8 DEF Unit
  <2>2. TextReads(Append(v, Unit(Char)), table', "quoted")
    BY <1>3, <1>4, <1>8, <2>1
  <2> QED BY <1>1, <1>8, <2>1, <2>2, CharRead DEF v
<1> QED BY <1>5, <1>6, <1>7, <1>8 DEF Quoted

LEMMA OthersRead ==
  ASSUME CsvInv, QuoteAgain \/ Delimiter \/ Quote \/ Plain
  PROVE  CsvInv'
<1> DEFINE v == Prefix(text, place)
<1>1. More /\ field # "quoted" /\ Char \in {"quote", "delimiter", "other"}
  BY DEF QuoteAgain, Delimiter, Quote, Plain
<1>2. /\ TextReads(v, table, field) /\ Filled(table) /\ Char \in Signs
      /\ Unit(Char) = Char /\ 1 = IF PairAt(text, place) THEN 2 ELSE 1
  <2>1. Unit(Char) = Char /\ Char # "cr"
    BY <1>1 DEF Unit
  <2> QED BY <1>1, <2>1, AtChar
<1> HIDE DEF v
<1>3. /\ field = "closed" /\ Char = "quote" => TextReads(Append(v, Char), GrownCell(table, Char), "quoted")
      /\ field = "start" /\ Char = "quote" => TextReads(Append(v, Char), table, "quoted")
      /\ field \in {"start", "plain"} /\ Char = "other" => TextReads(Append(v, Char), GrownCell(table, Char), "plain")
      /\ Char = "delimiter" => TextReads(Append(v, Char), Grown(table, <<>>), "start")
  BY <1>1, <1>2, ReadsNext
<1>4. Emit(Char) => table' = GrownCell(table, Char)
  BY <1>2, EmitIs DEF Emit
<1>5. NewCell => table' = Grown(table, <<>>)
  BY <1>2, NewCellIs DEF NewCell
<1>6. ASSUME NEW f, Go(1, f), TextReads(Append(v, Char), table', f) PROVE CsvInv'
  BY <1>1, <1>2, <1>6, CharRead DEF v
<1>7. CASE QuoteAgain
  BY <1>3, <1>4, <1>6, <1>7 DEF QuoteAgain
<1>8. CASE Delimiter
  BY <1>3, <1>5, <1>6, <1>8 DEF Delimiter
<1>9. CASE Quote
  BY <1>3, <1>6, <1>9 DEF Quote
<1>10. CASE Plain
  BY <1>3, <1>4, <1>6, <1>10 DEF Plain
<1> QED BY <1>7, <1>8, <1>9, <1>10

LEMMA CsvEnds ==
  ASSUME CsvInv, Malformed \/ Done \/ UNCHANGED csvVars
  PROVE  CsvInv'
<1>1. text' = text /\ place' = place /\ field' = field /\ table' = table
  BY DEF Malformed, Done, csvVars
<1>2. RowsWritten' = RowsWritten /\ Char' = Char
  BY <1>1 DEF RowsWritten, Char
<1>3. /\ text' \in Seq(Chars) /\ table' \in Cells /\ place' \in KeptOf(text') \cup {Len(text') + 1}
      /\ TextReads(Prefix(text', place'), RowsWritten', field')
  BY <1>1, <1>2 DEF CsvInv
<1>4. CASE Malformed
  <2>1. reading' = "malformed" /\ Unreadable
    BY <1>4 DEF Malformed, Unreadable, More
  <2>2. Unreadable'
    BY <1>1, <1>2, <2>1 DEF Unreadable
  <2> QED BY <1>3, <2>1, <2>2 DEF CsvInv
<1>5. CASE Done
  <2>1. reading' = "end" /\ place' > Len(text') /\ field' # "quoted"
    BY <1>1, <1>5 DEF Done
  <2> QED BY <1>3, <2>1 DEF CsvInv
<1>6. CASE UNCHANGED csvVars
  <2>1. reading' = reading
    BY <1>6 DEF csvVars
  <2>2. Unreadable' <=> Unreadable
    BY <1>1, <1>2, <1>4 DEF Unreadable
  <2> QED BY <1>1, <1>3, <2>1, <2>2 DEF CsvInv
<1> QED BY <1>4, <1>5, <1>6

\* The lines of a text are all, or all but the last, which then is empty.
LEMMA LinesAre ==
  ASSUME NEW u \in Seq(Signs)
  PROVE  /\ DOMAIN Lines(u) = 1 .. Len(Lines(u)) /\ Len(Lines(u)) \in Nat
         /\ Len(Lines(u)) = IF EndsLine(u) THEN Len(TextRows(u)) - 1 ELSE Len(TextRows(u))
         /\ \A n \in DOMAIN Lines(u) : n \in DOMAIN TextRows(u) /\ Fields(Lines(u)[n]) = TextRows(u)[n]
         /\ EndsLine(u) => TextRows(u)[Len(TextRows(u))] = << <<>> >> /\ ~OpenQuote(u)
<1> DEFINE all == AllLines(u)
           S == Seq(Signs)
<1>1. /\ all \in Seq(S) /\ Len(all) \in Nat \ {0} /\ Len(TextRows(u)) = Len(all) /\ DOMAIN all = 1 .. Len(all)
      /\ DOMAIN TextRows(u) = DOMAIN all /\ \A r \in DOMAIN TextRows(u) : TextRows(u)[r] = Fields(all[r])
  BY FieldsType, RowsType
<1>2. Lines(u) = IF EndsLine(u) THEN SubSeq(all, 1, Len(all) - 1) ELSE all
  BY DEF Lines, EndsLine, AllLines, Front
<1>3. EndsLine(u) => all[Len(all)] = <<>> /\ ~OpenQuote(u)
  BY EmptyLastLine DEF EndsLine
<1> HIDE DEF all, S
<1>4. CASE EndsLine(u)
  <2> DEFINE f == SubSeq(all, 1, Len(all) - 1)
  <2>1. Len(f) = Len(all) - 1 /\ DOMAIN f = 1 .. Len(all) - 1 /\ \A n \in 1 .. Len(all) - 1 : f[n] = all[n]
    BY <1>1
  <2>2. Lines(u) = f
    BY <1>2, <1>4
  <2> HIDE DEF f
  <2>3. TextRows(u)[Len(TextRows(u))] = << <<>> >>
    BY <1>1, <1>3, <1>4, NoText
  <2>4. \A n \in DOMAIN Lines(u) : n \in DOMAIN TextRows(u) /\ Fields(Lines(u)[n]) = TextRows(u)[n]
    <3> TAKE n \in DOMAIN Lines(u)
    <3>1. n \in DOMAIN TextRows(u) /\ Lines(u)[n] = all[n]
      BY <1>1, <2>1, <2>2
    <3> QED BY <1>1, <3>1
  <2>5. Len(Lines(u)) = Len(TextRows(u)) - 1 /\ DOMAIN Lines(u) = 1 .. Len(Lines(u)) /\ Len(Lines(u)) \in Nat
    <3>1. Len(TextRows(u)) = Len(all) /\ Len(all) \in Nat \ {0}
      BY <1>1
    <3>2. Len(Lines(u)) = Len(all) - 1 /\ DOMAIN Lines(u) = 1 .. Len(all) - 1
      BY <2>1, <2>2
    <3> QED BY <3>1, <3>2
  <2> QED BY <1>3, <1>4, <2>3, <2>4, <2>5
<1>5. CASE ~EndsLine(u)
  BY <1>1, <1>2, <1>5
<1> QED BY <1>4, <1>5

\* A text with a cell that nothing repairs, is not one of cells.
LEMMA BrokenLines ==
  ASSUME NEW u, Broken(u)
  PROVE  \E l \in Range(Lines(u)) : \E f \in Range(Fields(l)) : ~IsCell(f)
<1>1. u \in Seq(Signs) /\ Filled(TextRows(u))
  BY RowsFilled DEF Broken
<1>2. PICK r \in DOMAIN TextRows(u) : \E m \in DOMAIN TextRows(u)[r] : Spoilt(TextRows(u)[r][m])
  BY DEF Broken
<1>3. PICK m \in DOMAIN TextRows(u)[r] : Spoilt(TextRows(u)[r][m])
  BY <1>2
<1> DEFINE c == TextRows(u)[r][m]
<1>4. ~IsCell(c) /\ c # <<>>
  <2>1. c \in Seq(Signs)
    BY <1>1, <1>3, FilledIs
  <2> QED BY <1>3, <2>1, SpoiltIsNone
<1>5. r \in DOMAIN Lines(u)
  <2>1. DOMAIN TextRows(u) = 1 .. Len(TextRows(u)) /\ Len(TextRows(u)) \in Nat
    BY <1>1, FilledIs
  <2>2. CASE EndsLine(u) /\ r = Len(TextRows(u))
    <3>1. TextRows(u)[r] = << <<>> >>
      BY <1>1, <2>2, LinesAre
    <3>2. c = <<>>
      BY <1>3, <3>1
    <3> QED BY <1>4, <3>2
  <2>3. CASE ~(EndsLine(u) /\ r = Len(TextRows(u)))
    BY <1>1, <2>1, <2>3, LinesAre
  <2> QED BY <2>2, <2>3
<1>6. Fields(Lines(u)[r]) = TextRows(u)[r]
  BY <1>1, <1>5, LinesAre
<1>7. Lines(u)[r] \in Range(Lines(u)) /\ c \in Range(Fields(Lines(u)[r]))
  BY <1>3, <1>5, <1>6 DEF Range
<1> QED BY <1>4, <1>7

\* What is read later does not repair it.
LEMMA BrokenOn ==
  ASSUME NEW s \in Seq(Chars), NEW p \in 1 .. Len(s) + 1, Broken(Prefix(s, p))
  PROVE  Broken(Units(s))
<1> DEFINE T == {n \in Nat : p + n <= Len(s) + 1 => Broken(Prefix(s, p + n))}
<1>1. Len(s) \in Nat /\ DOMAIN s = 1 .. Len(s) /\ p \in Nat /\ p + 0 = p
  OBVIOUS
<1>2. 0 \in T
  BY <1>1
<1>3. ASSUME NEW n \in Nat, n \in T PROVE n + 1 \in T
  <2>1. ASSUME p + (n + 1) <= Len(s) + 1 PROVE Broken(Prefix(s, p + (n + 1)))
    <3>1. p + n \in DOMAIN s /\ p + (n + 1) = (p + n) + 1 /\ p + n <= Len(s) + 1
      BY <1>1, <2>1
    <3>2. Broken(Prefix(s, p + n))
      BY <1>3, <3>1
    <3>3. Prefix(s, (p + n) + 1) = IF p + n \in KeptOf(s) THEN Append(Prefix(s, p + n), Unit(s[p + n]))
                                   ELSE Prefix(s, p + n)
      BY <3>1, PrefixNext
    <3>4. Unit(s[p + n]) \in Signs
      BY <3>1, UnitType
    <3> QED BY <3>1, <3>2, <3>3, <3>4, BrokenStays
  <2> QED BY <2>1
<1>4. Nat \subseteq T
  <2> HIDE DEF T
  <2> QED BY <1>2, <1>3, NatInductive
<1>5. Len(s) + 1 - p \in T /\ p + (Len(s) + 1 - p) = Len(s) + 1
  <2>1. Len(s) + 1 - p \in Nat /\ p + (Len(s) + 1 - p) = Len(s) + 1
    BY <1>1
  <2> HIDE DEF T
  <2> QED BY <1>4, <2>1
<1>6. Broken(Prefix(s, Len(s) + 1))
  BY <1>1, <1>5
<1> QED BY <1>6, PrefixNext

\* A text that is refused has a cell that is none, and of one that is read each cell is one,
\* and all of them, row by row, are what has been written.
LEMMA CsvRefuses ==
  ASSUME CsvInv, reading = "malformed"
  PROVE  \E l \in Range(Lines(Units(text))) : \E f \in Range(Fields(l)) : ~IsCell(f)
<1> DEFINE v == Prefix(text, place)
<1>1. /\ text \in Seq(Chars) /\ TextReads(v, RowsWritten, field) /\ Unreadable
      /\ place \in KeptOf(text) \cup {Len(text) + 1} /\ Len(text) \in Nat
  BY DEF CsvInv
<1>2. place \in Nat
  BY <1>1 DEF KeptOf
<1> HIDE DEF v
<1>3. CASE place <= Len(text)
  <2>1. \/ field = "plain" /\ Char = "quote"
        \/ field = "closed" /\ Char = "other"
    BY <1>1, <1>2, <1>3 DEF Unreadable
  <2>2. place \in KeptOf(text)
    BY <1>1, <1>3
  <2>3. place \in DOMAIN text /\ place \in Nat /\ Unit(Char) = Char
    <3>1. place \in DOMAIN text
      BY <1>1, <2>2, ReadOn
    <3> QED BY <1>2, <2>1, <3>1 DEF Unit
  <2>4. Char \in Signs
    BY <2>1 DEF Signs
  <2>5. Broken(Append(v, Char))
    BY <1>1, <2>1, <2>4, TextBreaks
  <2>6. Prefix(text, place + 1) = Append(v, Char)
    BY <1>1, <2>2, <2>3, PrefixNext DEF Char, v
  <2>7. place + 1 \in 1 .. Len(text) + 1
    BY <1>1, <1>3, <2>3
  <2> QED BY <1>1, <2>5, <2>6, <2>7, BrokenOn, BrokenLines
<1>4. CASE place > Len(text)
  <2>1. field = "quoted" /\ place = Len(text) + 1
    <3>1. KeptOf(text) \in SUBSET (1 .. Len(text))
      BY <1>1 DEF KeptOf
    <3>2. place \notin KeptOf(text)
      BY <1>1, <1>4, <3>1
    <3>3. ~(place <= Len(text))
      BY <1>1, <1>4, <3>2
    <3> QED BY <1>1, <3>2, <3>3 DEF Unreadable
  <2>2. v = Units(text)
    BY <1>1, <2>1, PrefixNext DEF v
  <2>3. /\ v \in Seq(Signs) /\ OpenQuote(v) /\ Filled(TextRows(v))
        /\ CellReads(LastCell(TextRows(v)), "quoted", LastCell(RowsWritten))
    BY <1>1, <2>1, RowsFilled DEF TextReads, Writes
  <2>4. ~IsCell(LastCell(TextRows(v)))
    BY <2>3, FilledIs, CellOpen
  <2> DEFINE n == Len(TextRows(v))
  <2>5. n \in DOMAIN TextRows(v) /\ Len(TextRows(v)[n]) \in DOMAIN TextRows(v)[n] /\ n \in Nat \ {0}
    BY <2>3, FilledIs
  <2>6. n \in DOMAIN Lines(v) /\ Fields(Lines(v)[n]) = TextRows(v)[n]
    BY <2>3, <2>5, LinesAre
  <2>7. Lines(v)[n] \in Range(Lines(v)) /\ LastCell(TextRows(v)) \in Range(Fields(Lines(v)[n]))
    BY <2>5, <2>6 DEF Range, LastCell
  <2> QED BY <2>2, <2>4, <2>7
<1> QED BY <1>1, <1>2, <1>3, <1>4

LEMMA CsvWrites ==
  ASSUME CsvInv, reading = "end"
  PROVE  LET lines == Lines(Units(text)) IN
         /\ \A l \in Range(lines) : \A f \in Range(Fields(l)) : IsCell(f)
         /\ table = [n \in DOMAIN lines |->
                       [m \in DOMAIN Fields(lines[n]) |-> Content(Fields(lines[n])[m])]]
<1> DEFINE v == Prefix(text, place)
           R == TextRows(v)
           W == RowsWritten
           lines == Lines(v)
<1>1. /\ text \in Seq(Chars) /\ TextReads(v, W, field) /\ table \in Cells
      /\ place \in KeptOf(text) \cup {Len(text) + 1} /\ Len(text) \in Nat
      /\ place > Len(text) /\ field # "quoted"
  BY DEF CsvInv
<1>2. place = Len(text) + 1
  <2>1. KeptOf(text) \in SUBSET (1 .. Len(text))
    BY <1>1 DEF KeptOf
  <2> QED BY <1>1, <2>1
<1>3. v = Units(text)
  BY <1>1, <1>2, PrefixNext
<1>4. W = IF EndsLine(v) THEN Append(table, << <<>> >>) ELSE table
  BY <1>1 DEF RowsWritten
<1>5. /\ v \in Seq(Signs) /\ Filled(R) /\ Filled(W) /\ Writes(R, W, field)
      /\ field \in {"start", "plain", "closed"}
  BY <1>1, RowsFilled DEF TextReads, States
<1> HIDE DEF v, W
<1>6. /\ DOMAIN lines = 1 .. Len(lines) /\ Len(lines) \in Nat
      /\ Len(lines) = IF EndsLine(v) THEN Len(R) - 1 ELSE Len(R)
      /\ \A n \in DOMAIN lines : n \in DOMAIN R /\ Fields(lines[n]) = R[n]
  BY <1>5, LinesAre
<1> HIDE DEF R, lines
<1>7. ASSUME NEW r \in DOMAIN R, NEW m \in DOMAIN R[r] PROVE Whole(R[r][m], W[r][m])
  <2>1. CASE IsLast(R, r, m)
    <3>1. CellReads(R[r][m], field, W[r][m])
      BY <1>5, <2>1 DEF Writes, IsLast, LastCell
    <3>2. R[r][m] \in Seq(Signs)
      BY <1>5, <1>7, FilledIs
    <3> QED BY <1>5, <3>1, <3>2, CellDone DEF Whole
  <2>2. CASE ~IsLast(R, r, m)
    BY <1>5, <1>7, <2>2 DEF Writes
  <2> QED BY <2>1, <2>2
<1>8. \A l \in Range(lines) : \A f \in Range(Fields(l)) : IsCell(f)
  <2> SUFFICES ASSUME NEW n \in DOMAIN lines, NEW m \in DOMAIN Fields(lines[n])
               PROVE  IsCell(Fields(lines[n])[m])
    BY DEF Range
  <2>1. n \in DOMAIN R /\ Fields(lines[n]) = R[n]
    BY <1>6
  <2> QED BY <1>7, <2>1 DEF Whole
<1>9. Len(R) \in Nat \ {0} /\ DOMAIN R = 1 .. Len(R) /\ Len(W) = Len(R)
  BY <1>5, FilledIs DEF Writes
<1>10. Len(table) = Len(lines) /\ DOMAIN table = 1 .. Len(table) /\ \A n \in DOMAIN table : table[n] = W[n]
  <2> DEFINE Y == Seq(Seq(Signs))
             x == << <<>> >>
  <2>1. table \in Seq(Y) /\ x \in Y
    BY <1>1 DEF Cells
  <2> HIDE DEF Y
  <2>2. CASE EndsLine(v)
    <3>1. W = Append(table, x)
      BY <1>4, <2>2
    <3> HIDE DEF x
    <3>2. /\ Len(W) = Len(table) + 1 /\ Len(table) \in Nat /\ DOMAIN table = 1 .. Len(table)
          /\ \A n \in DOMAIN table : W[n] = table[n]
      BY <2>1, <3>1, AppendIs
    <3> QED BY <1>6, <1>9, <2>2, <3>2
  <2>3. CASE ~EndsLine(v)
    BY <1>4, <1>6, <1>9, <2>1, <2>3
  <2> QED BY <2>2, <2>3
<1>11. ASSUME NEW n \in DOMAIN lines
       PROVE  table[n] = [m \in DOMAIN Fields(lines[n]) |-> Content(Fields(lines[n])[m])]
  <2>1. n \in DOMAIN R /\ Fields(lines[n]) = R[n] /\ n \in DOMAIN W /\ table[n] = W[n]
    <3>1. DOMAIN W = 1 .. Len(W)
      BY <1>5, FilledIs
    <3> QED BY <1>6, <1>9, <1>10, <3>1
  <2>2. /\ W[n] \in Seq(Seq(Signs)) /\ DOMAIN W[n] = 1 .. Len(W[n]) /\ DOMAIN R[n] = 1 .. Len(R[n])
    BY <1>5, <2>1, FilledIs
  <2>3. Len(W[n]) = Len(R[n])
    BY <1>5, <2>1 DEF Writes
  <2>4. \A m \in DOMAIN R[n] : W[n][m] = Content(R[n][m])
    BY <1>7, <2>1 DEF Whole
  <2>5. W[n] = [m \in DOMAIN W[n] |-> W[n][m]]
    <3> DEFINE Y == Seq(Signs)
    <3>1. W[n] \in Seq(Y)
      BY <2>2
    <3> HIDE DEF Y
    <3> QED BY <3>1
  <2>6. W[n] = [m \in DOMAIN R[n] |-> Content(R[n][m])]
    BY <2>2, <2>3, <2>4, <2>5
  <2> QED BY <2>1, <2>6
<1>12. table = [n \in DOMAIN lines |->
                 [m \in DOMAIN Fields(lines[n]) |-> Content(Fields(lines[n])[m])]]
  <2>1. table = [n \in DOMAIN table |-> table[n]]
    BY <1>1 DEF Cells
  <2>2. DOMAIN table = DOMAIN lines
    BY <1>6, <1>10
  <2> QED BY <1>11, <2>1, <2>2
<1> QED BY <1>3, <1>8, <1>12 DEF lines

\* csv_to_html() writes the rows and cells that a text consists of, or refuses it with a reason.
THEOREM TextIsRead == CsvSpec => []CsvReads
<1>1. CsvInv /\ [CsvNext]_csvVars => CsvInv'
  <2> SUFFICES ASSUME CsvInv, [CsvNext]_csvVars PROVE CsvInv'
    OBVIOUS
  <2>1. CASE ReadText
    BY <2>1, TextIsGiven
  <2>2. CASE Quoted
    BY <2>2, QuotedRead
  <2>3. CASE QuoteAgain \/ Delimiter \/ Quote \/ Plain
    BY <2>3, OthersRead
  <2>4. CASE LineBreak
    BY <2>4, BreakRead
  <2>5. CASE Malformed \/ Done \/ UNCHANGED csvVars
    BY <2>5, CsvEnds
  <2> QED BY <2>1, <2>2, <2>3, <2>4, <2>5 DEF CsvNext
<1>2. CsvInv => CsvReads
  BY CsvRefuses, CsvWrites DEF CsvReads
<1> QED BY CsvStarts, <1>1, <1>2, PTL DEF CsvSpec

-----------------------------------------------------------------------------
(* TableOtsl.  What has been read, place by place.                         *)

Tokens == {"cell", "lcel", "ucel", "xcel"}
CellRecords == [row : Nat, column : Nat, bottom : Nat, right : Nat]

\* The shape of what has been read.
ShapeInv(o, g, cs) ==
  /\ o \in Seq(Seq(Tokens)) /\ g \in Seq(Seq(Nat)) /\ cs \in Seq(CellRecords)
  /\ Len(o) = Len(g) /\ Len(g) >= 1 /\ Len(g) <= MaxRows + 1
  /\ \A r \in DOMAIN g : /\ Len(o[r]) = Len(g[r]) /\ Len(g[r]) <= MaxColumns
                         /\ r < Len(g) => Len(g[r]) >= 1
                         /\ r > MaxRows => Len(g[r]) = 0

\* What a token at a place says of the cell k that the place belongs to.
Belongs(token, g, cs, k, r, c) ==
  /\ cs[k].row <= r /\ r <= cs[k].bottom /\ cs[k].column <= c /\ c <= cs[k].right
  /\ token = "cell" <=> r = cs[k].row /\ c = cs[k].column
  /\ token = "lcel" => r = cs[k].row /\ g[r][c - 1] = k
  /\ token = "ucel" => c = cs[k].column /\ g[r - 1][c] = k
  /\ token = "xcel" => cs[k].row < r /\ cs[k].column < c
PlacesInv(o, g, cs) ==
  \A r \in DOMAIN g : \A c \in DOMAIN g[r] :
    g[r][c] \in DOMAIN cs /\ Belongs(o[r][c], g, cs, g[r][c], r, c)

\* A cell begins, reaches its last row and reaches its last column at places of its own.
CellsInv(g, cs) ==
  \A k \in DOMAIN cs :
    /\ cs[k].row \in DOMAIN g /\ cs[k].column \in DOMAIN g[cs[k].row]
    /\ g[cs[k].row][cs[k].column] = k
    /\ \E r \in DOMAIN g : \E c \in DOMAIN g[r] : g[r][c] = k /\ r = cs[k].bottom
    /\ \E r \in DOMAIN g : \E c \in DOMAIN g[r] : g[r][c] = k /\ c = cs[k].right
OrderInv(cs) ==
  \A j, k \in DOMAIN cs :
    j < k => cs[j].row < cs[k].row \/ (cs[j].row = cs[k].row /\ cs[j].column < cs[k].column)

\* A table that what has been read agrees with has its rectangles where the cells are.
Agrees(o, t) ==
  /\ \A r \in DOMAIN o : \A c \in DOMAIN o[r] :
       r \in DOMAIN t /\ c \in DOMAIN t[r] /\ o[r][c] = t[r][c]
  /\ \A r \in DOMAIN o : r < Len(o) => r \in DOMAIN t /\ Len(o[r]) = Len(t[1])
Within(t, a, b, r, c) == <<r, c>> \in RectangleAt(t, <<a, b>>)
FollowInv(o, g, cs) ==
  \A t \in Tilings :
    Agrees(o, t) =>
    \A r \in DOMAIN g : \A c \in DOMAIN g[r] :
      Within(t, cs[g[r][c]].row, cs[g[r][c]].column, r, c)

\* A row with one more place.
Placed(P, x) == [P EXCEPT ![Len(P)] = Append(@, x)]
LEMMA PlacedAt ==
  ASSUME NEW Y, NEW P \in Seq(Seq(Y)), Len(P) >= 1, NEW x \in Y, NEW r \in DOMAIN P
  PROVE  /\ r # Len(P) => Placed(P, x)[r] = P[r]
         /\ \A c \in DOMAIN P[r] : Placed(P, x)[r][c] = P[r][c]
<1> DEFINE n == Len(P)
           Q == Placed(P, x)
<1>1. n \in Nat /\ n \in DOMAIN P /\ DOMAIN P = 1 .. n
  OBVIOUS
<1>2. Q = [i \in 1 .. n |-> IF i = n THEN Append(P[n], x) ELSE P[i]]
  BY <1>1 DEF Placed
<1> DEFINE s == P[n]
<1>3. s \in Seq(Y)
  BY <1>1
<1> HIDE DEF Q, n
<1>4. r # n => Q[r] = P[r]
  BY <1>1, <1>2
<1>5. Q[n] = Append(s, x)
  BY <1>1, <1>2
<1> HIDE DEF s
<1>6. \A c \in DOMAIN s : Append(s, x)[c] = s[c]
  BY <1>3, AppendIs
<1>7. \A c \in DOMAIN P[r] : Q[r][c] = P[r][c]
  <2>1. CASE r = n
    BY <1>5, <1>6, <2>1 DEF s
  <2>2. CASE r # n
    BY <1>4, <2>2
  <2> QED BY <2>1, <2>2
<1> QED BY <1>4, <1>7 DEF Q, n
LEMMA PlacedIs ==
  ASSUME NEW Y, NEW P \in Seq(Seq(Y)), Len(P) >= 1, NEW x \in Y
  PROVE  LET Q == Placed(P, x)
             C == Len(P[Len(P)]) + 1
         IN  /\ Q \in Seq(Seq(Y)) /\ Len(Q) = Len(P) /\ DOMAIN Q = DOMAIN P
             /\ Len(P) \in DOMAIN P /\ DOMAIN P = 1 .. Len(P) /\ Len(P) \in Nat
             /\ Len(Q[Len(P)]) = C /\ DOMAIN Q[Len(P)] = 1 .. C
             /\ C \in Nat \ {0} /\ C \notin DOMAIN P[Len(P)] /\ Q[Len(P)][C] = x
             /\ DOMAIN P[Len(P)] = 1 .. Len(P[Len(P)]) /\ Len(P[Len(P)]) \in Nat
<1> DEFINE n == Len(P)
           Q == Placed(P, x)
<1>1. n \in Nat /\ n \in DOMAIN P /\ DOMAIN P = 1 .. n
  OBVIOUS
<1>2. \A r \in DOMAIN P : P[r] \in Seq(Y) /\ Len(P[r]) \in Nat /\ DOMAIN P[r] = 1 .. Len(P[r])
  OBVIOUS
<1>3. Q = [r \in 1 .. n |-> IF r = n THEN Append(P[n], x) ELSE P[r]]
  BY <1>1 DEF Placed
<1>4. Append(P[n], x) \in Seq(Y)
  BY <1>1, <1>2
<1> HIDE DEF Q, n
<1>5. Q \in Seq(Seq(Y)) /\ Len(Q) = n /\ DOMAIN Q = 1 .. n
  <2> DEFINE Z == Seq(Y)
  <2>1. Q \in [1 .. n -> Z]
    BY <1>1, <1>2, <1>3, <1>4
  <2> HIDE DEF Z
  <2> QED BY <1>1, <2>1 DEF Z
<1>6. \A r \in DOMAIN P : r # n => Q[r] = P[r]
  BY <1>1, <1>3
<1>7. Q[n] = Append(P[n], x)
  BY <1>1, <1>3
<1> DEFINE s == P[n]
<1>8. s \in Seq(Y)
  BY <1>1, <1>2
<1> HIDE DEF s
<1>9. /\ Len(Q[n]) = Len(s) + 1 /\ DOMAIN Q[n] = 1 .. Len(s) + 1
      /\ Len(s) + 1 \in Nat \ {0} /\ Len(s) + 1 \notin DOMAIN s /\ Q[n][Len(s) + 1] = x
      /\ \A c \in DOMAIN s : Q[n][c] = s[c]
  <2>1. Q[n] = Append(s, x)
    BY <1>7 DEF s
  <2>2. /\ Len(Append(s, x)) = Len(s) + 1 /\ DOMAIN Append(s, x) = 1 .. Len(s) + 1
        /\ Len(s) \in Nat /\ Len(s) + 1 \notin DOMAIN s /\ Append(s, x)[Len(s) + 1] = x
        /\ \A c \in DOMAIN s : Append(s, x)[c] = s[c]
    BY <1>8, AppendIs
  <2> QED BY <2>1, <2>2
<1> QED BY <1>1, <1>2, <1>5, <1>6, <1>9 DEF Q, n, s

\* The shape, place by place.
LEMMA ShapeIs ==
  ASSUME NEW o, NEW g, NEW cs, ShapeInv(o, g, cs), MaxRows \in Nat, MaxColumns \in Nat
  PROVE  /\ Len(g) \in Nat \ {0} /\ Len(g) \in DOMAIN g /\ DOMAIN g = 1 .. Len(g) /\ DOMAIN o = DOMAIN g
         /\ Len(o) = Len(g) /\ Len(cs) \in Nat /\ DOMAIN cs = 1 .. Len(cs) /\ Len(g) <= MaxRows + 1
         /\ \A r \in DOMAIN g : /\ Len(g[r]) \in Nat /\ DOMAIN g[r] = 1 .. Len(g[r]) /\ DOMAIN o[r] = DOMAIN g[r]
                                /\ Len(o[r]) = Len(g[r]) /\ Len(g[r]) <= MaxColumns
                                /\ (r < Len(g) => Len(g[r]) >= 1) /\ (r > MaxRows => Len(g[r]) = 0)
                                /\ \A c \in DOMAIN g[r] : g[r][c] \in Nat /\ o[r][c] \in Tokens
         /\ \A k \in DOMAIN cs : /\ cs[k].row \in Nat /\ cs[k].column \in Nat
                                 /\ cs[k].bottom \in Nat /\ cs[k].right \in Nat
<1>1. o \in Seq(Seq(Tokens)) /\ g \in Seq(Seq(Nat)) /\ cs \in Seq(CellRecords)
  BY DEF ShapeInv
<1>2. /\ Len(g) \in Nat \ {0} /\ Len(g) \in DOMAIN g /\ DOMAIN g = 1 .. Len(g) /\ DOMAIN o = DOMAIN g
      /\ Len(o) = Len(g) /\ Len(g) <= MaxRows + 1
  BY <1>1 DEF ShapeInv
<1>3. Len(cs) \in Nat /\ DOMAIN cs = 1 .. Len(cs) /\ \A k \in DOMAIN cs : cs[k] \in CellRecords
  BY <1>1
<1>4. ASSUME NEW r \in DOMAIN g
      PROVE  /\ Len(g[r]) \in Nat /\ DOMAIN g[r] = 1 .. Len(g[r]) /\ DOMAIN o[r] = DOMAIN g[r]
             /\ Len(o[r]) = Len(g[r]) /\ Len(g[r]) <= MaxColumns
             /\ (r < Len(g) => Len(g[r]) >= 1) /\ (r > MaxRows => Len(g[r]) = 0)
             /\ \A c \in DOMAIN g[r] : g[r][c] \in Nat /\ o[r][c] \in Tokens
  <2>1. g[r] \in Seq(Nat) /\ o[r] \in Seq(Tokens)
    BY <1>1, <1>2
  <2>2. /\ Len(o[r]) = Len(g[r]) /\ Len(g[r]) <= MaxColumns
        /\ (r < Len(g) => Len(g[r]) >= 1) /\ (r > MaxRows => Len(g[r]) = 0)
    BY DEF ShapeInv
  <2> QED BY <2>1, <2>2
<1>5. \A k \in DOMAIN cs : /\ cs[k].row \in Nat /\ cs[k].column \in Nat
                           /\ cs[k].bottom \in Nat /\ cs[k].right \in Nat
  BY <1>3 DEF CellRecords
<1> QED BY <1>2, <1>3, <1>4, <1>5

\* What is left of a place and above it, where its token says that it continues a cell.
LEMMA Neighbours ==
  ASSUME NEW o, NEW g, NEW cs, ShapeInv(o, g, cs), PlacesInv(o, g, cs), CellsInv(g, cs),
         MaxRows \in Nat, MaxColumns \in Nat, NEW r \in DOMAIN g, NEW c \in DOMAIN g[r]
  PROVE  /\ o[r][c] = "lcel" => c - 1 \in DOMAIN g[r]
         /\ o[r][c] = "ucel" => r - 1 \in DOMAIN g /\ r - 1 # Len(g)
<1> DEFINE k == g[r][c]
<1>1. k \in DOMAIN cs /\ Belongs(o[r][c], g, cs, k, r, c)
  BY DEF PlacesInv
<1>2. /\ cs[k].row \in DOMAIN g /\ cs[k].column \in DOMAIN g[cs[k].row]
  BY <1>1 DEF CellsInv
<1>3. /\ DOMAIN g = 1 .. Len(g) /\ Len(g) \in Nat
      /\ \A i \in DOMAIN g : DOMAIN g[i] = 1 .. Len(g[i]) /\ Len(g[i]) \in Nat
  <2>1. ShapeInv(o, g, cs) /\ MaxRows \in Nat /\ MaxColumns \in Nat
    OBVIOUS
  <2>2. DOMAIN g = 1 .. Len(g) /\ Len(g) \in Nat
    BY ONLY <2>1, ShapeIs
  <2>3. ASSUME NEW i \in DOMAIN g PROVE DOMAIN g[i] = 1 .. Len(g[i]) /\ Len(g[i]) \in Nat
    BY ONLY <2>1, <2>3, ShapeIs
  <2> QED BY ONLY <2>2, <2>3
<1>4. cs[k].row >= 1 /\ cs[k].column >= 1 /\ cs[k].row \in Nat /\ cs[k].column \in Nat
  <2>1. cs[k].row \in 1 .. Len(g) /\ cs[k].column \in 1 .. Len(g[cs[k].row]) /\ Len(g) \in Nat
        /\ Len(g[cs[k].row]) \in Nat
    BY ONLY <1>2, <1>3
  <2> QED BY ONLY <2>1
<1> HIDE DEF k
<1>5. ASSUME o[r][c] = "lcel" PROVE c - 1 \in DOMAIN g[r]
  <2>1. r = cs[k].row /\ c # cs[k].column /\ cs[k].column <= c
    BY <1>1, <1>5 DEF Belongs
  <2> QED BY <1>3, <1>4, <2>1
<1>6. ASSUME o[r][c] = "ucel" PROVE r - 1 \in DOMAIN g /\ r - 1 # Len(g)
  <2>1. c = cs[k].column /\ r # cs[k].row /\ cs[k].row <= r
    BY <1>1, <1>6 DEF Belongs
  <2> QED BY <1>3, <1>4, <2>1
<1> QED BY <1>5, <1>6

-----------------------------------------------------------------------------
(* TableOtsl.  A token is read, a row ends.                                *)

\* Cells only grow.
Later(cs, more) ==
  \A j \in DOMAIN cs : /\ j \in DOMAIN more
                       /\ more[j].row = cs[j].row /\ more[j].column = cs[j].column
                       /\ cs[j].bottom <= more[j].bottom /\ cs[j].right <= more[j].right

\* A token is read: the cell that it belongs to begins here, or goes on to here.
Reaches(g, cs, more, k) ==
  LET R == Len(g)
      C == Len(g[R]) + 1
  IN  /\ more \in Seq(CellRecords) /\ Later(cs, more) /\ k \in DOMAIN more
      /\ \A j \in DOMAIN more :
           /\ j \in DOMAIN cs \/ (j = k /\ more[k].row = R /\ more[k].column = C)
           /\ (j \in DOMAIN cs /\ more[j].bottom = cs[j].bottom) \/ (j = k /\ more[k].bottom = R)
           /\ (j \in DOMAIN cs /\ more[j].right = cs[j].right) \/ (j = k /\ more[k].right = C)

\* The places then are those before, as they were, and one more.
LEMMA PlacesThen ==
  ASSUME MaxRows \in Nat, MaxColumns \in Nat, NEW o, NEW g, NEW cs, ShapeInv(o, g, cs),
         NEW token \in Tokens, NEW k \in Nat
  PROVE  LET R == Len(g)
             C == Len(g[R]) + 1
             O == Placed(o, token)
             G == Placed(g, k)
         IN  /\ O \in Seq(Seq(Tokens)) /\ G \in Seq(Seq(Nat))
             /\ Len(G) = R /\ Len(O) = R /\ DOMAIN G = DOMAIN g /\ DOMAIN O = DOMAIN g
             /\ R \in DOMAIN g /\ R \in Nat \ {0} /\ C \in Nat \ {0} /\ C \notin DOMAIN g[R]
             /\ Len(G[R]) = C /\ Len(O[R]) = C
             /\ C \in DOMAIN G[R] /\ C \in DOMAIN O[R] /\ G[R][C] = k /\ O[R][C] = token
             /\ \A r \in DOMAIN g : r # R => G[r] = g[r] /\ O[r] = o[r]
             /\ \A r \in DOMAIN g : \A c \in DOMAIN g[r] :
                  /\ c \in DOMAIN G[r] /\ G[r][c] = g[r][c]
                  /\ c \in DOMAIN O[r] /\ O[r][c] = o[r][c]
             /\ \A r \in DOMAIN g : \A c \in DOMAIN G[r] : c \in DOMAIN g[r] \/ (r = R /\ c = C)
             /\ \A r \in DOMAIN g : DOMAIN O[r] = DOMAIN G[r]
<1> DEFINE R == Len(g)
           C == Len(g[R]) + 1
           O == Placed(o, token)
           G == Placed(g, k)
<1>1. o \in Seq(Seq(Tokens)) /\ Len(o) >= 1
  BY DEF ShapeInv
<1>14. Len(o) = R
  BY DEF ShapeInv
<1>13. g \in Seq(Seq(Nat)) /\ Len(g) >= 1
  BY DEF ShapeInv
<1>2. /\ R \in Nat \ {0} /\ R \in DOMAIN g /\ DOMAIN o = DOMAIN g
      /\ \A r \in DOMAIN g : DOMAIN o[r] = DOMAIN g[r] /\ Len(o[r]) = Len(g[r])
  BY ShapeIs
<1>3. /\ G \in Seq(Seq(Nat)) /\ Len(G) = R /\ DOMAIN G = DOMAIN g
      /\ Len(G[R]) = C /\ DOMAIN G[R] = 1 .. C /\ DOMAIN g[R] = 1 .. Len(g[R]) /\ Len(g[R]) \in Nat
      /\ C \in Nat \ {0} /\ C \notin DOMAIN g[R] /\ G[R][C] = k
  <2>1. G \in Seq(Seq(Nat)) /\ Len(G) = R /\ DOMAIN G = DOMAIN g
    BY ONLY <1>13, k \in Nat, PlacedIs
  <2>2. Len(G[R]) = C /\ DOMAIN G[R] = 1 .. C
    BY ONLY <1>13, k \in Nat, PlacedIs
  <2>3. DOMAIN g[R] = 1 .. Len(g[R]) /\ Len(g[R]) \in Nat
    BY ONLY <1>13, k \in Nat, PlacedIs
  <2>4. C \in Nat \ {0} /\ C \notin DOMAIN g[R] /\ G[R][C] = k
    BY ONLY <1>13, k \in Nat, PlacedIs
  <2> QED BY <2>1, <2>2, <2>3, <2>4
<1>30. ASSUME NEW r \in DOMAIN g
       PROVE  (r # R => G[r] = g[r]) /\ \A c \in DOMAIN g[r] : G[r][c] = g[r][c]
  BY <1>13, PlacedAt
<1> DEFINE n == Len(o)
<1>4. /\ O \in Seq(Seq(Tokens)) /\ Len(O) = n /\ DOMAIN O = DOMAIN o
      /\ Len(O[n]) = Len(o[n]) + 1 /\ DOMAIN O[n] = 1 .. Len(o[n]) + 1
      /\ Len(o[n]) \in Nat /\ DOMAIN o[n] = 1 .. Len(o[n])
      /\ O[n][Len(o[n]) + 1] = token
  <2>1. O \in Seq(Seq(Tokens)) /\ Len(O) = n /\ DOMAIN O = DOMAIN o
    BY ONLY <1>1, token \in Tokens, PlacedIs
  <2>2. Len(O[n]) = Len(o[n]) + 1 /\ DOMAIN O[n] = 1 .. Len(o[n]) + 1
    BY ONLY <1>1, token \in Tokens, PlacedIs
  <2>3. Len(o[n]) \in Nat /\ DOMAIN o[n] = 1 .. Len(o[n])
    BY ONLY <1>1, token \in Tokens, PlacedIs
  <2>4. O[n][Len(o[n]) + 1] = token
    BY ONLY <1>1, token \in Tokens, PlacedIs
  <2> QED BY <2>1, <2>2, <2>3, <2>4
<1>40. ASSUME NEW r \in DOMAIN o
       PROVE  (r # n => O[r] = o[r]) /\ \A c \in DOMAIN o[r] : O[r][c] = o[r][c]
  BY <1>1, PlacedAt
<1>41. n = R
  BY <1>14
<1> HIDE DEF O, G, n
<1>5. Len(o[R]) = Len(g[R]) /\ DOMAIN o[R] = DOMAIN g[R]
  BY <1>2
<1> HIDE DEF R
<1>6. Len(o[R]) + 1 = C
  BY <1>5
<1> HIDE DEF C
<1>7. ASSUME NEW r \in DOMAIN g, NEW c \in DOMAIN g[r]
      PROVE  /\ c \in DOMAIN G[r] /\ G[r][c] = g[r][c]
             /\ c \in DOMAIN O[r] /\ O[r][c] = o[r][c]
  <2>1. G[r][c] = g[r][c] /\ O[r][c] = o[r][c]
    BY <1>2, <1>30, <1>40
  <2>2. CASE r = R
    BY <1>3, <1>4, <1>41, <1>5, <2>1, <2>2 DEF C
  <2>3. CASE r # R
    BY <1>2, <1>30, <1>40, <1>41, <2>1, <2>3
  <2> QED BY <2>2, <2>3
<1>8. ASSUME NEW r \in DOMAIN g, NEW c \in DOMAIN G[r]
      PROVE  c \in DOMAIN g[r] \/ (r = R /\ c = C)
  <2>1. CASE r = R
    BY <1>3, <2>1 DEF C
  <2>2. CASE r # R
    BY <1>30, <2>2
  <2> QED BY <2>1, <2>2
<1>9. ASSUME NEW r \in DOMAIN g PROVE DOMAIN O[r] = DOMAIN G[r]
  <2>1. CASE r = R
    BY <1>3, <1>4, <1>41, <1>6, <2>1
  <2>2. CASE r # R
    BY <1>2, <1>30, <1>40, <1>41, <2>2
  <2> QED BY <2>1, <2>2
<1>10. \A r \in DOMAIN g : r # R => G[r] = g[r] /\ O[r] = o[r]
  BY <1>2, <1>30, <1>40, <1>41
<1>11. C \in DOMAIN G[R] /\ C \in DOMAIN O[R] /\ Len(O[R]) = C /\ O[R][C] = token
  BY <1>3, <1>4, <1>41, <1>6
<1>12. O \in Seq(Seq(Tokens)) /\ Len(O) = R /\ DOMAIN O = DOMAIN g
  BY <1>2, <1>4, <1>41
<1> QED BY <1>2, <1>3, <1>7, <1>8, <1>9, <1>10, <1>11, <1>12 DEF O, G, R, C

LEMMA PlaceKeeps ==
  ASSUME MaxRows \in Nat, MaxColumns \in Nat, NEW o, NEW g, NEW cs,
         ShapeInv(o, g, cs), PlacesInv(o, g, cs), CellsInv(g, cs),
         Len(g) <= MaxRows, Len(g[Len(g)]) + 1 <= MaxColumns,
         NEW token \in Tokens, NEW k, NEW more, Reaches(g, cs, more, k),
         Belongs(token, Placed(g, k), more, k, Len(g), Len(g[Len(g)]) + 1)
  PROVE  /\ ShapeInv(Placed(o, token), Placed(g, k), more)
         /\ PlacesInv(Placed(o, token), Placed(g, k), more)
         /\ CellsInv(Placed(g, k), more)
<1> DEFINE R == Len(g)
           C == Len(g[R]) + 1
           O == Placed(o, token)
           G == Placed(g, k)
<1>1. /\ more \in Seq(CellRecords) /\ Later(cs, more) /\ k \in DOMAIN more
      /\ \A j \in DOMAIN more :
           /\ j \in DOMAIN cs \/ (j = k /\ more[k].row = R /\ more[k].column = C)
           /\ (j \in DOMAIN cs /\ more[j].bottom = cs[j].bottom) \/ (j = k /\ more[k].bottom = R)
           /\ (j \in DOMAIN cs /\ more[j].right = cs[j].right) \/ (j = k /\ more[k].right = C)
  BY DEF Reaches
<1>2. k \in Nat
  BY <1>1
<1>3. /\ O \in Seq(Seq(Tokens)) /\ G \in Seq(Seq(Nat))
      /\ Len(G) = R /\ Len(O) = R /\ DOMAIN G = DOMAIN g /\ DOMAIN O = DOMAIN g
      /\ R \in DOMAIN g /\ R \in Nat \ {0} /\ C \in Nat \ {0} /\ C \notin DOMAIN g[R]
      /\ Len(G[R]) = C /\ Len(O[R]) = C
      /\ C \in DOMAIN G[R] /\ C \in DOMAIN O[R] /\ G[R][C] = k /\ O[R][C] = token
  BY <1>2, PlacesThen
<1>4. /\ \A r \in DOMAIN g : r # R => G[r] = g[r] /\ O[r] = o[r]
      /\ \A r \in DOMAIN g : \A c \in DOMAIN g[r] :
           /\ c \in DOMAIN G[r] /\ G[r][c] = g[r][c]
           /\ c \in DOMAIN O[r] /\ O[r][c] = o[r][c]
      /\ \A r \in DOMAIN g : \A c \in DOMAIN G[r] : c \in DOMAIN g[r] \/ (r = R /\ c = C)
  BY <1>2, PlacesThen
<1>5. /\ DOMAIN g = 1 .. Len(g) /\ Len(g) <= MaxRows + 1 /\ R <= MaxRows /\ C <= MaxColumns
      /\ \A r \in DOMAIN g : /\ Len(o[r]) = Len(g[r]) /\ Len(g[r]) <= MaxColumns
                             /\ (r < Len(g) => Len(g[r]) >= 1) /\ (r > MaxRows => Len(g[r]) = 0)
  BY ShapeIs
<1>6. Belongs(token, G, more, k, R, C)
  OBVIOUS
<1> HIDE DEF O, G, R, C
<1>7. ShapeInv(O, G, more)
  <2>1. ASSUME NEW r \in DOMAIN G
        PROVE  /\ Len(O[r]) = Len(G[r]) /\ Len(G[r]) <= MaxColumns
               /\ (r < Len(G) => Len(G[r]) >= 1) /\ (r > MaxRows => Len(G[r]) = 0)
    <3>1. CASE r = R
      BY <1>3, <1>5, <3>1
    <3>2. CASE r # R
      <4>1. G[r] = g[r] /\ O[r] = o[r] /\ r \in DOMAIN g
        BY <1>3, <1>4, <3>2
      <4>2. Len(G) = Len(g)
        BY <1>3 DEF R
      <4> QED BY <1>5, <4>1, <4>2
    <3> QED BY <3>1, <3>2
  <2> QED BY <1>1, <1>3, <1>5, <2>1 DEF ShapeInv, R
<1>8. PlacesInv(O, G, more)
  <2>1. ASSUME NEW r \in DOMAIN g, NEW c \in DOMAIN g[r]
        PROVE  G[r][c] \in DOMAIN more /\ Belongs(O[r][c], G, more, G[r][c], r, c)
    <3> DEFINE j == g[r][c]
    <3>1. j \in DOMAIN cs /\ Belongs(o[r][c], g, cs, j, r, c)
      BY DEF PlacesInv
    <3>2. G[r][c] = j /\ O[r][c] = o[r][c]
      BY <1>4
    <3>3. /\ o[r][c] = "lcel" => c - 1 \in DOMAIN g[r]
          /\ o[r][c] = "ucel" => r - 1 \in DOMAIN g /\ r - 1 # R
      BY Neighbours DEF R
    <3>4. /\ o[r][c] = "lcel" => G[r][c - 1] = g[r][c - 1]
          /\ o[r][c] = "ucel" => G[r - 1][c] = g[r - 1][c]
      BY <1>4, <3>3
    <3>5. /\ j \in DOMAIN more /\ more[j].row = cs[j].row /\ more[j].column = cs[j].column
          /\ cs[j].bottom <= more[j].bottom /\ cs[j].right <= more[j].right
      BY <1>1, <3>1 DEF Later
    <3>6. /\ cs[j].row \in Nat /\ cs[j].column \in Nat /\ cs[j].bottom \in Nat /\ cs[j].right \in Nat
          /\ r \in Nat /\ c \in Nat
      BY <3>1, ShapeIs
    <3>7. more[j].bottom \in Nat /\ more[j].right \in Nat
      <4>1. more[j] \in CellRecords
        BY <1>1, <3>5
      <4> QED BY <4>1 DEF CellRecords
    <3> HIDE DEF j
    <3>8. /\ more[j].row <= r /\ r <= more[j].bottom /\ more[j].column <= c /\ c <= more[j].right
      BY <3>1, <3>5, <3>6, <3>7 DEF Belongs
    <3>9. Belongs(o[r][c], G, more, j, r, c)
      BY <3>1, <3>4, <3>5, <3>8 DEF Belongs
    <3> QED BY <3>2, <3>5, <3>9
  <2>2. G[R][C] \in DOMAIN more /\ Belongs(O[R][C], G, more, G[R][C], R, C)
    BY <1>1, <1>3, <1>6
  <2> QED BY <1>3, <1>4, <2>1, <2>2 DEF PlacesInv
<1>9. CellsInv(G, more)
  <2> SUFFICES ASSUME NEW j \in DOMAIN more
               PROVE  /\ more[j].row \in DOMAIN G /\ more[j].column \in DOMAIN G[more[j].row]
                      /\ G[more[j].row][more[j].column] = j
                      /\ \E r \in DOMAIN G : \E c \in DOMAIN G[r] : G[r][c] = j /\ r = more[j].bottom
                      /\ \E r \in DOMAIN G : \E c \in DOMAIN G[r] : G[r][c] = j /\ c = more[j].right
    BY DEF CellsInv
  <2>1. ASSUME j \in DOMAIN cs
        PROVE  /\ more[j].row = cs[j].row /\ more[j].column = cs[j].column
               /\ cs[j].row \in DOMAIN g /\ cs[j].column \in DOMAIN g[cs[j].row]
               /\ g[cs[j].row][cs[j].column] = j
    BY <1>1, <2>1 DEF CellsInv, Later
  <2>2. /\ more[j].row \in DOMAIN G /\ more[j].column \in DOMAIN G[more[j].row]
        /\ G[more[j].row][more[j].column] = j
    <3>1. CASE j \in DOMAIN cs
      BY <1>3, <1>4, <2>1, <3>1
    <3>2. CASE j = k /\ more[k].row = R /\ more[k].column = C
      BY <1>3, <3>2
    <3> QED BY <1>1, <3>1, <3>2
  <2>3. \E r \in DOMAIN G : \E c \in DOMAIN G[r] : G[r][c] = j /\ r = more[j].bottom
    <3>1. CASE j \in DOMAIN cs /\ more[j].bottom = cs[j].bottom
      <4>1. PICK r \in DOMAIN g : \E c \in DOMAIN g[r] : g[r][c] = j /\ r = cs[j].bottom
        BY <3>1 DEF CellsInv
      <4>2. PICK c \in DOMAIN g[r] : g[r][c] = j /\ r = cs[j].bottom
        BY <4>1
      <4> QED BY <1>3, <1>4, <3>1, <4>2
    <3>2. CASE j = k /\ more[k].bottom = R
      BY <1>3, <3>2
    <3> QED BY <1>1, <3>1, <3>2
  <2>4. \E r \in DOMAIN G : \E c \in DOMAIN G[r] : G[r][c] = j /\ c = more[j].right
    <3>1. CASE j \in DOMAIN cs /\ more[j].right = cs[j].right
      <4>1. PICK r \in DOMAIN g : \E c \in DOMAIN g[r] : g[r][c] = j /\ c = cs[j].right
        BY <3>1 DEF CellsInv
      <4>2. PICK c \in DOMAIN g[r] : g[r][c] = j /\ c = cs[j].right
        BY <4>1
      <4>3. c \in DOMAIN G[r] /\ G[r][c] = j /\ c = more[j].right /\ r \in DOMAIN G
        BY <1>3, <1>4, <3>1, <4>2
      <4> QED BY <4>3
    <3>2. CASE j = k /\ more[k].right = C
      BY <1>3, <3>2
    <3> QED BY <1>1, <3>1, <3>2
  <2> QED BY <2>2, <2>3, <2>4
<1> QED BY <1>7, <1>8, <1>9 DEF O, G

\* What has been read: a shape, places that belong to cells, and cells in order.
ReadInv(o, g, cs) == ShapeInv(o, g, cs) /\ PlacesInv(o, g, cs) /\ CellsInv(g, cs) /\ OrderInv(cs)

LEMMA MaxOfTwo ==
  ASSUME NEW a \in Nat, NEW b \in Nat
  PROVE  Max({a, b}) \in Nat /\ Max({a, b}) \in {a, b} /\ a <= Max({a, b}) /\ b <= Max({a, b})
<1>1. \E x \in {a, b} : \A y \in {a, b} : x >= y
  <2>1. CASE a <= b
    BY <2>1
  <2>2. CASE ~(a <= b)
    BY <2>2
  <2> QED BY <2>1, <2>2
<1>2. Max({a, b}) \in {a, b} /\ \A y \in {a, b} : Max({a, b}) >= y
  BY <1>1 DEF Max
<1> QED BY <1>2

\* Where a cell begins is a place read before the next one.
LEMMA CellBefore ==
  ASSUME MaxRows \in Nat, MaxColumns \in Nat, NEW o, NEW g, NEW cs,
         ShapeInv(o, g, cs), CellsInv(g, cs), NEW j \in DOMAIN cs
  PROVE  /\ cs[j].row \in Nat \ {0} /\ cs[j].column \in Nat \ {0}
         /\ cs[j].row < Len(g) \/ (cs[j].row = Len(g) /\ cs[j].column < Len(g[Len(g)]) + 1)
<1>1. cs[j].row \in DOMAIN g /\ cs[j].column \in DOMAIN g[cs[j].row]
  BY DEF CellsInv
<1>2. DOMAIN g = 1 .. Len(g) /\ Len(g) \in Nat
  BY ShapeIs
<1>3. DOMAIN g[cs[j].row] = 1 .. Len(g[cs[j].row]) /\ Len(g[cs[j].row]) \in Nat
  BY <1>1, ShapeIs
<1> DEFINE a == cs[j].row
           b == cs[j].column
           m == Len(g[a])
<1>4. a \in DOMAIN g /\ b \in 1 .. m /\ m \in Nat
  BY <1>1, <1>3
<1>5. a = Len(g) => m = Len(g[Len(g)])
  OBVIOUS
<1> HIDE DEF a, b, m
<1>6. a \in Nat \ {0} /\ b \in Nat \ {0} /\ (a < Len(g) \/ (a = Len(g) /\ b < Len(g[Len(g)]) + 1))
  BY <1>2, <1>4, <1>5
<1> QED BY <1>6 DEF a, b

\* A cell begins.
LEMMA BeginKeeps ==
  ASSUME MaxRows \in Nat, MaxColumns \in Nat, NEW o, NEW g, NEW cs, ReadInv(o, g, cs),
         Len(g) <= MaxRows, Len(g[Len(g)]) + 1 <= MaxColumns
  PROVE  LET more == Append(cs, [row |-> Len(g), column |-> Len(g[Len(g)]) + 1,
                                 bottom |-> Len(g), right |-> Len(g[Len(g)]) + 1])
             k == Len(cs) + 1
         IN  /\ ReadInv(Placed(o, "cell"), Placed(g, k), more)
             /\ Later(cs, more) /\ k \in DOMAIN more /\ k \in Nat
             /\ more[k].row = Len(g) /\ more[k].column = Len(g[Len(g)]) + 1
<1> DEFINE R == Len(g)
           C == Len(g[R]) + 1
           k == Len(cs) + 1
           new == [row |-> R, column |-> C, bottom |-> R, right |-> C]
           more == Append(cs, new)
<1>1. ShapeInv(o, g, cs) /\ PlacesInv(o, g, cs) /\ CellsInv(g, cs) /\ OrderInv(cs)
  BY DEF ReadInv
<1>2. R \in Nat \ {0} /\ R \in DOMAIN g /\ cs \in Seq(CellRecords)
  BY <1>1, ShapeIs DEF ShapeInv
<1>3. Len(g[R]) \in Nat
  BY <1>1, <1>2, ShapeIs
<1>4. C \in Nat
  BY <1>3
<1> HIDE DEF R, C
<1>5. new \in CellRecords
  BY <1>2, <1>4 DEF CellRecords
<1> HIDE DEF new
<1>6. /\ more \in Seq(CellRecords) /\ DOMAIN more = DOMAIN cs \cup {k} /\ k \notin DOMAIN cs
      /\ k \in Nat /\ more[k] = new /\ \A j \in DOMAIN cs : more[j] = cs[j] /\ j < k /\ j \in Nat
  BY <1>2, <1>5, AppendIs
<1> HIDE DEF more, k
<1>7. new.row = R /\ new.column = C /\ new.bottom = R /\ new.right = C
  BY DEF new
<1>8. \A j \in DOMAIN cs : /\ cs[j].row \in Nat /\ cs[j].column \in Nat
                           /\ cs[j].bottom \in Nat /\ cs[j].right \in Nat
  BY <1>1, ShapeIs
<1>13. Later(cs, more)
  BY <1>6, <1>8 DEF Later
<1>9. Reaches(g, cs, more, k)
  BY <1>6, <1>7, <1>13 DEF Reaches, R, C
<1>10. Belongs("cell", Placed(g, k), more, k, R, C)
  BY <1>2, <1>4, <1>6, <1>7 DEF Belongs
<1>11. /\ ShapeInv(Placed(o, "cell"), Placed(g, k), more)
       /\ PlacesInv(Placed(o, "cell"), Placed(g, k), more)
       /\ CellsInv(Placed(g, k), more)
  BY <1>1, <1>9, <1>10, PlaceKeeps DEF R, C, Tokens
<1>12. OrderInv(more)
  <2> SUFFICES ASSUME NEW i \in DOMAIN more, NEW j \in DOMAIN more, i < j
               PROVE  \/ more[i].row < more[j].row
                      \/ more[i].row = more[j].row /\ more[i].column < more[j].column
    BY DEF OrderInv
  <2>1. CASE j \in DOMAIN cs
    <3>1. i # k
      BY <1>6, <2>1
    <3> QED BY <1>1, <1>6, <2>1, <3>1 DEF OrderInv
  <2>2. CASE j = k
    <3>1. i \in DOMAIN cs
      BY <1>6, <2>2
    <3>2. cs[i].row < R \/ (cs[i].row = R /\ cs[i].column < C)
      BY <1>1, <3>1, CellBefore DEF R, C
    <3> QED BY <1>6, <1>7, <2>2, <3>1, <3>2
  <2> QED BY <1>6, <2>1, <2>2
<1>14. k \in DOMAIN more /\ k \in Nat /\ more[k].row = R /\ more[k].column = C
  BY <1>6, <1>7
<1> QED BY <1>11, <1>12, <1>13, <1>14 DEF ReadInv, more, new, k, R, C

\* What a token needs to continue the cell k.
Goes(token, g, cs, k) ==
  LET R == Len(g)
      C == Len(g[R]) + 1
      left == C > 1 /\ k = g[R][C - 1]
      upper == R > 1 /\ C <= Len(g[R - 1]) /\ k = g[R - 1][C]
  IN  \/ token = "lcel" /\ left /\ cs[k].row = R
      \/ token = "ucel" /\ upper /\ cs[k].column = C
      \/ token = "xcel" /\ left /\ upper
Stretched(cs, k, r, c) == [cs EXCEPT ![k].bottom = Max({@, r}), ![k].right = Max({@, c})]

\* The cell on the left of the next place, and the one above.
LEMMA LeftAndUpper ==
  ASSUME MaxRows \in Nat, MaxColumns \in Nat, NEW o, NEW g, NEW cs, ReadInv(o, g, cs)
  PROVE  LET R == Len(g)
             C == Len(g[R]) + 1
         IN  /\ C > 1 => LET k == g[R][C - 1] IN k \in DOMAIN cs /\ cs[k].row <= R /\ cs[k].column < C
             /\ R > 1 /\ C <= Len(g[R - 1]) =>
                  LET k == g[R - 1][C] IN k \in DOMAIN cs /\ cs[k].row < R /\ cs[k].column <= C
<1> DEFINE R == Len(g)
           C == Len(g[R]) + 1
<1>1. ShapeInv(o, g, cs) /\ PlacesInv(o, g, cs)
  BY DEF ReadInv
<1>2. R \in Nat \ {0} /\ R \in DOMAIN g /\ DOMAIN g = 1 .. R
  BY <1>1, ShapeIs
<1>3. \A r \in DOMAIN g : Len(g[r]) \in Nat /\ DOMAIN g[r] = 1 .. Len(g[r])
  BY <1>1, ShapeIs
<1>4. \A j \in DOMAIN cs : cs[j].row \in Nat /\ cs[j].column \in Nat
  BY <1>1, ShapeIs
<1>5. ASSUME NEW r \in DOMAIN g, NEW c \in DOMAIN g[r]
      PROVE  g[r][c] \in DOMAIN cs /\ cs[g[r][c]].row <= r /\ cs[g[r][c]].column <= c
  BY <1>1 DEF PlacesInv, Belongs
<1>6. Len(g[R]) \in Nat /\ DOMAIN g[R] = 1 .. Len(g[R])
  BY <1>2, <1>3
<1> HIDE DEF R
<1>7. ASSUME C > 1
      PROVE  g[R][C - 1] \in DOMAIN cs /\ cs[g[R][C - 1]].row <= R /\ cs[g[R][C - 1]].column < C
  <2> DEFINE c == C - 1
  <2>1. c \in DOMAIN g[R] /\ c \in Nat /\ c < C /\ C \in Nat
    BY <1>6, <1>7
  <2> HIDE DEF c
  <2> DEFINE k == g[R][c]
  <2>2. k \in DOMAIN cs /\ cs[k].row <= R /\ cs[k].column <= c
    BY <1>2, <1>5, <2>1
  <2> HIDE DEF k
  <2>3. cs[k].column < C
    BY <1>4, <2>1, <2>2
  <2> QED BY <2>2, <2>3 DEF k, c
<1>8. ASSUME R > 1, C <= Len(g[R - 1])
      PROVE  g[R - 1][C] \in DOMAIN cs /\ cs[g[R - 1][C]].row < R /\ cs[g[R - 1][C]].column <= C
  <2> DEFINE r == R - 1
  <2>1. r \in DOMAIN g /\ r \in Nat /\ r < R
    BY <1>2, <1>8
  <2>2. C \in DOMAIN g[r]
    BY <1>3, <1>6, <1>8, <2>1
  <2> HIDE DEF r
  <2> DEFINE k == g[r][C]
  <2>3. k \in DOMAIN cs /\ cs[k].row <= r /\ cs[k].column <= C
    BY <1>5, <2>1, <2>2
  <2> HIDE DEF k
  <2>4. cs[k].row < R
    BY <1>2, <1>4, <2>1, <2>3
  <2> QED BY <2>3, <2>4 DEF k, r
<1> QED BY <1>7, <1>8 DEF R

\* A cell goes on.
LEMMA GrowKeeps ==
  ASSUME MaxRows \in Nat, MaxColumns \in Nat, NEW o, NEW g, NEW cs, ReadInv(o, g, cs),
         Len(g) <= MaxRows, Len(g[Len(g)]) + 1 <= MaxColumns,
         NEW token, NEW k, Goes(token, g, cs, k)
  PROVE  LET more == Stretched(cs, k, Len(g), Len(g[Len(g)]) + 1)
         IN  /\ ReadInv(Placed(o, token), Placed(g, k), more)
             /\ Later(cs, more) /\ k \in DOMAIN more /\ k \in Nat /\ token \in Tokens
<1> DEFINE R == Len(g)
           C == Len(g[R]) + 1
           more == Stretched(cs, k, R, C)
           G == Placed(g, k)
<1>1. ShapeInv(o, g, cs) /\ PlacesInv(o, g, cs) /\ CellsInv(g, cs) /\ OrderInv(cs)
  BY DEF ReadInv
<1>2. R \in Nat \ {0} /\ R \in DOMAIN g /\ cs \in Seq(CellRecords) /\ g \in Seq(Seq(Nat))
  BY <1>1, ShapeIs DEF ShapeInv
<1>3. Len(g[R]) \in Nat
  BY <1>1, <1>2, ShapeIs
<1>4. C \in Nat
  BY <1>3
<1> DEFINE left == C > 1 /\ k = g[R][C - 1]
           upper == R > 1 /\ C <= Len(g[R - 1]) /\ k = g[R - 1][C]
<1>5. \/ token = "lcel" /\ left /\ cs[k].row = R
      \/ token = "ucel" /\ upper /\ cs[k].column = C
      \/ token = "xcel" /\ left /\ upper
  BY DEF Goes
<1>6. left => k \in DOMAIN cs /\ cs[k].row <= R /\ cs[k].column < C
  BY LeftAndUpper
<1>7. upper => k \in DOMAIN cs /\ cs[k].row < R /\ cs[k].column <= C
  BY LeftAndUpper
<1>8. k \in DOMAIN cs /\ token \in Tokens
  BY <1>5, <1>6, <1>7 DEF Tokens
<1>9. \A j \in DOMAIN cs : /\ cs[j].row \in Nat /\ cs[j].column \in Nat
                           /\ cs[j].bottom \in Nat /\ cs[j].right \in Nat
  BY <1>1, ShapeIs
<1>10. cs[k].bottom \in Nat /\ cs[k].right \in Nat /\ k \in Nat
  BY <1>2, <1>8, <1>9
<1> DEFINE b == Max({cs[k].bottom, R})
           e == Max({cs[k].right, C})
<1>11. b \in Nat /\ b \in {cs[k].bottom, R} /\ cs[k].bottom <= b /\ R <= b
  BY <1>2, <1>10, MaxOfTwo
<1>12. e \in Nat /\ e \in {cs[k].right, C} /\ cs[k].right <= e /\ C <= e
  BY <1>4, <1>10, MaxOfTwo
<1>13. more = [j \in DOMAIN cs |-> IF j = k THEN [cs[k] EXCEPT !.bottom = b, !.right = e] ELSE cs[j]]
  <2>1. more = [cs EXCEPT ![k].bottom = b, ![k].right = e]
    <3>1. cs[k] = [row |-> cs[k].row, column |-> cs[k].column, bottom |-> cs[k].bottom, right |-> cs[k].right]
      <4>1. cs[k] \in CellRecords
        BY <1>2, <1>8
      <4> QED BY <4>1 DEF CellRecords
    <3> QED BY <1>2, <1>8, <3>1 DEF Stretched
  <2> HIDE DEF b, e, more
  <2> QED BY <1>2, <1>8, <2>1
<1> HIDE DEF b, e, more, R, C
<1>14. cs[k] \in CellRecords
  BY <1>2, <1>8
<1>15. /\ DOMAIN more = DOMAIN cs /\ \A j \in DOMAIN cs : j # k => more[j] = cs[j]
       /\ more[k] \in CellRecords /\ more[k].row = cs[k].row /\ more[k].column = cs[k].column
       /\ more[k].bottom = b /\ more[k].right = e
  BY <1>8, <1>11, <1>12, <1>13, <1>14 DEF CellRecords
<1>16. more \in Seq(CellRecords)
  <2>1. \A j \in DOMAIN cs : cs[j] \in CellRecords
    BY <1>2
  <2>2. DOMAIN cs = 1 .. Len(cs) /\ Len(cs) \in Nat
    BY <1>2
  <2>3. \A j \in DOMAIN cs : more[j] \in CellRecords
    BY <1>15, <2>1
  <2>4. more \in [1 .. Len(cs) -> CellRecords]
    BY <1>13, <1>15, <2>2, <2>3
  <2> QED BY <2>2, <2>4
<1>24. Later(cs, more)
  <2>1. ASSUME NEW j \in DOMAIN cs
        PROVE  /\ j \in DOMAIN more /\ more[j].row = cs[j].row /\ more[j].column = cs[j].column
               /\ cs[j].bottom <= more[j].bottom /\ cs[j].right <= more[j].right
    <3>1. CASE j = k
      BY ONLY <1>11, <1>12, <1>15, <2>1, <3>1
    <3>2. CASE j # k
      <4>1. j \in DOMAIN more /\ more[j] = cs[j]
        BY ONLY <1>15, <2>1, <3>2
      <4>2. cs[j].bottom <= cs[j].bottom /\ cs[j].right <= cs[j].right
        BY ONLY <1>9, <2>1
      <4> QED BY ONLY <4>1, <4>2
    <3> QED BY ONLY <3>1, <3>2
  <2> QED BY ONLY <2>1 DEF Later
<1>17. Reaches(g, cs, more, k)
  <2>2. \A j \in DOMAIN more :
          /\ (j \in DOMAIN cs /\ more[j].bottom = cs[j].bottom) \/ (j = k /\ more[k].bottom = R)
          /\ (j \in DOMAIN cs /\ more[j].right = cs[j].right) \/ (j = k /\ more[k].right = C)
    BY <1>11, <1>12, <1>15
  <2> QED BY <1>8, <1>15, <1>16, <1>24, <2>2 DEF Reaches, R, C
<1>21. g \in Seq(Seq(Nat)) /\ Len(g) >= 1
  BY <1>1 DEF ShapeInv
<1>22. k \in Nat
  BY <1>10
<1>23. R \in DOMAIN g
  BY <1>2
<1>18. Belongs(token, G, more, k, R, C)
  <2>1. cs[k].row \in Nat /\ cs[k].column \in Nat
    BY <1>8, <1>9
  <2>2. ASSUME left PROVE G[R][C - 1] = k
    <3>1. C - 1 \in DOMAIN g[R]
      <4>1. DOMAIN g[R] = 1 .. Len(g[R])
        BY <1>1, <1>2, ShapeIs
      <4> QED BY <1>3, <2>2, <4>1 DEF C
    <3>2. G[R][C - 1] = g[R][C - 1]
      BY <1>21, <1>22, <1>23, <3>1, PlacedAt
    <3> QED BY <2>2, <3>2
  <2>3. ASSUME upper PROVE G[R - 1][C] = k
    <3> DEFINE r == R - 1
    <3>1. r \in DOMAIN g /\ r # Len(g)
      <4>1. DOMAIN g = 1 .. R
        BY <1>1, ShapeIs DEF R
      <4>2. R > 1
        BY <2>3
      <4>3. R - 1 \in 1 .. R /\ R - 1 # R
        BY <1>2, <4>2
      <4> QED BY <4>1, <4>3 DEF R
    <3> HIDE DEF r
    <3>2. G[r] = g[r]
      BY <1>21, <1>22, <3>1, PlacedAt
    <3> QED BY <2>3, <3>2 DEF r
  <2> HIDE DEF left, upper, G
  <2>7. R \in Nat /\ C \in Nat /\ R <= more[k].bottom /\ C <= more[k].right
    BY ONLY <1>2, <1>4, <1>11, <1>12, <1>15
  <2>8. more[k].row = cs[k].row /\ more[k].column = cs[k].column
    BY ONLY <1>15
  <2>4. CASE token = "lcel" /\ left /\ cs[k].row = R
    BY ONLY <1>6, <2>1, <2>2, <2>4, <2>7, <2>8 DEF Belongs
  <2>5. CASE token = "ucel" /\ upper /\ cs[k].column = C
    BY ONLY <1>7, <2>1, <2>3, <2>5, <2>7, <2>8 DEF Belongs
  <2>6. CASE token = "xcel" /\ left /\ upper
    BY ONLY <1>6, <1>7, <2>1, <2>6, <2>7, <2>8 DEF Belongs
  <2> QED BY <1>5, <2>4, <2>5, <2>6
<1>19. /\ ShapeInv(Placed(o, token), G, more) /\ PlacesInv(Placed(o, token), G, more)
       /\ CellsInv(G, more)
  BY <1>1, <1>8, <1>17, <1>18, PlaceKeeps DEF R, C
<1>20. OrderInv(more)
  <2>1. \A j \in DOMAIN more : more[j].row = cs[j].row /\ more[j].column = cs[j].column
    BY <1>15
  <2> QED BY <1>1, <1>15, <2>1 DEF OrderInv
<1> QED BY <1>8, <1>10, <1>15, <1>19, <1>20, <1>24 DEF ReadInv, more, R, C

LEMMA NewRowIs ==
  ASSUME NEW Y, NEW P \in Seq(Seq(Y))
  PROVE  /\ Append(P, <<>>) \in Seq(Seq(Y)) /\ Len(Append(P, <<>>)) = Len(P) + 1 /\ Len(P) \in Nat
         /\ DOMAIN Append(P, <<>>) = 1 .. Len(P) + 1 /\ DOMAIN P = 1 .. Len(P)
         /\ Append(P, <<>>)[Len(P) + 1] = <<>>
<1> DEFINE Z == Seq(Y)
<1>1. P \in Seq(Z) /\ <<>> \in Z
  OBVIOUS
<1> HIDE DEF Z
<1>2. /\ Append(P, <<>>) \in Seq(Z) /\ Len(Append(P, <<>>)) = Len(P) + 1 /\ Len(P) \in Nat
      /\ DOMAIN Append(P, <<>>) = 1 .. Len(P) + 1 /\ DOMAIN P = 1 .. Len(P)
      /\ Append(P, <<>>)[Len(P) + 1] = <<>>
  BY <1>1
<1> QED BY <1>2 DEF Z

LEMMA NewRowAt ==
  ASSUME NEW Y, NEW P \in Seq(Seq(Y)), NEW r \in DOMAIN P
  PROVE  Append(P, <<>>)[r] = P[r]
<1> DEFINE Z == Seq(Y)
<1>1. P \in Seq(Z) /\ <<>> \in Z
  OBVIOUS
<1> HIDE DEF Z
<1> QED BY <1>1

\* A row ends.
LEMMA NewLineKeeps ==
  ASSUME MaxRows \in Nat, MaxColumns \in Nat, NEW o, NEW g, NEW cs, ReadInv(o, g, cs),
         Len(g) <= MaxRows, g[Len(g)] # <<>>
  PROVE  ReadInv(Append(o, <<>>), Append(g, <<>>), cs)
<1> DEFINE R == Len(g)
           O == Append(o, <<>>)
           G == Append(g, <<>>)
<1>1. ShapeInv(o, g, cs) /\ PlacesInv(o, g, cs) /\ CellsInv(g, cs) /\ OrderInv(cs)
  BY DEF ReadInv
<1>2. g \in Seq(Seq(Nat))
  BY <1>1 DEF ShapeInv
<1>3. o \in Seq(Seq(Tokens))
  BY <1>1 DEF ShapeInv
<1>4. Len(o) = R
  BY <1>1 DEF ShapeInv
<1>5. R \in Nat \ {0} /\ DOMAIN g = 1 .. R /\ DOMAIN o = 1 .. R
  BY <1>1, ShapeIs
<1>6. /\ G \in Seq(Seq(Nat)) /\ Len(G) = R + 1 /\ DOMAIN G = 1 .. R + 1 /\ G[R + 1] = <<>>
  BY <1>2, NewRowIs
<1>7. /\ O \in Seq(Seq(Tokens)) /\ Len(O) = R + 1 /\ DOMAIN O = 1 .. R + 1 /\ O[R + 1] = <<>>
  <2>1. /\ O \in Seq(Seq(Tokens)) /\ Len(O) = Len(o) + 1 /\ DOMAIN O = 1 .. Len(o) + 1 /\ O[Len(o) + 1] = <<>>
    BY <1>3, NewRowIs
  <2> HIDE DEF O, R
  <2> QED BY <1>4, <2>1
<1>8. \A r \in DOMAIN g : G[r] = g[r]
  BY <1>2, NewRowAt
<1>9. \A r \in DOMAIN g : O[r] = o[r]
  <2>1. \A r \in DOMAIN o : O[r] = o[r]
    BY <1>3, NewRowAt
  <2> QED BY <1>5, <2>1
<1> HIDE DEF O, G
<1>10. R \in DOMAIN g /\ g[R] \in Seq(Nat) /\ g[R] # <<>>
  BY <1>2, <1>5
<1>11. Len(g[R]) >= 1 /\ Len(g[R]) \in Nat
  BY <1>10
<1>12. R <= MaxRows
  OBVIOUS
<1>13. \A r \in DOMAIN g : /\ Len(o[r]) = Len(g[r]) /\ Len(g[r]) <= MaxColumns /\ Len(g[r]) \in Nat
                           /\ (r < R => Len(g[r]) >= 1) /\ (r > MaxRows => Len(g[r]) = 0)
  BY <1>1, ShapeIs
<1> HIDE DEF R
<1>14. ShapeInv(O, G, cs)
  <2>1. ASSUME NEW r \in DOMAIN G
        PROVE  /\ Len(O[r]) = Len(G[r]) /\ Len(G[r]) <= MaxColumns
               /\ (r < Len(G) => Len(G[r]) >= 1) /\ (r > MaxRows => Len(G[r]) = 0)
    <3>1. CASE r = R + 1
      BY <1>6, <1>7, <3>1
    <3>2. CASE r # R + 1
      <4>1. r \in DOMAIN g /\ r <= R
        BY <1>5, <1>6, <3>2
      <4>2. G[r] = g[r] /\ O[r] = o[r]
        BY <1>8, <1>9, <4>1
      <4>3. Len(g[r]) >= 1 
        <5>1. CASE r = R
          BY <1>11, <5>1
        <5>2. CASE r # R
          BY <1>5, <1>6, <1>13, <4>1, <5>2
        <5> QED BY <5>1, <5>2
      <4>4. ~(r > MaxRows)
        BY <1>5, <1>6, <1>12, <4>1
      <4> QED BY <1>13, <4>1, <4>2, <4>3, <4>4
    <3> QED BY <3>1, <3>2
  <2>2. cs \in Seq(CellRecords)
    BY <1>1 DEF ShapeInv
  <2>3. Len(O) = Len(G) /\ Len(G) >= 1 /\ Len(G) <= MaxRows + 1
    BY <1>5, <1>6, <1>7, <1>12
  <2> QED BY <1>6, <1>7, <2>1, <2>2, <2>3 DEF ShapeInv
<1>15. PlacesInv(O, G, cs)
  <2> SUFFICES ASSUME NEW r \in DOMAIN G, NEW c \in DOMAIN G[r]
               PROVE  G[r][c] \in DOMAIN cs /\ Belongs(O[r][c], G, cs, G[r][c], r, c)
    BY DEF PlacesInv
  <2>1. r # R + 1
    BY <1>6
  <2>2. r \in DOMAIN g
    BY <1>5, <1>6, <2>1
  <2>3. G[r] = g[r] /\ O[r] = o[r]
    BY <1>8, <1>9, <2>2
  <2>4. g[r][c] \in DOMAIN cs /\ Belongs(o[r][c], g, cs, g[r][c], r, c)
    BY <1>1, <2>2, <2>3 DEF PlacesInv
  <2>5. o[r][c] = "ucel" => r - 1 \in DOMAIN g
    BY <1>1, <2>2, <2>3, Neighbours
  <2>6. o[r][c] = "ucel" => G[r - 1] = g[r - 1]
    BY <1>8, <2>5
  <2>7. Belongs(o[r][c], G, cs, g[r][c], r, c)
    BY <2>3, <2>4, <2>6 DEF Belongs
  <2> QED BY <2>3, <2>4, <2>7
<1>16. CellsInv(G, cs)
  <2> SUFFICES ASSUME NEW j \in DOMAIN cs
               PROVE  /\ cs[j].row \in DOMAIN G /\ cs[j].column \in DOMAIN G[cs[j].row]
                      /\ G[cs[j].row][cs[j].column] = j
                      /\ \E r \in DOMAIN G : \E c \in DOMAIN G[r] : G[r][c] = j /\ r = cs[j].bottom
                      /\ \E r \in DOMAIN G : \E c \in DOMAIN G[r] : G[r][c] = j /\ c = cs[j].right
    BY DEF CellsInv
  <2>1. \A r \in DOMAIN g : r \in DOMAIN G
    BY <1>5, <1>6
  <2>2. cs[j].row \in DOMAIN g /\ cs[j].column \in DOMAIN g[cs[j].row] /\ g[cs[j].row][cs[j].column] = j
    BY <1>1 DEF CellsInv
  <2>3. PICK r \in DOMAIN g : \E c \in DOMAIN g[r] : g[r][c] = j /\ r = cs[j].bottom
    BY <1>1 DEF CellsInv
  <2>4. PICK q \in DOMAIN g : \E c \in DOMAIN g[q] : g[q][c] = j /\ c = cs[j].right
    BY <1>1 DEF CellsInv
  <2>5. \E c \in DOMAIN G[r] : G[r][c] = j /\ r = cs[j].bottom
    BY <1>8, <2>3
  <2>6. \E c \in DOMAIN G[q] : G[q][c] = j /\ c = cs[j].right
    BY <1>8, <2>4
  <2> QED BY <1>8, <2>1, <2>2, <2>5, <2>6
<1> QED BY <1>1, <1>14, <1>15, <1>16 DEF ReadInv, O, G

LEMMA InitReads ==
  ASSUME MaxRows \in Nat, MaxColumns \in Nat
  PROVE  ReadInv(<< <<>> >>, << <<>> >>, <<>>)
<1>1. << <<>> >> \in Seq(Seq(Tokens)) /\ << <<>> >> \in Seq(Seq(Nat)) /\ <<>> \in Seq(CellRecords)
  <2>1. \A Y : << <<>> >> \in Seq(Seq(Y))
    <3> TAKE Y
    <3> DEFINE Z == Seq(Y)
    <3>1. <<>> \in Z
      OBVIOUS
    <3> HIDE DEF Z
    <3>2. << <<>> >> \in Seq(Z)
      BY <3>1
    <3> QED BY <3>2 DEF Z
  <2> QED BY <2>1
<1>2. Len(<< <<>> >>) = 1 /\ DOMAIN << <<>> >> = 1 .. 1 /\ << <<>> >>[1] = <<>>
  OBVIOUS
<1>3. DOMAIN <<>> = {} /\ Len(<<>>) = 0
  OBVIOUS
<1>4. \A r \in 1 .. 1 : r = 1
  OBVIOUS
<1> QED BY <1>1, <1>2, <1>3, <1>4 DEF ReadInv, ShapeInv, PlacesInv, CellsInv, OrderInv

-----------------------------------------------------------------------------
(* TableOtsl.  Tables that are cut into rectangles.                        *)

\* A table of h rows and w columns.
Table(t, h, w) ==
  /\ h \in Nat \ {0} /\ w \in Nat \ {0}
  /\ DOMAIN t = 1 .. h /\ Len(t) = h
  /\ \A r \in 1 .. h : DOMAIN t[r] = 1 .. w /\ Len(t[r]) = w /\ \A c \in 1 .. w : t[r][c] \in Tokens

LEMMA TableShape ==
  ASSUME NEW h \in Nat \ {0}, NEW w \in Nat \ {0}, NEW t \in [1 .. h -> [1 .. w -> Tokens]]
  PROVE  Table(t, h, w)
<1> DEFINE Z == [1 .. w -> Tokens]
<1>1. t \in [1 .. h -> Z]
  OBVIOUS
<1> HIDE DEF Z
<1>2. DOMAIN t = 1 .. h /\ Len(t) = h /\ \A r \in 1 .. h : t[r] \in Z
  BY <1>1
<1>3. ASSUME NEW s \in Z
      PROVE  DOMAIN s = 1 .. w /\ Len(s) = w /\ \A c \in 1 .. w : s[c] \in Tokens
  <2>1. s \in [1 .. w -> Tokens]
    BY DEF Z
  <2> QED BY <2>1
<1>4. \A r \in 1 .. h : DOMAIN t[r] = 1 .. w /\ Len(t[r]) = w /\ \A c \in 1 .. w : t[r][c] \in Tokens
  BY <1>2, <1>3
<1> QED BY <1>2, <1>4 DEF Table

LEMMA TilingTable ==
  ASSUME MaxRows \in Nat, MaxColumns \in Nat, NEW t \in Tilings
  PROVE  IsTiling(t) /\ \E h \in 1 .. MaxRows, w \in 1 .. MaxColumns : Table(t, h, w)
<1>1. PICK h \in 1 .. MaxRows, w \in 1 .. MaxColumns :
        t \in {u \in [1 .. h -> [1 .. w -> {"cell", "lcel", "ucel", "xcel"}]] : IsTiling(u)}
  BY DEF Tilings
<1>2. t \in [1 .. h -> [1 .. w -> Tokens]] /\ IsTiling(t)
  BY <1>1 DEF Tokens
<1>3. h \in Nat \ {0} /\ w \in Nat \ {0}
  OBVIOUS
<1>4. Table(t, h, w)
  BY <1>2, <1>3, TableShape
<1> QED BY <1>2, <1>4

\* How far a cell that begins at a place goes on to the right, and downwards.
Wide(t, w, a, b, n) ==
  /\ n \in 1 .. w - b + 1
  /\ \A c \in 1 .. n - 1 : t[a][b + c] = "lcel"
  /\ b + n <= w => t[a][b + n] # "lcel"
Deep(t, h, a, b, n) ==
  /\ n \in 1 .. h - a + 1
  /\ \A r \in 1 .. n - 1 : t[a + r][b] = "ucel"
  /\ a + n <= h => t[a + n][b] # "ucel"

LEMMA WideOnce ==
  ASSUME NEW h, NEW w, NEW t, Table(t, h, w), NEW a \in 1 .. h, NEW b \in 1 .. w
  PROVE  /\ \E n \in 1 .. w - b + 1 : Wide(t, w, a, b, n)
         /\ \A m, n : Wide(t, w, a, b, m) /\ Wide(t, w, a, b, n) => m = n
<1>1. w \in Nat /\ b \in Nat /\ b <= w
  BY DEF Table
<1>2. ASSUME NEW m, NEW n, Wide(t, w, a, b, m), Wide(t, w, a, b, n) PROVE ~(m < n)
  <2> SUFFICES ASSUME m < n PROVE FALSE
    OBVIOUS
  <2>1. m \in 1 .. n - 1 /\ b + m <= w
    BY <1>1, <1>2 DEF Wide
  <2> QED BY <1>2, <2>1 DEF Wide
<1>3. \A m, n : Wide(t, w, a, b, m) => m \in Nat
  BY <1>1 DEF Wide
<1>4. \E n \in 1 .. w - b + 1 : Wide(t, w, a, b, n)
  <2> DEFINE T == {n \in Nat : n >= 1 /\ (b + n <= w => t[a][b + n] # "lcel")}
  <2>1. w - b + 1 \in T
    BY <1>1
  <2>2. T \in SUBSET Nat /\ T # {}
    BY <2>1
  <2>3. PICK n \in T : \A m \in T : n <= m
    BY ONLY <2>2, LeastNatural
  <2>4. n <= w - b + 1 /\ n >= 1 /\ n \in Nat
    BY <2>1, <2>3
  <2>5. ASSUME NEW c \in 1 .. n - 1 PROVE t[a][b + c] = "lcel"
    <3>1. c \notin T /\ c \in Nat /\ c >= 1
      BY <2>3, <2>4
    <3> QED BY <3>1
  <2>6. Wide(t, w, a, b, n)
    BY <1>1, <2>3, <2>4, <2>5 DEF Wide
  <2>7. n \in 1 .. w - b + 1
    BY <1>1, <2>4
  <2> QED BY <2>6, <2>7
<1>5. ASSUME NEW m, NEW n, Wide(t, w, a, b, m), Wide(t, w, a, b, n) PROVE m = n
  <2>1. m \in Nat /\ n \in Nat
    BY ONLY <1>3, <1>5
  <2>2. ~(m < n) /\ ~(n < m)
    BY ONLY <1>2, <1>5
  <2> QED BY ONLY <2>1, <2>2
<1> QED BY <1>4, <1>5

LEMMA DeepOnce ==
  ASSUME NEW h, NEW w, NEW t, Table(t, h, w), NEW a \in 1 .. h, NEW b \in 1 .. w
  PROVE  /\ \E n \in 1 .. h - a + 1 : Deep(t, h, a, b, n)
         /\ \A m, n : Deep(t, h, a, b, m) /\ Deep(t, h, a, b, n) => m = n
<1>1. h \in Nat /\ a \in Nat /\ a <= h
  BY DEF Table
<1>2. ASSUME NEW m, NEW n, Deep(t, h, a, b, m), Deep(t, h, a, b, n) PROVE ~(m < n)
  <2> SUFFICES ASSUME m < n PROVE FALSE
    OBVIOUS
  <2>1. m \in 1 .. n - 1 /\ a + m <= h
    BY <1>1, <1>2 DEF Deep
  <2> QED BY <1>2, <2>1 DEF Deep
<1>3. \A m, n : Deep(t, h, a, b, m) => m \in Nat
  BY <1>1 DEF Deep
<1>4. \E n \in 1 .. h - a + 1 : Deep(t, h, a, b, n)
  <2> DEFINE T == {n \in Nat : n >= 1 /\ (a + n <= h => t[a + n][b] # "ucel")}
  <2>1. h - a + 1 \in T
    BY <1>1
  <2>2. T \in SUBSET Nat /\ T # {}
    BY <2>1
  <2>3. PICK n \in T : \A m \in T : n <= m
    BY ONLY <2>2, LeastNatural
  <2>4. n <= h - a + 1 /\ n >= 1 /\ n \in Nat
    BY <2>1, <2>3
  <2>5. ASSUME NEW r \in 1 .. n - 1 PROVE t[a + r][b] = "ucel"
    <3>1. r \notin T /\ r \in Nat /\ r >= 1
      BY <2>3, <2>4
    <3> QED BY <3>1
  <2>6. Deep(t, h, a, b, n)
    BY <1>1, <2>3, <2>4, <2>5 DEF Deep
  <2>7. n \in 1 .. h - a + 1
    BY <1>1, <2>4
  <2> QED BY <2>6, <2>7
<1>5. ASSUME NEW m, NEW n, Deep(t, h, a, b, m), Deep(t, h, a, b, n) PROVE m = n
  <2>1. m \in Nat /\ n \in Nat
    BY ONLY <1>3, <1>5
  <2>2. ~(m < n) /\ ~(n < m)
    BY ONLY <1>2, <1>5
  <2> QED BY ONLY <2>1, <2>2
<1> QED BY <1>4, <1>5

\* The rectangle of a cell, by its numbers.
LEMMA RectangleIs ==
  ASSUME NEW h, NEW w, NEW t, Table(t, h, w), NEW a \in 1 .. h, NEW b \in 1 .. w
  PROVE  /\ Wide(t, w, a, b, SpanRight(t, <<a, b>>)) /\ Deep(t, h, a, b, SpanDown(t, <<a, b>>))
         /\ \A r, c : Within(t, a, b, r, c) <=>
              r \in a .. a + SpanDown(t, <<a, b>>) - 1 /\ c \in b .. b + SpanRight(t, <<a, b>>) - 1
<1>1. Len(t) = h /\ Len(t[1]) = w
  BY DEF Table
<1>2. SpanRight(t, <<a, b>>) = CHOOSE n \in 1 .. w - b + 1 : Wide(t, w, a, b, n)
  <2>1. SpanRight(t, <<a, b>>) = CHOOSE n \in 1 .. w - b + 1 :
          /\ \A c \in 1 .. n - 1 : t[a][b + c] = "lcel"
          /\ b + n <= w => t[a][b + n] # "lcel"
    BY <1>1 DEF SpanRight
  <2> DEFINE P(n) == /\ \A c \in 1 .. n - 1 : t[a][b + c] = "lcel"
                     /\ b + n <= w => t[a][b + n] # "lcel"
  <2>2. \A n \in 1 .. w - b + 1 : P(n) <=> Wide(t, w, a, b, n)
    BY DEF Wide
  <2>3. (CHOOSE n \in 1 .. w - b + 1 : P(n)) = CHOOSE n \in 1 .. w - b + 1 : Wide(t, w, a, b, n)
    <3> HIDE DEF P
    <3> QED BY <2>2
  <2> QED BY <2>1, <2>3
<1>3. SpanDown(t, <<a, b>>) = CHOOSE n \in 1 .. h - a + 1 : Deep(t, h, a, b, n)
  <2>1. SpanDown(t, <<a, b>>) = CHOOSE n \in 1 .. h - a + 1 :
          /\ \A r \in 1 .. n - 1 : t[a + r][b] = "ucel"
          /\ a + n <= h => t[a + n][b] # "ucel"
    BY <1>1 DEF SpanDown
  <2> DEFINE P(n) == /\ \A r \in 1 .. n - 1 : t[a + r][b] = "ucel"
                     /\ a + n <= h => t[a + n][b] # "ucel"
  <2>2. \A n \in 1 .. h - a + 1 : P(n) <=> Deep(t, h, a, b, n)
    BY DEF Deep
  <2>3. (CHOOSE n \in 1 .. h - a + 1 : P(n)) = CHOOSE n \in 1 .. h - a + 1 : Deep(t, h, a, b, n)
    <3> HIDE DEF P
    <3> QED BY <2>2
  <2> QED BY <2>1, <2>3
<1>4. Wide(t, w, a, b, SpanRight(t, <<a, b>>))
  BY <1>2, WideOnce
<1>5. Deep(t, h, a, b, SpanDown(t, <<a, b>>))
  BY <1>3, DeepOnce
<1>6. \A r, c : Within(t, a, b, r, c) <=>
        r \in a .. a + SpanDown(t, <<a, b>>) - 1 /\ c \in b .. b + SpanRight(t, <<a, b>>) - 1
  BY DEF Within, RectangleAt
<1> QED BY <1>4, <1>5, <1>6

\* The cell that a place of a tiling belongs to.
Owns(t, a, b, r, c) ==
  /\ t[a][b] = "cell" /\ Within(t, a, b, r, c)
  /\ \A i \in DOMAIN t, j \in DOMAIN t[1] : t[i][j] = "cell" /\ Within(t, i, j, r, c) => i = a /\ j = b
Stays(t, a, b, r, c) ==
  \/ t[r][c] = "cell" /\ r = a /\ c = b
  \/ t[r][c] = "lcel" /\ r = a /\ b < c /\ Within(t, a, b, r, c - 1)
  \/ t[r][c] = "ucel" /\ c = b /\ a < r /\ Within(t, a, b, r - 1, c)
  \/ t[r][c] = "xcel" /\ a < r /\ b < c /\ Within(t, a, b, r, c - 1) /\ Within(t, a, b, r - 1, c)

LEMMA TilingOwner ==
  ASSUME NEW h, NEW w, NEW t, Table(t, h, w), IsTiling(t), NEW r \in 1 .. h, NEW c \in 1 .. w
  PROVE  \E a \in 1 .. h, b \in 1 .. w : Owns(t, a, b, r, c) /\ Stays(t, a, b, r, c)
<1> DEFINE places == (DOMAIN t) \X (DOMAIN t[1])
           first == {p \in places : t[p[1]][p[2]] = "cell"}
           q == <<r, c>>
<1>1. DOMAIN t = 1 .. h /\ DOMAIN t[1] = 1 .. w /\ h \in Nat \ {0} /\ w \in Nat \ {0}
  BY DEF Table
<1>2. q \in places
  BY <1>1
<1>3. PICK p \in first :
          /\ q \in RectangleAt(t, p)
          /\ \A o \in first \ {p} : q \notin RectangleAt(t, o)
          /\ t[q[1]][q[2]] = CASE q = p -> "cell"
                               [] q # p /\ q[1] = p[1] -> "lcel"
                               [] q # p /\ q[2] = p[2] -> "ucel"
                               [] OTHER -> "xcel"
  BY <1>2 DEF IsTiling
<1> DEFINE a == p[1]
           b == p[2]
<1>4. a \in 1 .. h /\ b \in 1 .. w /\ p = <<a, b>> /\ t[a][b] = "cell"
  BY <1>1
<1>5. Within(t, a, b, r, c)
  BY <1>3, <1>4 DEF Within
<1>6. ASSUME NEW i \in DOMAIN t, NEW j \in DOMAIN t[1], t[i][j] = "cell", Within(t, i, j, r, c)
      PROVE  i = a /\ j = b
  <2>1. <<i, j>> \in first
    BY <1>6
  <2>2. <<i, j>> = p
    BY <1>3, <1>6, <2>1 DEF Within
  <2> QED BY <2>2
<1>7. Owns(t, a, b, r, c)
  BY <1>4, <1>5, <1>6 DEF Owns
<1>8. \/ r = a /\ c = b /\ t[r][c] = "cell"
      \/ r = a /\ c # b /\ t[r][c] = "lcel"
      \/ r # a /\ c = b /\ t[r][c] = "ucel"
      \/ r # a /\ c # b /\ t[r][c] = "xcel"
  <2>1. q = p <=> r = a /\ c = b
    BY <1>4
  <2>2. q[1] = r /\ q[2] = c
    OBVIOUS
  <2> DEFINE token == t[q[1]][q[2]]
  <2>3. token = CASE q = p -> "cell"
                  [] q # p /\ q[1] = p[1] -> "lcel"
                  [] q # p /\ q[2] = p[2] -> "ucel"
                  [] OTHER -> "xcel"
    BY <1>3
  <2>4. token = t[r][c]
    BY <2>2
  <2> HIDE DEF token, q
  <2>5. CASE q = p
    BY <2>1, <2>3, <2>4, <2>5
  <2>6. CASE q # p /\ r = a
    <3>1. token = "lcel"
      BY <2>1, <2>2, <2>3, <2>6
    <3> QED BY <2>1, <2>4, <2>6, <3>1
  <2>7. CASE q # p /\ r # a /\ c = b
    <3>1. token = "ucel"
      BY <2>2, <2>3, <2>7
    <3> QED BY <2>4, <2>7, <3>1
  <2>8. CASE q # p /\ r # a /\ c # b
    <3>1. token = "xcel"
      BY <2>2, <2>3, <2>8
    <3> QED BY <2>4, <2>8, <3>1
  <2> QED BY <2>5, <2>6, <2>7, <2>8
<1> HIDE DEF a, b, places, first
<1>9. /\ Wide(t, w, a, b, SpanRight(t, <<a, b>>)) /\ Deep(t, h, a, b, SpanDown(t, <<a, b>>))
      /\ \A i, j : Within(t, a, b, i, j) <=>
           i \in a .. a + SpanDown(t, <<a, b>>) - 1 /\ j \in b .. b + SpanRight(t, <<a, b>>) - 1
  BY <1>4, RectangleIs
<1> DEFINE m == SpanDown(t, <<a, b>>)
           n == SpanRight(t, <<a, b>>)
<1>10. m \in Nat /\ n \in Nat /\ a \in Nat /\ b \in Nat /\ r \in Nat /\ c \in Nat
  BY <1>1, <1>4, <1>9 DEF Wide, Deep
<1> HIDE DEF m, n
<1>11. \A i, j : Within(t, a, b, i, j) <=> i \in a .. a + m - 1 /\ j \in b .. b + n - 1
  BY <1>9 DEF m, n
<1>12. a <= r /\ r <= a + m - 1 /\ b <= c /\ c <= b + n - 1
  BY <1>5, <1>10, <1>11
<1>13. ASSUME c # b PROVE b < c /\ Within(t, a, b, r, c - 1)
  BY <1>10, <1>11, <1>12, <1>13
<1>14. ASSUME r # a PROVE a < r /\ Within(t, a, b, r - 1, c)
  BY <1>10, <1>11, <1>12, <1>14
<1>15. Stays(t, a, b, r, c)
  BY <1>8, <1>13, <1>14 DEF Stays
<1> QED BY <1>4, <1>7, <1>15

\* The cell of a place that a tiling agrees on is where the tiling has its rectangle.
LEMMA FollowedOwner ==
  ASSUME MaxRows \in Nat, MaxColumns \in Nat, NEW o, NEW g, NEW cs,
         ReadInv(o, g, cs), FollowInv(o, g, cs), NEW t \in Tilings, Agrees(o, t),
         NEW r \in DOMAIN g, NEW c \in DOMAIN g[r], NEW a, NEW b, Owns(t, a, b, r, c)
  PROVE  g[r][c] \in DOMAIN cs /\ cs[g[r][c]].row = a /\ cs[g[r][c]].column = b
<1> DEFINE k == g[r][c]
           i == cs[k].row
           j == cs[k].column
<1>1. ShapeInv(o, g, cs) /\ PlacesInv(o, g, cs) /\ CellsInv(g, cs)
  BY DEF ReadInv
<1>2. k \in DOMAIN cs
  BY <1>1 DEF PlacesInv
<1>3. i \in DOMAIN g /\ j \in DOMAIN g[i] /\ g[i][j] = k
  BY <1>1, <1>2 DEF CellsInv
<1>4. o[i][j] = "cell"
  <2>1. Belongs(o[i][j], g, cs, g[i][j], i, j)
    BY <1>1, <1>3 DEF PlacesInv
  <2> QED BY <1>3, <2>1 DEF Belongs
<1>5. i \in DOMAIN o /\ j \in DOMAIN o[i]
  BY <1>1, <1>3, ShapeIs
<1>6. Within(t, i, j, r, c)
  BY DEF FollowInv
<1> HIDE DEF i, j, k
<1>7. i \in DOMAIN t /\ j \in DOMAIN t[i] /\ t[i][j] = "cell"
  BY <1>4, <1>5 DEF Agrees
<1>8. j \in DOMAIN t[1]
  <2>1. PICK h \in 1 .. MaxRows, w \in 1 .. MaxColumns : Table(t, h, w)
    BY TilingTable
  <2> QED BY <1>7, <2>1 DEF Table
<1>9. i = a /\ j = b
  BY <1>6, <1>7, <1>8 DEF Owns
<1> QED BY <1>2, <1>9 DEF i, j, k

-----------------------------------------------------------------------------
(* TableOtsl.  What is read goes on as such a table, or as none.           *)

LEMMA OwnsToo ==
  ASSUME NEW h, NEW w, NEW t, Table(t, h, w), IsTiling(t), NEW a \in 1 .. h, NEW b \in 1 .. w,
         NEW r \in 1 .. h, NEW c \in 1 .. w, t[a][b] = "cell", Within(t, a, b, r, c)
  PROVE  Owns(t, a, b, r, c)
<1>1. PICK i \in 1 .. h, j \in 1 .. w : Owns(t, i, j, r, c)
  BY TilingOwner
<1>2. a \in DOMAIN t /\ b \in DOMAIN t[1]
  BY DEF Table
<1>3. a = i /\ b = j
  BY <1>1, <1>2 DEF Owns
<1> QED BY <1>1, <1>3

\* The cell k begins at row a and column b.
Starts(cs, k, a, b) == k \in DOMAIN cs /\ cs[k].row = a /\ cs[k].column = b

LEMMA StartsOnce ==
  ASSUME NEW g, NEW cs, CellsInv(g, cs), NEW j, NEW k, NEW a, NEW b, Starts(cs, j, a, b), Starts(cs, k, a, b)
  PROVE  j = k
BY DEF CellsInv, Starts

\* What a tiling that agrees with what has been read says of the next place.
LEMMA NextToken ==
  ASSUME MaxRows \in Nat, MaxColumns \in Nat, NEW o, NEW g, NEW cs,
         ReadInv(o, g, cs), FollowInv(o, g, cs), NEW t \in Tilings, Agrees(o, t),
         NEW R, NEW C, R = Len(g), C = Len(g[R]) + 1, R \in DOMAIN t, C \in DOMAIN t[R]
  PROVE  \E a, b :
           LET left == C > 1 /\ Starts(cs, g[R][C - 1], a, b)
               upper == R > 1 /\ C <= Len(g[R - 1]) /\ Starts(cs, g[R - 1][C], a, b)
           IN  /\ Owns(t, a, b, R, C)
               /\ \/ t[R][C] = "cell" /\ R = a /\ C = b
                  \/ t[R][C] = "lcel" /\ R = a /\ left
                  \/ t[R][C] = "ucel" /\ C = b /\ upper
                  \/ t[R][C] = "xcel" /\ left /\ upper
<1>1. PICK h \in 1 .. MaxRows, w \in 1 .. MaxColumns : Table(t, h, w)
  BY TilingTable
<1>2. IsTiling(t)
  BY TilingTable
<1>3. DOMAIN t = 1 .. h /\ h \in Nat /\ w \in Nat
  BY <1>1 DEF Table
<1>4. R \in 1 .. h
  BY <1>3
<1>5. C \in 1 .. w
  BY <1>1, <1>4 DEF Table
<1>6. PICK a \in 1 .. h, b \in 1 .. w : Owns(t, a, b, R, C) /\ Stays(t, a, b, R, C)
  BY <1>1, <1>2, <1>4, <1>5, TilingOwner
<1>7. t[a][b] = "cell"
  BY <1>6 DEF Owns
<1>8. ShapeInv(o, g, cs)
  BY DEF ReadInv
<1>9. /\ R \in DOMAIN g /\ DOMAIN g = 1 .. R /\ R \in Nat /\ DOMAIN o = DOMAIN g /\ Len(o) = R
      /\ \A r \in DOMAIN g : DOMAIN g[r] = 1 .. Len(g[r]) /\ Len(g[r]) \in Nat /\ Len(o[r]) = Len(g[r])
  BY <1>8, ShapeIs
<1> DEFINE left == C > 1 /\ Starts(cs, g[R][C - 1], a, b)
           upper == R > 1 /\ C <= Len(g[R - 1]) /\ Starts(cs, g[R - 1][C], a, b)
<1>10. ASSUME b < C, Within(t, a, b, R, C - 1) PROVE left
  <2> DEFINE c == C - 1
  <2>1. C > 1 /\ c \in 1 .. w
    BY <1>3, <1>5, <1>10
  <2>2. c \in DOMAIN g[R]
    <3>1. DOMAIN g[R] = 1 .. Len(g[R]) /\ Len(g[R]) \in Nat
      BY <1>9
    <3> QED BY <2>1, <3>1
  <2>3. Within(t, a, b, R, c)
    BY <1>10
  <2> HIDE DEF c
  <2>4. Owns(t, a, b, R, c)
    BY <1>1, <1>2, <1>4, <1>7, <2>1, <2>3, OwnsToo
  <2>5. Starts(cs, g[R][c], a, b)
    BY <1>9, <2>2, <2>4, FollowedOwner DEF Starts
  <2> QED BY <2>1, <2>5 DEF c
<1>11. ASSUME a < R, Within(t, a, b, R - 1, C) PROVE upper
  <2> DEFINE r == R - 1
  <2>1. R > 1 /\ r \in 1 .. h /\ r < R /\ r \in DOMAIN g
    BY <1>3, <1>4, <1>9, <1>11
  <2>2. Within(t, a, b, r, C)
    BY <1>11
  <2> HIDE DEF r
  <2>3. Owns(t, a, b, r, C)
    BY <1>1, <1>2, <1>5, <1>7, <2>1, <2>2, OwnsToo
  <2>4. Len(o[r]) = Len(t[1])
    BY <1>9, <2>1 DEF Agrees
  <2>5. Len(t[1]) = w
    BY <1>1 DEF Table
  <2>6. Len(g[r]) = w
    BY <1>9, <2>1, <2>4, <2>5
  <2>7. C <= Len(g[r]) /\ C \in DOMAIN g[r]
    BY <1>5, <1>9, <2>1, <2>6
  <2>8. Starts(cs, g[r][C], a, b)
    BY <2>1, <2>3, <2>7, FollowedOwner DEF Starts
  <2> QED BY <2>1, <2>7, <2>8 DEF r
<1>12. \/ t[R][C] = "cell" /\ R = a /\ C = b
       \/ t[R][C] = "lcel" /\ R = a /\ left
       \/ t[R][C] = "ucel" /\ C = b /\ upper
       \/ t[R][C] = "xcel" /\ left /\ upper
  <2> HIDE DEF left, upper
  <2> QED BY <1>6, <1>10, <1>11 DEF Stays
<1> QED BY <1>6, <1>12

\* The token that a tiling goes on with is one that table_to_html() takes.
LEMMA TilingGoes ==
  ASSUME MaxRows \in Nat, MaxColumns \in Nat, NEW o, NEW g, NEW cs,
         ReadInv(o, g, cs), FollowInv(o, g, cs), NEW t \in Tilings, Agrees(o, t),
         NEW R, NEW C, R = Len(g), C = Len(g[R]) + 1, R \in DOMAIN t, C \in DOMAIN t[R],
         t[R][C] # "cell"
  PROVE  \E k : Goes(t[R][C], g, cs, k)
<1>1. PICK a, b :
           LET left == C > 1 /\ Starts(cs, g[R][C - 1], a, b)
               upper == R > 1 /\ C <= Len(g[R - 1]) /\ Starts(cs, g[R - 1][C], a, b)
           IN  /\ Owns(t, a, b, R, C)
               /\ \/ t[R][C] = "cell" /\ R = a /\ C = b
                  \/ t[R][C] = "lcel" /\ R = a /\ left
                  \/ t[R][C] = "ucel" /\ C = b /\ upper
                  \/ t[R][C] = "xcel" /\ left /\ upper
  BY NextToken
<1> DEFINE left == C > 1 /\ Starts(cs, g[R][C - 1], a, b)
           upper == R > 1 /\ C <= Len(g[R - 1]) /\ Starts(cs, g[R - 1][C], a, b)
<1>2. CASE t[R][C] = "lcel" /\ R = a /\ left
  <2>1. Goes(t[R][C], g, cs, g[R][C - 1])
    BY <1>2 DEF Goes, Starts
  <2> QED BY <2>1
<1>3. CASE t[R][C] = "ucel" /\ C = b /\ upper
  <2>1. Goes(t[R][C], g, cs, g[R - 1][C])
    BY <1>3 DEF Goes, Starts
  <2> QED BY <2>1
<1>4. CASE t[R][C] = "xcel" /\ left /\ upper
  <2>1. CellsInv(g, cs)
    BY DEF ReadInv
  <2>2. g[R][C - 1] = g[R - 1][C]
    BY <1>4, <2>1, StartsOnce
  <2>3. Goes(t[R][C], g, cs, g[R][C - 1])
    BY <1>4, <2>2 DEF Goes
  <2> QED BY <2>3
<1> QED BY <1>1, <1>2, <1>3, <1>4

\* Agreeing with one more token.
LEMMA AgreesPlaced ==
  ASSUME MaxRows \in Nat, MaxColumns \in Nat, NEW o, NEW g, NEW cs, ReadInv(o, g, cs),
         NEW token \in Tokens, NEW t, Agrees(Placed(o, token), t)
  PROVE  LET R == Len(g)
             C == Len(g[R]) + 1
         IN  Agrees(o, t) /\ R \in DOMAIN t /\ C \in DOMAIN t[R] /\ t[R][C] = token
<1> DEFINE R == Len(g)
           C == Len(g[R]) + 1
           O == Placed(o, token)
           G == Placed(g, 0)
<1>1. ShapeInv(o, g, cs) /\ 0 \in Nat
  BY DEF ReadInv
<1>2. /\ Len(O) = R /\ DOMAIN O = DOMAIN g /\ R \in DOMAIN g /\ C \in DOMAIN O[R] /\ O[R][C] = token
  BY <1>1, PlacesThen
<1>3. \A r \in DOMAIN g : r # R => O[r] = o[r]
  BY <1>1, PlacesThen
<1>4. \A r \in DOMAIN g : \A c \in DOMAIN g[r] : c \in DOMAIN O[r] /\ O[r][c] = o[r][c]
  BY <1>1, PlacesThen
<1>5. /\ DOMAIN o = DOMAIN g /\ Len(o) = R /\ DOMAIN g = 1 .. R /\ R \in Nat
      /\ \A r \in DOMAIN g : DOMAIN o[r] = DOMAIN g[r]
  BY <1>1, ShapeIs
<1> HIDE DEF O, R, C
<1>6. R \in DOMAIN t /\ C \in DOMAIN t[R] /\ t[R][C] = token
  BY <1>2 DEF Agrees, O
<1>7. \A r \in DOMAIN o : \A c \in DOMAIN o[r] : r \in DOMAIN t /\ c \in DOMAIN t[r] /\ o[r][c] = t[r][c]
  <2> SUFFICES ASSUME NEW r \in DOMAIN o, NEW c \in DOMAIN o[r]
               PROVE  r \in DOMAIN t /\ c \in DOMAIN t[r] /\ o[r][c] = t[r][c]
    OBVIOUS
  <2>1. r \in DOMAIN O /\ c \in DOMAIN O[r] /\ O[r][c] = o[r][c]
    BY <1>2, <1>4, <1>5
  <2> QED BY <2>1 DEF Agrees, O
<1>8. \A r \in DOMAIN o : r < Len(o) => r \in DOMAIN t /\ Len(o[r]) = Len(t[1])
  <2> SUFFICES ASSUME NEW r \in DOMAIN o, r < Len(o) PROVE r \in DOMAIN t /\ Len(o[r]) = Len(t[1])
    OBVIOUS
  <2>1. r \in DOMAIN O /\ r < Len(O) /\ O[r] = o[r]
    BY <1>2, <1>3, <1>5
  <2> QED BY <2>1 DEF Agrees, O
<1> QED BY <1>6, <1>7, <1>8 DEF Agrees, R, C

LEMMA FollowPlace ==
  ASSUME MaxRows \in Nat, MaxColumns \in Nat, NEW o, NEW g, NEW cs,
         ReadInv(o, g, cs), FollowInv(o, g, cs),
         NEW token \in Tokens, NEW k \in Nat, NEW more, Later(cs, more), k \in DOMAIN more,
         \/ token = "cell" /\ more[k].row = Len(g) /\ more[k].column = Len(g[Len(g)]) + 1
         \/ Goes(token, g, cs, k)
  PROVE  FollowInv(Placed(o, token), Placed(g, k), more)
<1> DEFINE R == Len(g)
           C == Len(g[R]) + 1
           O == Placed(o, token)
           G == Placed(g, k)
<1>1. ShapeInv(o, g, cs) /\ PlacesInv(o, g, cs)
  BY DEF ReadInv
<1>2. DOMAIN G = DOMAIN g /\ G[R][C] = k
  BY <1>1, PlacesThen
<1>3. \A r \in DOMAIN g : \A c \in DOMAIN g[r] : G[r][c] = g[r][c]
  BY <1>1, PlacesThen
<1>4. \A r \in DOMAIN g : \A c \in DOMAIN G[r] : c \in DOMAIN g[r] \/ (r = R /\ c = C)
  BY <1>1, PlacesThen
<1> SUFFICES ASSUME NEW t \in Tilings, Agrees(O, t), NEW r \in DOMAIN G, NEW c \in DOMAIN G[r]
             PROVE  Within(t, more[G[r][c]].row, more[G[r][c]].column, r, c)
  BY DEF FollowInv
<1>5. Agrees(o, t) /\ R \in DOMAIN t /\ C \in DOMAIN t[R] /\ t[R][C] = token
  BY AgreesPlaced
<1>6. ASSUME c \in DOMAIN g[r] PROVE Within(t, more[G[r][c]].row, more[G[r][c]].column, r, c)
  <2>1. g[r][c] \in DOMAIN cs
    BY <1>1, <1>2, <1>6 DEF PlacesInv
  <2>2. Within(t, cs[g[r][c]].row, cs[g[r][c]].column, r, c)
    BY <1>2, <1>5, <1>6 DEF FollowInv
  <2> QED BY <1>2, <1>3, <1>6, <2>1, <2>2 DEF Later
<1>7. ASSUME r = R, c = C PROVE Within(t, more[G[r][c]].row, more[G[r][c]].column, r, c)
  <2>1. PICK a, b :
           LET left == C > 1 /\ Starts(cs, g[R][C - 1], a, b)
               upper == R > 1 /\ C <= Len(g[R - 1]) /\ Starts(cs, g[R - 1][C], a, b)
           IN  /\ Owns(t, a, b, R, C)
               /\ \/ t[R][C] = "cell" /\ R = a /\ C = b
                  \/ t[R][C] = "lcel" /\ R = a /\ left
                  \/ t[R][C] = "ucel" /\ C = b /\ upper
                  \/ t[R][C] = "xcel" /\ left /\ upper
    BY <1>5, NextToken
  <2>2. Within(t, a, b, R, C)
    BY <2>1 DEF Owns
  <2>3. more[k].row = a /\ more[k].column = b
    <3>1. CASE token = "cell"
      <4>1. R = a /\ C = b
        BY <1>5, <2>1, <3>1
      <4>2. more[k].row = R /\ more[k].column = C
        BY <3>1 DEF Goes
      <4> QED BY <4>1, <4>2
    <3>2. CASE token # "cell"
      <4>1. Goes(token, g, cs, k)
        BY <3>2
      <4>2. Starts(cs, k, a, b)
        BY <1>5, <2>1, <4>1 DEF Goes
      <4> QED BY <4>2 DEF Starts, Later
    <3> QED BY <3>1, <3>2
  <2> QED BY <1>2, <1>7, <2>2, <2>3
<1> QED BY <1>2, <1>4, <1>6, <1>7

LEMMA FollowNewLine ==
  ASSUME MaxRows \in Nat, MaxColumns \in Nat, NEW o, NEW g, NEW cs,
         ReadInv(o, g, cs), FollowInv(o, g, cs)
  PROVE  FollowInv(Append(o, <<>>), Append(g, <<>>), cs)
<1> DEFINE R == Len(g)
           O == Append(o, <<>>)
           G == Append(g, <<>>)
<1>1. ShapeInv(o, g, cs)
  BY DEF ReadInv
<1>2. g \in Seq(Seq(Nat))
  BY <1>1 DEF ShapeInv
<1>3. o \in Seq(Seq(Tokens))
  BY <1>1 DEF ShapeInv
<1>4. Len(o) = R
  BY <1>1 DEF ShapeInv
<1>5. R \in Nat \ {0} /\ DOMAIN g = 1 .. R /\ DOMAIN o = 1 .. R
  BY <1>1, ShapeIs
<1>6. DOMAIN G = 1 .. R + 1 /\ G[R + 1] = <<>>
  BY <1>2, NewRowIs
<1>7. Len(O) = Len(o) + 1 /\ DOMAIN O = 1 .. Len(o) + 1
  BY <1>3, NewRowIs
<1>8. \A r \in DOMAIN g : G[r] = g[r]
  BY <1>2, NewRowAt
<1>9. \A r \in DOMAIN o : O[r] = o[r]
  BY <1>3, NewRowAt
<1> HIDE DEF O, G
<1> SUFFICES ASSUME NEW t \in Tilings, Agrees(O, t), NEW r \in DOMAIN G, NEW c \in DOMAIN G[r]
             PROVE  Within(t, cs[G[r][c]].row, cs[G[r][c]].column, r, c)
  BY DEF FollowInv, O, G
<1>10. r # R + 1
  BY <1>6
<1>11. r \in DOMAIN g /\ G[r] = g[r]
  BY <1>5, <1>6, <1>8, <1>10
<1> HIDE DEF R
<1>12. \A i \in DOMAIN o : i \in DOMAIN O /\ i < Len(O) /\ O[i] = o[i]
  BY <1>4, <1>5, <1>7, <1>9
<1>13. Agrees(o, t)
  <2>1. \A i \in DOMAIN o : \A j \in DOMAIN o[i] : i \in DOMAIN t /\ j \in DOMAIN t[i] /\ o[i][j] = t[i][j]
    BY <1>12 DEF Agrees
  <2>2. \A i \in DOMAIN o : i < Len(o) => i \in DOMAIN t /\ Len(o[i]) = Len(t[1])
    BY <1>12 DEF Agrees
  <2> QED BY <2>1, <2>2 DEF Agrees
<1> QED BY <1>11, <1>13 DEF FollowInv

LEMMA InitFollows == FollowInv(<< <<>> >>, << <<>> >>, <<>>)
<1>1. DOMAIN << <<>> >> = 1 .. 1 /\ << <<>> >>[1] = <<>> /\ DOMAIN <<>> = {}
  OBVIOUS
<1>2. \A r \in 1 .. 1 : r = 1
  OBVIOUS
<1> QED BY <1>1, <1>2 DEF FollowInv

\* No tiling begins with what is read and goes on with a token that continues nothing.
LEMMA NoTilingGoes ==
  ASSUME MaxRows \in Nat, MaxColumns \in Nat, NEW o, NEW g, NEW cs,
         ReadInv(o, g, cs), FollowInv(o, g, cs),
         NEW token \in {"lcel", "ucel", "xcel"}, \A k : ~Goes(token, g, cs, k),
         NEW t \in Tilings, NEW O, O = Placed(o, token),
         Len(t) >= Len(O), \A r \in 1 .. Len(O) : IsPrefix(O[r], t[r]),
         \A r \in 1 .. Len(O) - 1 : Len(O[r]) = Len(t[r])
  PROVE  FALSE
<1> DEFINE R == Len(g)
           C == Len(g[R]) + 1
<1>1. PICK h \in 1 .. MaxRows, w \in 1 .. MaxColumns : Table(t, h, w)
  BY TilingTable
<1>2. /\ h \in Nat /\ w \in Nat /\ Len(t) = h /\ DOMAIN t = 1 .. h /\ 1 \in 1 .. h
      /\ \A r \in 1 .. h : DOMAIN t[r] = 1 .. w /\ Len(t[r]) = w
  BY <1>1 DEF Table
<1>3. ShapeInv(o, g, cs) /\ token \in Tokens /\ token # "cell" /\ 0 \in Nat
  BY DEF ReadInv, Tokens
<1>4. O \in Seq(Seq(Tokens)) /\ Len(O) = R
  BY <1>3, PlacesThen
<1>5. R \in Nat \ {0} /\ DOMAIN g = 1 .. R /\ DOMAIN O = 1 .. R
  BY <1>3, <1>4, ShapeIs
<1>6. ASSUME NEW r \in DOMAIN O
      PROVE  /\ r \in DOMAIN t /\ DOMAIN O[r] = 1 .. Len(O[r]) /\ Len(O[r]) \in Nat /\ Len(O[r]) <= w
             /\ \A c \in DOMAIN O[r] : c \in DOMAIN t[r] /\ O[r][c] = t[r][c]
  <2>1. r \in 1 .. h /\ r \in 1 .. Len(O)
    BY <1>2, <1>4, <1>5
  <2> DEFINE s == O[r]
             u == t[r]
  <2>2. s \in Seq(Tokens) /\ DOMAIN u = 1 .. w /\ Len(u) = w
    BY <1>2, <1>4, <2>1
  <2>3. IsPrefix(s, u)
    BY <2>1
  <2> HIDE DEF s, u
  <2>4. Len(s) <= w /\ SubSeq(s, 1, Len(s)) = SubSeq(u, 1, Len(s)) /\ DOMAIN s = 1 .. Len(s) /\ Len(s) \in Nat
    BY <2>2, <2>3 DEF IsPrefix
  <2>5. ASSUME NEW c \in 1 .. Len(s) PROVE s[c] = u[c]
    <3>1. SubSeq(s, 1, Len(s))[c] = s[c]
      BY <2>4
    <3>2. SubSeq(u, 1, Len(s))[c] = u[c]
      BY <2>4
    <3> QED BY <2>4, <3>1, <3>2
  <2>6. \A c \in DOMAIN s : c \in DOMAIN u /\ s[c] = u[c]
    BY <1>2, <2>2, <2>4, <2>5
  <2> QED BY <1>2, <2>1, <2>4, <2>6 DEF s, u
<1>7. Agrees(O, t)
  <2>1. ASSUME NEW r \in DOMAIN O, r < Len(O) PROVE r \in DOMAIN t /\ Len(O[r]) = Len(t[1])
    <3>1. r \in 1 .. Len(O) - 1 /\ r \in DOMAIN t /\ r \in 1 .. h
      BY <1>2, <1>4, <1>5, <1>6, <2>1
    <3> QED BY <1>2, <3>1
  <2> QED BY <1>6, <2>1 DEF Agrees
<1>8. Agrees(o, t) /\ R \in DOMAIN t /\ C \in DOMAIN t[R] /\ t[R][C] = token
  BY <1>3, <1>7, AgreesPlaced
<1>9. \E k : Goes(token, g, cs, k)
  BY <1>3, <1>8, TilingGoes
<1> QED BY <1>9

-----------------------------------------------------------------------------
(* TableOtsl.  The text ends.                                              *)

LEMMA FrontIs ==
  ASSUME NEW Y, NEW P \in Seq(Seq(Y)), Len(P) > 1
  PROVE  /\ Front(P) \in Seq(Seq(Y)) /\ Len(Front(P)) = Len(P) - 1 /\ Len(P) \in Nat
         /\ DOMAIN Front(P) = 1 .. Len(P) - 1 /\ DOMAIN P = 1 .. Len(P)
<1> DEFINE Z == Seq(Y)
<1>1. P \in Seq(Z) /\ Len(P) > 1
  OBVIOUS
<1> HIDE DEF Z
<1>2. /\ Front(P) \in Seq(Z) /\ Len(Front(P)) = Len(P) - 1 /\ Len(P) \in Nat
      /\ DOMAIN Front(P) = 1 .. Len(P) - 1 /\ DOMAIN P = 1 .. Len(P)
  BY <1>1 DEF Front
<1> QED BY <1>2 DEF Z

LEMMA FrontAt ==
  ASSUME NEW Y, NEW P \in Seq(Seq(Y)), Len(P) > 1, NEW r \in 1 .. Len(P) - 1
  PROVE  Front(P)[r] = P[r]
<1> DEFINE Z == Seq(Y)
<1>1. P \in Seq(Z) /\ Len(P) > 1
  OBVIOUS
<1> HIDE DEF Z
<1> QED BY <1>1 DEF Front

\* A text that has ended: rows that each have a place.
FullInv(o, g, cs) ==
  ReadInv(o, g, cs) /\ Len(g) <= MaxRows /\ \A r \in DOMAIN g : Len(g[r]) >= 1
\* The rows of what has been read, of which the last may be empty and is dropped.
RowsOf(o, g, O, G) ==
  /\ \A r \in DOMAIN G : r \in DOMAIN g /\ G[r] = g[r] /\ O[r] = o[r]
  /\ \A r \in DOMAIN g : r \in DOMAIN G \/ (r = Len(g) /\ Len(g[r]) = 0)

LEMMA EndKeeps ==
  ASSUME MaxRows \in Nat, MaxColumns \in Nat, NEW o, NEW g, NEW cs, ReadInv(o, g, cs), cs # <<>>
  PROVE  FullInv(Rows(o), Rows(g), cs) /\ RowsOf(o, g, Rows(o), Rows(g))
<1> DEFINE R == Len(g)
           O == Rows(o)
           G == Rows(g)
<1>1. ShapeInv(o, g, cs) /\ PlacesInv(o, g, cs) /\ CellsInv(g, cs) /\ OrderInv(cs)
  BY DEF ReadInv
<1>2. g \in Seq(Seq(Nat))
  BY <1>1 DEF ShapeInv
<1>3. o \in Seq(Seq(Tokens))
  BY <1>1 DEF ShapeInv
<1>4. Len(o) = R /\ R <= MaxRows + 1
  BY <1>1 DEF ShapeInv
<1>5. R \in Nat \ {0} /\ DOMAIN g = 1 .. R /\ DOMAIN o = 1 .. R
  BY <1>1, ShapeIs
<1>6. \A r \in DOMAIN g : /\ Len(o[r]) = Len(g[r]) /\ Len(g[r]) <= MaxColumns /\ Len(g[r]) \in Nat
                          /\ DOMAIN g[r] = 1 .. Len(g[r])
                          /\ (r < R => Len(g[r]) >= 1) /\ (r > MaxRows => Len(g[r]) = 0)
  BY <1>1, ShapeIs
<1>7. \A r \in DOMAIN g : g[r] \in Seq(Nat)
  BY <1>2
<1>8. \A r \in DOMAIN o : o[r] \in Seq(Tokens)
  BY <1>3
<1>9. R \in DOMAIN g /\ R \in DOMAIN o
  BY <1>5
<1>10. g[R] = <<>> <=> Len(g[R]) = 0
  BY <1>7, <1>9
<1>11. o[R] = <<>> <=> Len(o[R]) = 0
  BY <1>8, <1>9
<1>12. CASE g[R] # <<>>
  <2>1. G = g
    BY <1>12 DEF Rows, Last
  <2>2. O = o
    <3>1. o[Len(o)] # <<>>
      BY <1>4, <1>6, <1>9, <1>10, <1>11, <1>12
    <3> QED BY <3>1 DEF Rows, Last
  <2>3. \A r \in DOMAIN g : Len(g[r]) >= 1
    <3> SUFFICES ASSUME NEW r \in DOMAIN g PROVE Len(g[r]) >= 1
      OBVIOUS
    <3>1. CASE r = R
      BY <1>6, <1>9, <1>10, <1>12, <3>1
    <3>2. CASE r # R
      BY <1>5, <1>6, <3>2
    <3> QED BY <3>1, <3>2
  <2>4. R <= MaxRows
    BY <1>5, <1>6, <1>9, <1>10, <1>12
  <2>5. RowsOf(o, g, O, G)
    BY <2>1, <2>2 DEF RowsOf
  <2> QED BY <2>1, <2>2, <2>3, <2>4, <2>5 DEF FullInv
<1>13. CASE g[R] = <<>>
  <2>1. R > 1
    <3>1. cs \in Seq(CellRecords)
      BY <1>1 DEF ShapeInv
    <3>2. 1 \in DOMAIN cs
      BY <3>1
    <3>3. cs[1].row \in DOMAIN g /\ cs[1].column \in DOMAIN g[cs[1].row]
      BY <1>1, <3>2 DEF CellsInv
    <3>4. cs[1].row # R
      BY <1>13, <3>3
    <3> QED BY <1>5, <3>3, <3>4
  <2> DEFINE Q == R - 1
  <2>2. Q \in Nat \ {0} /\ Q < R /\ Q <= MaxRows /\ R = Q + 1
    BY <1>4, <1>5, <2>1
  <2>3. G = Front(g)
    BY <1>13 DEF Rows, Last
  <2>4. O = Front(o)
    <3>1. o[Len(o)] = <<>>
      BY <1>4, <1>6, <1>9, <1>10, <1>11, <1>13
    <3> QED BY <3>1 DEF Rows, Last
  <2>5. G \in Seq(Seq(Nat)) /\ Len(G) = Q /\ DOMAIN G = 1 .. Q
    BY <1>2, <2>1, <2>3, FrontIs
  <2>6. O \in Seq(Seq(Tokens)) /\ Len(O) = Q /\ DOMAIN O = 1 .. Q
    <3>1. Len(o) > 1
      BY <1>4, <2>1
    <3>2. Front(o) \in Seq(Seq(Tokens)) /\ Len(Front(o)) = Len(o) - 1 /\ DOMAIN Front(o) = 1 .. Len(o) - 1
      BY <1>3, <3>1, FrontIs
    <3> HIDE DEF O, R
    <3> QED BY <1>4, <2>4, <3>2
  <2>7. \A r \in 1 .. Q : G[r] = g[r]
    BY <1>2, <2>1, <2>3, FrontAt
  <2>8. \A r \in 1 .. Q : O[r] = o[r]
    <3>1. Len(o) > 1
      BY <1>4, <2>1
    <3>2. \A r \in 1 .. Len(o) - 1 : Front(o)[r] = o[r]
      BY <1>3, <3>1, FrontAt
    <3> HIDE DEF O, R
    <3> QED BY <1>4, <2>4, <3>2
  <2> HIDE DEF O, G, R, Q
  <2>9. \A r \in 1 .. Q : r \in DOMAIN g /\ r < R /\ r # R
    BY <1>5, <2>2
  <2>10. \A r \in DOMAIN g : r \in 1 .. Q \/ r = R
    BY <1>5, <2>2
  <2>11. \A r \in 1 .. Q : Len(G[r]) >= 1 /\ Len(O[r]) = Len(G[r]) /\ Len(G[r]) <= MaxColumns /\ ~(r > MaxRows)
    <3> SUFFICES ASSUME NEW r \in 1 .. Q
                 PROVE Len(G[r]) >= 1 /\ Len(O[r]) = Len(G[r]) /\ Len(G[r]) <= MaxColumns /\ ~(r > MaxRows)
      OBVIOUS
    <3>1. G[r] = g[r] /\ O[r] = o[r] /\ r \in DOMAIN g /\ r < R
      BY <2>7, <2>8, <2>9
    <3>2. ~(r > MaxRows)
      BY <2>2
    <3> QED BY <1>6, <3>1, <3>2
  <2>12. ShapeInv(O, G, cs)
    <3>1. cs \in Seq(CellRecords)
      BY <1>1 DEF ShapeInv
    <3>2. Len(G) >= 1 /\ Len(G) <= MaxRows + 1 /\ Len(O) = Len(G)
      BY <2>2, <2>5, <2>6
    <3>3. \A r \in DOMAIN G : /\ Len(O[r]) = Len(G[r]) /\ Len(G[r]) <= MaxColumns
                              /\ (r < Len(G) => Len(G[r]) >= 1) /\ (r > MaxRows => Len(G[r]) = 0)
      BY <2>5, <2>11
    <3> QED BY <2>5, <2>6, <3>1, <3>2, <3>3 DEF ShapeInv
  <2>13. DOMAIN g[R] = {}
    BY <1>13
  <2>14. PlacesInv(O, G, cs)
    <3> SUFFICES ASSUME NEW r \in DOMAIN G, NEW c \in DOMAIN G[r]
                 PROVE  G[r][c] \in DOMAIN cs /\ Belongs(O[r][c], G, cs, G[r][c], r, c)
      BY DEF PlacesInv
    <3>1. r \in DOMAIN g /\ G[r] = g[r] /\ O[r] = o[r]
      BY <2>5, <2>7, <2>8, <2>9
    <3>2. g[r][c] \in DOMAIN cs /\ Belongs(o[r][c], g, cs, g[r][c], r, c)
      BY <1>1, <3>1 DEF PlacesInv
    <3>3. o[r][c] = "ucel" => r - 1 \in DOMAIN g
      BY <1>1, <3>1, Neighbours
    <3>4. o[r][c] = "ucel" => G[r - 1] = g[r - 1]
      <4>1. SUFFICES ASSUME r - 1 \in DOMAIN g PROVE G[r - 1] = g[r - 1]
        BY <3>3
      <4>2. r - 1 \in 1 .. Q
        BY <1>5, <2>2, <2>5, <4>1
      <4> QED BY <2>7, <4>2
    <3>5. Belongs(o[r][c], G, cs, g[r][c], r, c)
      BY <3>1, <3>2, <3>4 DEF Belongs
    <3> QED BY <3>1, <3>2, <3>5
  <2>15. CellsInv(G, cs)
    <3> SUFFICES ASSUME NEW j \in DOMAIN cs
                 PROVE  /\ cs[j].row \in DOMAIN G /\ cs[j].column \in DOMAIN G[cs[j].row]
                        /\ G[cs[j].row][cs[j].column] = j
                        /\ \E r \in DOMAIN G : \E c \in DOMAIN G[r] : G[r][c] = j /\ r = cs[j].bottom
                        /\ \E r \in DOMAIN G : \E c \in DOMAIN G[r] : G[r][c] = j /\ c = cs[j].right
      BY DEF CellsInv
    <3>1. \A r \in DOMAIN g : DOMAIN g[r] # {} => r \in DOMAIN G /\ G[r] = g[r]
      BY <2>5, <2>7, <2>10, <2>13
    <3>2. cs[j].row \in DOMAIN g /\ cs[j].column \in DOMAIN g[cs[j].row] /\ g[cs[j].row][cs[j].column] = j
      BY <1>1 DEF CellsInv
    <3>3. PICK r \in DOMAIN g : \E c \in DOMAIN g[r] : g[r][c] = j /\ r = cs[j].bottom
      BY <1>1 DEF CellsInv
    <3>4. PICK q \in DOMAIN g : \E c \in DOMAIN g[q] : g[q][c] = j /\ c = cs[j].right
      BY <1>1 DEF CellsInv
    <3>5. r \in DOMAIN G /\ \E c \in DOMAIN G[r] : G[r][c] = j /\ r = cs[j].bottom
      BY <3>1, <3>3
    <3>6. q \in DOMAIN G /\ \E c \in DOMAIN G[q] : G[q][c] = j /\ c = cs[j].right
      BY <3>1, <3>4
    <3>7. cs[j].row \in DOMAIN G /\ G[cs[j].row] = g[cs[j].row]
      BY <3>1, <3>2
    <3> QED BY <3>2, <3>5, <3>6, <3>7
  <2>16. RowsOf(o, g, O, G)
    <3>1. \A r \in DOMAIN G : r \in DOMAIN g /\ G[r] = g[r] /\ O[r] = o[r]
      BY <2>5, <2>7, <2>8, <2>9
    <3>2. \A r \in DOMAIN g : r \in DOMAIN G \/ (r = Len(g) /\ Len(g[r]) = 0)
      BY <1>10, <1>13, <2>5, <2>10 DEF R
    <3> QED BY <3>1, <3>2 DEF RowsOf
  <2>17. FullInv(O, G, cs)
    BY <1>1, <2>2, <2>5, <2>11, <2>12, <2>14, <2>15 DEF FullInv, ReadInv
  <2> QED BY <2>16, <2>17 DEF O, G
<1> QED BY <1>12, <1>13

\* Every cell has every place between its first and its last.
Squares(g, cs) == \A k \in DOMAIN cs : \A p \in Area(cs[k]) : g[p[1]][p[2]] = k

\* The numbers of a full table.
LEMMA FullTable ==
  ASSUME MaxRows \in Nat, MaxColumns \in Nat, NEW o, NEW g, NEW cs, FullInv(o, g, cs), ~Ragged(g),
         NEW h, NEW w, h = Len(g), w = Len(g[1])
  PROVE  /\ h \in 1 .. MaxRows /\ w \in 1 .. MaxColumns /\ o \in [1 .. h -> [1 .. w -> Tokens]]
         /\ Table(o, h, w) /\ DOMAIN g = 1 .. h /\ \A r \in 1 .. h : DOMAIN g[r] = 1 .. w
<1>1. ShapeInv(o, g, cs)
  BY DEF FullInv, ReadInv
<1>2. h \in Nat \ {0} /\ DOMAIN g = 1 .. h /\ h <= MaxRows /\ DOMAIN o = 1 .. h /\ 1 \in DOMAIN g
  BY <1>1, ShapeIs DEF FullInv
<1>3. \A r \in DOMAIN g : /\ Len(g[r]) \in Nat /\ DOMAIN g[r] = 1 .. Len(g[r]) /\ Len(g[r]) <= MaxColumns
                          /\ Len(o[r]) = Len(g[r])
  BY <1>1, ShapeIs
<1>4. \A r \in DOMAIN g : Len(g[r]) = w
  BY DEF Ragged
<1>5. w \in Nat \ {0} /\ w <= MaxColumns
  BY <1>2, <1>3 DEF FullInv
<1>6. o \in Seq(Seq(Tokens))
  BY <1>1 DEF ShapeInv
<1>7. \A r \in 1 .. h : o[r] \in [1 .. w -> Tokens]
  <2> SUFFICES ASSUME NEW r \in 1 .. h PROVE o[r] \in [1 .. w -> Tokens]
    OBVIOUS
  <2> DEFINE s == o[r]
  <2>1. s \in Seq(Tokens)
    BY <1>2, <1>6
  <2>2. Len(s) = w
    BY <1>2, <1>3, <1>4
  <2> HIDE DEF s
  <2>3. s \in [1 .. w -> Tokens]
    BY <2>1, <2>2
  <2> QED BY <2>3 DEF s
<1>8. o \in [1 .. h -> [1 .. w -> Tokens]]
  <2> DEFINE Z == [1 .. w -> Tokens]
  <2>1. \A r \in 1 .. h : o[r] \in Z
    BY <1>7
  <2>2. o = [r \in 1 .. h |-> o[r]]
    <3> DEFINE Y == Seq(Tokens)
    <3>1. o \in Seq(Y)
      BY <1>6
    <3> HIDE DEF Y
    <3> QED BY <1>2, <3>1
  <2> HIDE DEF Z
  <2>3. o \in [1 .. h -> Z]
    BY <2>1, <2>2
  <2> QED BY <2>3 DEF Z
<1>9. Table(o, h, w)
  BY <1>2, <1>5, <1>8, TableShape
<1> QED BY <1>2, <1>3, <1>4, <1>5, <1>8, <1>9

LEMMA FullNumbers ==
  ASSUME MaxRows \in Nat, MaxColumns \in Nat, NEW o, NEW g, NEW cs, FullInv(o, g, cs), ~Ragged(g)
  PROVE  /\ Len(g) \in 1 .. MaxRows /\ Len(g[1]) \in 1 .. MaxColumns
         /\ o \in [1 .. Len(g) -> [1 .. Len(g[1]) -> Tokens]]
         /\ Table(o, Len(g), Len(g[1])) /\ DOMAIN g = 1 .. Len(g)
         /\ \A r \in 1 .. Len(g) : DOMAIN g[r] = 1 .. Len(g[1])
<1>1. ASSUME NEW h, NEW w, h = Len(g), w = Len(g[1])
      PROVE  /\ h \in 1 .. MaxRows /\ w \in 1 .. MaxColumns /\ o \in [1 .. h -> [1 .. w -> Tokens]]
             /\ Table(o, h, w) /\ DOMAIN g = 1 .. h /\ \A r \in 1 .. h : DOMAIN g[r] = 1 .. w
  BY <1>1, FullTable
<1> QED BY ONLY <1>1

\* In an accepted table the rectangle of a cell's tokens is the cell.
LEMMA CellRectangle ==
  ASSUME MaxRows \in Nat, MaxColumns \in Nat, NEW o, NEW g, NEW cs, FullInv(o, g, cs),
         NEW h, NEW w, Table(o, h, w), DOMAIN g = 1 .. h, \A r \in 1 .. h : DOMAIN g[r] = 1 .. w,
         Squares(g, cs), NEW k \in DOMAIN cs
  PROVE  /\ cs[k].row \in 1 .. h /\ cs[k].column \in 1 .. w /\ o[cs[k].row][cs[k].column] = "cell"
         /\ \A r, c : Within(o, cs[k].row, cs[k].column, r, c) <=>
              r \in cs[k].row .. cs[k].bottom /\ c \in cs[k].column .. cs[k].right
<1> DEFINE a == cs[k].row
           b == cs[k].column
           e == cs[k].bottom
           f == cs[k].right
<1>1. ShapeInv(o, g, cs) /\ PlacesInv(o, g, cs) /\ CellsInv(g, cs)
  BY DEF FullInv, ReadInv
<1>2. h \in Nat /\ w \in Nat
  BY DEF Table
<1>3. a \in DOMAIN g /\ b \in DOMAIN g[a] /\ g[a][b] = k
  BY <1>1 DEF CellsInv
<1>4. a \in 1 .. h /\ b \in 1 .. w
  BY <1>3
<1>5. /\ \E r \in DOMAIN g : \E c \in DOMAIN g[r] : g[r][c] = k /\ r = e
      /\ \E r \in DOMAIN g : \E c \in DOMAIN g[r] : g[r][c] = k /\ c = f
  BY <1>1 DEF CellsInv
<1>6. e \in 1 .. h /\ f \in 1 .. w
  BY <1>5
<1>7. \A r \in 1 .. h : \A c \in 1 .. w : g[r][c] \in DOMAIN cs /\ Belongs(o[r][c], g, cs, g[r][c], r, c)
  BY <1>1 DEF PlacesInv
<1>8. a <= e /\ b <= f /\ o[a][b] = "cell"
  BY <1>3, <1>4, <1>7 DEF Belongs
<1> HIDE DEF a, b, e, f
<1>9. \A r \in a .. e : \A c \in b .. f : g[r][c] = k
  <2> SUFFICES ASSUME NEW r \in a .. e, NEW c \in b .. f PROVE g[r][c] = k
    OBVIOUS
  <2>1. <<r, c>> \in Area(cs[k])
    BY DEF Area, a, b, e, f
  <2> QED BY <2>1 DEF Squares
<1>10. a \in Nat /\ b \in Nat /\ e \in Nat /\ f \in Nat /\ a >= 1 /\ b >= 1 /\ e <= h /\ f <= w
  BY <1>2, <1>4, <1>6
<1>11. Wide(o, w, a, b, f - b + 1)
  <2>1. f - b + 1 \in 1 .. w - b + 1
    BY <1>2, <1>8, <1>10
  <2>2. ASSUME NEW d \in 1 .. (f - b + 1) - 1 PROVE o[a][b + d] = "lcel"
    <3> DEFINE c == b + d
    <3>10. d \in Nat /\ 1 <= d /\ d <= f - b
      BY <1>10
    <3>1. c \in b .. f /\ c \in 1 .. w /\ c # b /\ a \in a .. e /\ c \in Nat
      <4>1. c \in Nat /\ b <= c /\ c <= f /\ c # b /\ 1 <= c
        BY <1>10, <3>10
      <4>2. c <= w
        BY <1>2, <1>10, <4>1
      <4> HIDE DEF c
      <4>3. c \in b .. f /\ c \in 1 .. w
        BY <1>2, <1>10, <4>1, <4>2
      <4>4. a \in a .. e
        BY <1>8, <1>10
      <4> QED BY <4>1, <4>3, <4>4
    <3> HIDE DEF c
    <3>2. g[a][c] = k
      BY <1>9, <3>1
    <3>3. Belongs(o[a][c], g, cs, k, a, c)
      BY <1>4, <1>7, <3>1, <3>2
    <3>4. o[a][c] \in Tokens
      BY <1>4, <3>1 DEF Table
    <3>5. o[a][c] = "lcel"
      BY <1>10, <3>1, <3>3, <3>4 DEF Belongs, Tokens, a, b
    <3> QED BY <3>5 DEF c
  <2>3. ASSUME b + (f - b + 1) <= w PROVE o[a][b + (f - b + 1)] # "lcel"
    <3> DEFINE c == f + 1
    <3>1. b + (f - b + 1) = c /\ c \in 1 .. w /\ c - 1 = f /\ ~(c <= f) /\ f \in b .. f /\ a \in a .. e
      BY <1>2, <1>8, <1>10, <2>3
    <3> HIDE DEF c
    <3>2. SUFFICES ASSUME o[a][c] = "lcel" PROVE FALSE
      BY <3>1
    <3>3. Belongs(o[a][c], g, cs, g[a][c], a, c)
      BY <1>4, <1>7, <3>1
    <3>4. g[a][f] = g[a][c]
      BY <3>1, <3>2, <3>3 DEF Belongs
    <3>5. g[a][c] = k
      BY <1>9, <3>1, <3>4
    <3>6. c <= f
      BY <3>3, <3>5 DEF Belongs, f
    <3> QED BY <3>1, <3>6
  <2> QED BY <2>1, <2>2, <2>3 DEF Wide
<1>12. Deep(o, h, a, b, e - a + 1)
  <2>1. e - a + 1 \in 1 .. h - a + 1
    BY <1>2, <1>8, <1>10
  <2>2. ASSUME NEW d \in 1 .. (e - a + 1) - 1 PROVE o[a + d][b] = "ucel"
    <3> DEFINE r == a + d
    <3>10. d \in Nat /\ 1 <= d /\ d <= e - a
      BY <1>10
    <3>1. r \in a .. e /\ r \in 1 .. h /\ r # a /\ b \in b .. f /\ r \in Nat
      <4>1. r \in Nat /\ a <= r /\ r <= e /\ r # a /\ 1 <= r
        BY <1>10, <3>10
      <4>2. r <= h
        BY <1>2, <1>10, <4>1
      <4> HIDE DEF r
      <4>3. r \in a .. e /\ r \in 1 .. h
        BY <1>2, <1>10, <4>1, <4>2
      <4>4. b \in b .. f
        BY <1>8, <1>10
      <4> QED BY <4>1, <4>3, <4>4
    <3> HIDE DEF r
    <3>2. g[r][b] = k
      BY <1>9, <3>1
    <3>3. Belongs(o[r][b], g, cs, k, r, b)
      BY <1>4, <1>7, <3>1, <3>2
    <3>4. o[r][b] \in Tokens
      BY <1>4, <3>1 DEF Table
    <3>5. o[r][b] = "ucel"
      BY <1>10, <3>1, <3>3, <3>4 DEF Belongs, Tokens, a, b
    <3> QED BY <3>5 DEF r
  <2>3. ASSUME a + (e - a + 1) <= h PROVE o[a + (e - a + 1)][b] # "ucel"
    <3> DEFINE r == e + 1
    <3>1. a + (e - a + 1) = r /\ r \in 1 .. h /\ r - 1 = e /\ ~(r <= e) /\ e \in a .. e /\ b \in b .. f
      BY <1>2, <1>8, <1>10, <2>3
    <3> HIDE DEF r
    <3>2. SUFFICES ASSUME o[r][b] = "ucel" PROVE FALSE
      BY <3>1
    <3>3. Belongs(o[r][b], g, cs, g[r][b], r, b)
      BY <1>4, <1>7, <3>1
    <3>4. g[e][b] = g[r][b]
      BY <3>1, <3>2, <3>3 DEF Belongs
    <3>5. g[r][b] = k
      BY <1>9, <3>1, <3>4
    <3>6. r <= e
      BY <3>3, <3>5 DEF Belongs, e
    <3> QED BY <3>1, <3>6
  <2> QED BY <2>1, <2>2, <2>3 DEF Deep
<1> DEFINE m == SpanDown(o, <<a, b>>)
           n == SpanRight(o, <<a, b>>)
<1>13. /\ Wide(o, w, a, b, n) /\ Deep(o, h, a, b, m)
       /\ \A r, c : Within(o, a, b, r, c) <=> r \in a .. a + m - 1 /\ c \in b .. b + n - 1
  BY <1>4, RectangleIs
<1> HIDE DEF m, n
<1>14. n = f - b + 1
  BY <1>4, <1>11, <1>13, WideOnce
<1>15. m = e - a + 1
  BY <1>4, <1>12, <1>13, DeepOnce
<1>16. a + m - 1 = e /\ b + n - 1 = f
  <2>1. a + (e - a + 1) - 1 = e /\ b + (f - b + 1) - 1 = f
    BY <1>10
  <2> QED BY <1>14, <1>15, <2>1
<1>17. \A r, c : Within(o, a, b, r, c) <=> r \in a .. e /\ c \in b .. f
  BY <1>13, <1>16
<1> QED BY <1>4, <1>8, <1>17 DEF a, b, e, f

\* A text that table_to_html() accepts is a table.
LEMMA AcceptedTiles ==
  ASSUME MaxRows \in Nat, MaxColumns \in Nat, NEW o, NEW g, NEW cs, FullInv(o, g, cs), ~Ragged(g), Squares(g, cs)
  PROVE  o \in Tilings
<1> DEFINE h == Len(g)
           w == Len(g[1])
<1>1. /\ h \in 1 .. MaxRows /\ w \in 1 .. MaxColumns /\ o \in [1 .. h -> [1 .. w -> Tokens]]
      /\ Table(o, h, w) /\ DOMAIN g = 1 .. h /\ \A r \in 1 .. h : DOMAIN g[r] = 1 .. w
  BY FullNumbers
<1> HIDE DEF h, w
<1>2. ShapeInv(o, g, cs) /\ PlacesInv(o, g, cs) /\ CellsInv(g, cs)
  BY DEF FullInv, ReadInv
<1>3. DOMAIN o = 1 .. h /\ DOMAIN o[1] = 1 .. w
  BY <1>1 DEF Table
<1>4. ASSUME NEW k \in DOMAIN cs
      PROVE  /\ cs[k].row \in 1 .. h /\ cs[k].column \in 1 .. w /\ o[cs[k].row][cs[k].column] = "cell"
             /\ \A r, c : Within(o, cs[k].row, cs[k].column, r, c) <=>
                  r \in cs[k].row .. cs[k].bottom /\ c \in cs[k].column .. cs[k].right
  BY <1>1, CellRectangle
<1>5. ASSUME NEW r \in 1 .. h, NEW c \in 1 .. w
      PROVE  g[r][c] \in DOMAIN cs /\ Belongs(o[r][c], g, cs, g[r][c], r, c) /\ o[r][c] \in Tokens
  <2>1. o[r][c] \in Tokens
    BY <1>1 DEF Table
  <2> QED BY <1>1, <1>2, <2>1 DEF PlacesInv
<1>6. IsTiling(o)
  <2> DEFINE places == (DOMAIN o) \X (DOMAIN o[1])
             first == {p \in places : o[p[1]][p[2]] = "cell"}
             Right(q, p) == /\ q \in RectangleAt(o, p)
                            /\ \A z \in first \ {p} : q \notin RectangleAt(o, z)
                            /\ o[q[1]][q[2]] = CASE q = p -> "cell"
                                                 [] q # p /\ q[1] = p[1] -> "lcel"
                                                 [] q # p /\ q[2] = p[2] -> "ucel"
                                                 [] OTHER -> "xcel"
  <2>1. ASSUME NEW q \in places PROVE \E p \in first : Right(q, p)
    <3> DEFINE r == q[1]
               c == q[2]
               k == g[r][c]
               a == cs[k].row
               b == cs[k].column
    <3>1. r \in 1 .. h /\ c \in 1 .. w /\ q = <<r, c>>
      BY <1>3
    <3>2. k \in DOMAIN cs /\ Belongs(o[r][c], g, cs, k, r, c) /\ o[r][c] \in Tokens
      BY <1>5, <3>1
    <3> HIDE DEF r, c, k
    <3>3. a \in 1 .. h /\ b \in 1 .. w /\ o[a][b] = "cell"
      BY <1>4, <3>2
    <3>4. \A i, j : Within(o, a, b, i, j) <=> i \in a .. cs[k].bottom /\ j \in b .. cs[k].right
      BY <1>4, <3>2
    <3>5. cs[k].bottom \in Nat /\ cs[k].right \in Nat /\ a \in Nat /\ b \in Nat /\ r \in Nat /\ c \in Nat
      <4>1. MaxRows \in Nat /\ MaxColumns \in Nat
        OBVIOUS
      <4>2. a \in Nat /\ b \in Nat /\ cs[k].bottom \in Nat /\ cs[k].right \in Nat
        BY ONLY <1>2, <3>2, <4>1, ShapeIs
      <4>3. r \in Nat /\ c \in Nat
        BY ONLY <3>1
      <4> QED BY ONLY <4>2, <4>3
    <3> DEFINE p == <<a, b>>
    <3>6. p \in first
      BY <1>3, <3>3
    <3>7. q \in RectangleAt(o, p)
      <4>1. Within(o, a, b, r, c)
        BY <3>2, <3>4, <3>5 DEF Belongs
      <4> QED BY <3>1, <4>1 DEF Within
    <3>8. ASSUME NEW z \in first, q \in RectangleAt(o, z) PROVE z = p
      <4> DEFINE i == z[1]
                 j == z[2]
                 l == g[i][j]
      <4>1. i \in 1 .. h /\ j \in 1 .. w /\ z = <<i, j>> /\ o[i][j] = "cell"
        BY <1>3
      <4>2. l \in DOMAIN cs /\ Belongs(o[i][j], g, cs, l, i, j)
        BY <1>5, <4>1
      <4> HIDE DEF i, j, l
      <4>3. i = cs[l].row /\ j = cs[l].column
        BY <4>1, <4>2 DEF Belongs
      <4>4. Within(o, cs[l].row, cs[l].column, r, c)
        BY <3>1, <3>8, <4>1, <4>3 DEF Within
      <4>5. r \in cs[l].row .. cs[l].bottom /\ c \in cs[l].column .. cs[l].right
        BY <1>4, <4>2, <4>4
      <4>6. <<r, c>> \in Area(cs[l])
        BY <4>5 DEF Area
      <4>7. g[<<r, c>>[1]][<<r, c>>[2]] = l
        BY <4>2, <4>6 DEF Squares
      <4>8. l = k
        BY <4>7 DEF k
      <4> QED BY <4>1, <4>3, <4>8
    <3>9. o[r][c] = CASE q = p -> "cell"
                      [] q # p /\ q[1] = p[1] -> "lcel"
                      [] q # p /\ q[2] = p[2] -> "ucel"
                      [] OTHER -> "xcel"
      <4>1. q = p <=> r = a /\ c = b
        BY <3>1
      <4>2. q[1] = r /\ q[2] = c /\ p[1] = a /\ p[2] = b
        BY <3>1
      <4> HIDE DEF a, b, p
      <4> DEFINE token == o[r][c]
      <4>3. /\ token = "cell" <=> r = a /\ c = b
            /\ token = "lcel" => r = a
            /\ token = "ucel" => c = b
            /\ token = "xcel" => r # a /\ c # b
            /\ token \in Tokens
        BY <3>2, <3>5 DEF Belongs, a, b
      <4> HIDE DEF token
      <4>4. CASE q = p
        BY <4>1, <4>3, <4>4 DEF token
      <4>5. CASE q # p /\ r = a
        <5>1. token = "lcel"
          BY <4>1, <4>3, <4>5 DEF Tokens
        <5>2. ~(c = b)
          BY <4>1, <4>5
        <5> QED BY <4>1, <4>2, <4>5, <5>1, <5>2 DEF token
      <4>6. CASE q # p /\ r # a /\ c = b
        <5>1. token = "ucel"
          BY <4>1, <4>3, <4>6 DEF Tokens
        <5> QED BY <4>1, <4>2, <4>6, <5>1 DEF token
      <4>7. CASE q # p /\ r # a /\ c # b
        <5>1. token = "xcel"
          BY <4>1, <4>3, <4>7 DEF Tokens
        <5> QED BY <4>1, <4>2, <4>7, <5>1 DEF token
      <4> QED BY <4>4, <4>5, <4>6, <4>7
    <3>10. o[q[1]][q[2]] = o[r][c]
      BY DEF r, c
    <3> QED BY <3>6, <3>7, <3>8, <3>9, <3>10
  <2> QED BY <2>1 DEF IsTiling
<1>7. o \in {u \in [1 .. h -> [1 .. w -> {"cell", "lcel", "ucel", "xcel"}]] : IsTiling(u)}
  BY <1>1, <1>6 DEF Tokens
<1> DEFINE Q(i, j) == {u \in [1 .. i -> [1 .. j -> {"cell", "lcel", "ucel", "xcel"}]] : IsTiling(u)}
<1>8. o \in Q(h, w)
  BY <1>7
<1>9. Tilings = UNION {Q(i, j) : i \in 1 .. MaxRows, j \in 1 .. MaxColumns}
  BY DEF Tilings, Q
<1> HIDE DEF Q
<1>10. Q(h, w) \in {Q(i, j) : i \in 1 .. MaxRows, j \in 1 .. MaxColumns}
  BY <1>1
<1> QED BY <1>8, <1>9, <1>10

\* A table is accepted.
LEMMA TilingAccepted ==
  ASSUME MaxRows \in Nat, MaxColumns \in Nat, NEW o, NEW g, NEW cs, ReadInv(o, g, cs), FollowInv(o, g, cs),
         NEW O, NEW G, RowsOf(o, g, O, G), FullInv(O, G, cs), O \in Tilings
  PROVE  ~Ragged(G) /\ Squares(G, cs)
<1>1. PICK h \in 1 .. MaxRows, w \in 1 .. MaxColumns : Table(O, h, w)
  BY TilingTable
<1>2. IsTiling(O)
  BY TilingTable
<1>3. ShapeInv(o, g, cs) /\ ShapeInv(O, G, cs) /\ PlacesInv(O, G, cs) /\ CellsInv(G, cs)
  BY DEF FullInv, ReadInv
<1>4. /\ h \in Nat \ {0} /\ w \in Nat \ {0} /\ DOMAIN O = 1 .. h /\ 1 \in 1 .. h /\ DOMAIN O[1] = 1 .. w
      /\ \A r \in 1 .. h : Len(O[r]) = w
  BY <1>1 DEF Table
<1>5. /\ DOMAIN G = DOMAIN O /\ \A r \in DOMAIN G : /\ Len(O[r]) = Len(G[r])
                                                    /\ DOMAIN G[r] = 1 .. Len(G[r]) /\ Len(G[r]) \in Nat
  BY <1>3, ShapeIs
<1>6. DOMAIN G = 1 .. h /\ \A r \in 1 .. h : Len(G[r]) = w /\ DOMAIN G[r] = 1 .. w
  BY <1>4, <1>5
<1>7. ~Ragged(G)
  BY <1>4, <1>6 DEF Ragged
<1>8. Agrees(o, O)
  <2>1. DOMAIN o = DOMAIN g /\ Len(o) = Len(g) /\ DOMAIN g = 1 .. Len(g) /\ Len(g) \in Nat
    BY <1>3, ShapeIs
  <2>2. \A r \in DOMAIN g : DOMAIN o[r] = DOMAIN g[r] /\ DOMAIN g[r] = 1 .. Len(g[r]) /\ Len(g[r]) \in Nat
    BY <1>3, ShapeIs
  <2>3. \A r \in DOMAIN o : \A c \in DOMAIN o[r] : r \in DOMAIN O /\ c \in DOMAIN O[r] /\ o[r][c] = O[r][c]
    <3> SUFFICES ASSUME NEW r \in DOMAIN o, NEW c \in DOMAIN o[r]
                 PROVE  r \in DOMAIN O /\ c \in DOMAIN O[r] /\ o[r][c] = O[r][c]
      OBVIOUS
    <3>1. Len(g[r]) # 0 /\ r \in DOMAIN g
      BY <2>1, <2>2
    <3>2. r \in DOMAIN G
      BY <3>1 DEF RowsOf
    <3>3. O[r] = o[r]
      BY <3>2 DEF RowsOf
    <3> QED BY <1>5, <3>2, <3>3
  <2>4. \A r \in DOMAIN o : r < Len(o) => r \in DOMAIN O /\ Len(o[r]) = Len(O[1])
    <3> SUFFICES ASSUME NEW r \in DOMAIN o, r < Len(o) PROVE r \in DOMAIN O /\ Len(o[r]) = Len(O[1])
      OBVIOUS
    <3>1. r # Len(g) /\ r \in DOMAIN g
      BY <2>1
    <3>2. r \in DOMAIN G
      BY <3>1 DEF RowsOf
    <3>3. O[r] = o[r]
      BY <3>2 DEF RowsOf
    <3> QED BY <1>4, <1>5, <3>2, <3>3
  <2> QED BY <2>3, <2>4 DEF Agrees
<1>9. ASSUME NEW r \in 1 .. h, NEW c \in 1 .. w
      PROVE  g[r][c] = G[r][c] /\ Within(O, cs[G[r][c]].row, cs[G[r][c]].column, r, c)
  <2>1. r \in DOMAIN g /\ G[r] = g[r] /\ c \in DOMAIN g[r]
    BY <1>6 DEF RowsOf
  <2> QED BY <1>8, <2>1 DEF FollowInv
<1>10. Squares(G, cs)
  <2> SUFFICES ASSUME NEW k \in DOMAIN cs, NEW p \in Area(cs[k]) PROVE G[p[1]][p[2]] = k
    BY DEF Squares
  <2> DEFINE a == cs[k].row
             b == cs[k].column
             e == cs[k].bottom
             f == cs[k].right
             r == p[1]
             c == p[2]
  <2>1. a \in DOMAIN G /\ b \in DOMAIN G[a] /\ G[a][b] = k
    BY <1>3 DEF CellsInv
  <2>2. a \in 1 .. h /\ b \in 1 .. w
    BY <1>6, <2>1
  <2>3. O[a][b] = "cell"
    <3>1. Belongs(O[a][b], G, cs, G[a][b], a, b)
      BY <1>3, <2>1 DEF PlacesInv
    <3> QED BY <2>1, <3>1 DEF Belongs
  <2>4. PICK i \in DOMAIN G : \E j \in DOMAIN G[i] : G[i][j] = k /\ i = e
    BY <1>3 DEF CellsInv
  <2>5. PICK j \in DOMAIN G[i] : G[i][j] = k /\ i = e
    BY <2>4
  <2>6. PICK x \in DOMAIN G : \E y \in DOMAIN G[x] : G[x][y] = k /\ y = f
    BY <1>3 DEF CellsInv
  <2>7. PICK y \in DOMAIN G[x] : G[x][y] = k /\ y = f
    BY <2>6
  <2>8. Within(O, a, b, e, j)
    BY <1>6, <1>9, <2>5
  <2>9. Within(O, a, b, x, f)
    BY <1>6, <1>9, <2>7
  <2>10. r \in a .. e /\ c \in b .. f
    BY DEF Area
  <2>11. e \in Nat /\ f \in Nat
    BY <1>3, ShapeIs
  <2> HIDE DEF a, b, e, f, r, c
  <2> DEFINE m == SpanDown(O, <<a, b>>)
             n == SpanRight(O, <<a, b>>)
  <2>12. /\ Wide(O, w, a, b, n) /\ Deep(O, h, a, b, m)
         /\ \A u, v : Within(O, a, b, u, v) <=> u \in a .. a + m - 1 /\ v \in b .. b + n - 1
    BY <1>1, <2>2, RectangleIs
  <2>13. n \in 1 .. w - b + 1 /\ m \in 1 .. h - a + 1
    BY <2>12 DEF Wide, Deep
  <2> HIDE DEF m, n
  <2>14. e \in a .. a + m - 1 /\ f \in b .. b + n - 1
    BY <2>8, <2>9, <2>12
  <2>15. r \in a .. a + m - 1 /\ c \in b .. b + n - 1 /\ r \in 1 .. h /\ c \in 1 .. w
    <3>1. a \in Nat /\ b \in Nat /\ m \in Nat /\ n \in Nat /\ a >= 1 /\ b >= 1 /\ m <= h - a + 1 /\ n <= w - b + 1
      BY <1>4, <2>2, <2>13
    <3>2. r \in Nat /\ a <= r /\ r <= e /\ e <= a + m - 1
      BY <2>10, <2>11, <2>14, <3>1
    <3>3. c \in Nat /\ b <= c /\ c <= f /\ f <= b + n - 1
      BY <2>10, <2>11, <2>14, <3>1
    <3>4. r <= a + m - 1 /\ r <= h /\ 1 <= r
      BY <1>4, <2>11, <3>1, <3>2
    <3>5. c <= b + n - 1 /\ c <= w /\ 1 <= c
      BY <1>4, <2>11, <3>1, <3>3
    <3> QED BY <1>4, <3>1, <3>2, <3>3, <3>4, <3>5
  <2>16. Owns(O, a, b, r, c)
    BY <1>1, <1>2, <2>2, <2>3, <2>12, <2>15, OwnsToo
  <2>17. r \in DOMAIN g /\ c \in DOMAIN g[r]
    BY <1>6, <2>15 DEF RowsOf
  <2>18. Starts(cs, g[r][c], a, b)
    BY <1>8, <2>16, <2>17, FollowedOwner DEF Starts
  <2>19. Starts(cs, k, a, b)
    BY DEF Starts, a, b
  <2>20. g[r][c] = k
    <3>1. CellsInv(g, cs)
      BY DEF ReadInv
    <3> QED BY <2>18, <2>19, <3>1, StartsOnce
  <2> QED BY <1>9, <2>15, <2>20 DEF r, c
<1> QED BY <1>7, <1>10

\* A text with an empty row is no table.
LEMMA EmptyRowRefused ==
  ASSUME MaxRows \in Nat, MaxColumns \in Nat, NEW o, NEW g, NEW cs, ReadInv(o, g, cs), g[Len(g)] = <<>>
  PROVE  o \notin Tilings
<1> SUFFICES ASSUME o \in Tilings PROVE FALSE
  OBVIOUS
<1>1. PICK h \in 1 .. MaxRows, w \in 1 .. MaxColumns : Table(o, h, w)
  BY TilingTable
<1>2. ShapeInv(o, g, cs)
  BY DEF ReadInv
<1>3. Len(g) \in DOMAIN g /\ DOMAIN o = DOMAIN g /\ Len(o[Len(g)]) = Len(g[Len(g)])
  BY <1>2, ShapeIs
<1>4. Len(g[Len(g)]) = 0
  OBVIOUS
<1> QED BY <1>1, <1>3, <1>4 DEF Table

-----------------------------------------------------------------------------
(* TableOtsl.  The HTML, and where a browser shows its cells.              *)

\* Where a cell begins.
Start(cs, k) == <<cs[k].row, cs[k].column>>

LEMMA StartOrder ==
  ASSUME MaxRows \in Nat, MaxColumns \in Nat, NEW o, NEW g, NEW cs, ReadInv(o, g, cs),
         NEW j \in DOMAIN cs, NEW k \in DOMAIN cs
  PROVE  /\ ReadsBefore(Start(cs, j), Start(cs, k)) <=> j < k
         /\ Start(cs, j) = Start(cs, k) => j = k
         /\ j \in Nat /\ k \in Nat
<1>1. ShapeInv(o, g, cs) /\ OrderInv(cs)
  BY DEF ReadInv
<1>2. /\ j \in Nat /\ k \in Nat
      /\ cs[j].row \in Nat /\ cs[j].column \in Nat /\ cs[k].row \in Nat /\ cs[k].column \in Nat
  BY <1>1, ShapeIs
<1>3. ReadsBefore(Start(cs, j), Start(cs, k)) <=>
        cs[j].row < cs[k].row \/ (cs[j].row = cs[k].row /\ cs[j].column < cs[k].column)
  BY DEF ReadsBefore, Start
<1>4. CASE j < k
  BY <1>1, <1>2, <1>3, <1>4 DEF OrderInv, Start
<1>5. CASE k < j
  <2>1. cs[k].row < cs[j].row \/ (cs[k].row = cs[j].row /\ cs[k].column < cs[j].column)
    BY <1>1, <1>5 DEF OrderInv
  <2> QED BY <1>2, <1>3, <1>5, <2>1 DEF Start
<1>6. CASE j = k
  BY <1>2, <1>3, <1>6
<1> QED BY <1>2, <1>4, <1>5, <1>6

LEMMA StartsCount ==
  ASSUME MaxRows \in Nat, MaxColumns \in Nat, NEW o, NEW g, NEW cs, ReadInv(o, g, cs),
         NEW m \in Nat, m <= Len(cs)
  PROVE  Cardinality({Start(cs, k) : k \in 1 .. m}) = m
<1> DEFINE D == 1 .. m
           T == {Start(cs, k) : k \in D}
           f == [k \in D |-> Start(cs, k)]
<1>1. ShapeInv(o, g, cs)
  BY DEF ReadInv
<1>2. \A k \in D : k \in DOMAIN cs
  BY <1>1, ShapeIs
<1>3. \A j, k \in D : Start(cs, j) = Start(cs, k) => j = k
  BY <1>2, StartOrder
<1>4. f \in Bijection(D, T)
  <2>1. f \in [D -> T]
    OBVIOUS
  <2>2. \A j, k \in D : f[j] = f[k] => j = k
    BY <1>3
  <2>3. \A x \in T : \E k \in D : f[k] = x
    OBVIOUS
  <2> HIDE DEF f, T, D
  <2> QED BY <2>1, <2>2, <2>3 DEF Bijection, Injection, Surjection, IsInjective
<1>5. ExistsBijection(D, T)
  BY <1>4 DEF ExistsBijection
<1>6. IsFiniteSet(D) /\ Cardinality(D) = m
  <2>1. Cardinality(1 .. m) = (IF 1 > m THEN 0 ELSE m - 1 + 1) /\ IsFiniteSet(1 .. m)
    BY FS_Interval
  <2> QED BY <2>1
<1> HIDE DEF D, T
<1>7. Cardinality(T) = m
  BY <1>5, <1>6, FS_Bijection
<1> QED BY <1>7 DEF T, D

\* The HTML of a table has its cells in order.
LEMMA HtmlIs ==
  ASSUME MaxRows \in Nat, MaxColumns \in Nat, ReadInv(otsl, grid, cells)
  PROVE  Html = [n \in 1 .. Len(cells) |-> [row |-> cells[n].row,
                                            rowspan |-> cells[n].bottom - cells[n].row + 1,
                                            colspan |-> cells[n].right - cells[n].column + 1]]
<1> DEFINE cellAt(p) == cells[grid[p[1]][p[2]]]
           all == UNION {{r} \X DOMAIN grid[r] : r \in DOMAIN grid}
           starts == {p \in all : cellAt(p).row = p[1] /\ cellAt(p).column = p[2]}
           td(p) == [row |-> p[1], rowspan |-> cellAt(p).bottom - p[1] + 1,
                                   colspan |-> cellAt(p).right - p[2] + 1]
           N == Len(cells)
<1>1. ShapeInv(otsl, grid, cells) /\ PlacesInv(otsl, grid, cells) /\ CellsInv(grid, cells)
  BY DEF ReadInv
<1>2. N \in Nat /\ DOMAIN cells = 1 .. N
  BY <1>1, ShapeIs
<1> HIDE DEF N
<1>3. starts = {Start(cells, k) : k \in 1 .. N}
  <2>1. ASSUME NEW p \in starts PROVE \E k \in 1 .. N : p = Start(cells, k)
    <3>1. p \in all
      OBVIOUS
    <3>2. PICK r \in DOMAIN grid : p \in {r} \X DOMAIN grid[r]
      BY <3>1
    <3>3. p = <<p[1], p[2]>> /\ p[1] \in DOMAIN grid /\ p[2] \in DOMAIN grid[p[1]]
      BY <3>2
    <3>4. grid[p[1]][p[2]] \in DOMAIN cells
      BY <1>1, <3>3 DEF PlacesInv
    <3>5. cellAt(p).row = p[1] /\ cellAt(p).column = p[2]
      OBVIOUS
    <3> QED BY <1>2, <3>3, <3>4, <3>5 DEF Start
  <2>2. ASSUME NEW k \in 1 .. N PROVE Start(cells, k) \in starts
    <3> DEFINE a == cells[k].row
               b == cells[k].column
               p == <<a, b>>
    <3>1. a \in DOMAIN grid /\ b \in DOMAIN grid[a] /\ grid[a][b] = k
      BY <1>1, <1>2 DEF CellsInv
    <3>2. p \in all
      BY <3>1
    <3>3. cellAt(p) = cells[k]
      BY <3>1
    <3>4. cellAt(p).row = p[1] /\ cellAt(p).column = p[2]
      BY <3>3
    <3>5. p \in starts
      BY <3>2, <3>4
    <3> QED BY <3>5 DEF Start
  <2> HIDE DEF starts
  <2> QED BY <2>1, <2>2
<1>4. Cardinality(starts) = N
  <2>1. Cardinality({Start(cells, k) : k \in 1 .. N}) = N
    BY <1>2, StartsCount DEF N
  <2> QED BY <1>3, <2>1
<1> HIDE DEF starts
<1>5. ASSUME NEW n \in 1 .. N
      PROVE  Cardinality({q \in starts : ReadsBefore(q, Start(cells, n))}) = n - 1
  <2>1. {q \in starts : ReadsBefore(q, Start(cells, n))} = {Start(cells, k) : k \in 1 .. n - 1}
    <3>1. ASSUME NEW k \in 1 .. N PROVE ReadsBefore(Start(cells, k), Start(cells, n)) <=> k \in 1 .. n - 1
      <4>1. ReadsBefore(Start(cells, k), Start(cells, n)) <=> k < n
        BY <1>2, StartOrder
      <4> QED BY <1>2, <4>1
    <3>2. \A k \in 1 .. n - 1 : k \in 1 .. N
      BY <1>2
    <3> HIDE DEF N
    <3> QED BY <1>3, <3>1, <3>2
  <2>2. n - 1 \in Nat /\ n - 1 <= Len(cells)
    BY <1>2 DEF N
  <2>3. Cardinality({Start(cells, k) : k \in 1 .. n - 1}) = n - 1
    BY <2>2, StartsCount
  <2> QED BY <2>1, <2>3
<1>6. ASSUME NEW n \in 1 .. N
      PROVE  (CHOOSE p \in starts : Cardinality({q \in starts : ReadsBefore(q, p)}) = n - 1) = Start(cells, n)
  <2> DEFINE rank(p) == Cardinality({q \in starts : ReadsBefore(q, p)})
  <2>1. Start(cells, n) \in starts /\ rank(Start(cells, n)) = n - 1
    BY <1>3, <1>5
  <2>2. ASSUME NEW p \in starts, rank(p) = n - 1 PROVE p = Start(cells, n)
    <3>1. PICK k \in 1 .. N : p = Start(cells, k)
      BY <1>3
    <3>2. rank(p) = k - 1
      BY <1>5, <3>1
    <3>3. k = n
      BY <1>2, <2>2, <3>2
    <3> QED BY <3>1, <3>3
  <2> HIDE DEF rank
  <2>3. (CHOOSE p \in starts : rank(p) = n - 1) = Start(cells, n)
    BY <2>1, <2>2
  <2> QED BY <2>3 DEF rank
<1>7. ASSUME NEW n \in 1 .. N
      PROVE  td(Start(cells, n)) = [row |-> cells[n].row, rowspan |-> cells[n].bottom - cells[n].row + 1,
                                    colspan |-> cells[n].right - cells[n].column + 1]
  <2>1. grid[cells[n].row][cells[n].column] = n
    BY <1>1, <1>2 DEF CellsInv
  <2>2. Start(cells, n)[1] = cells[n].row /\ Start(cells, n)[2] = cells[n].column
    BY DEF Start
  <2>3. cellAt(Start(cells, n)) = cells[n]
    BY <2>1, <2>2
  <2> QED BY <2>2, <2>3
<1>8. Html = [n \in 1 .. Cardinality(starts) |->
                td(CHOOSE p \in starts : Cardinality({q \in starts : ReadsBefore(q, p)}) = n - 1)]
  BY DEF Html, starts
<1> HIDE DEF td
<1>9. Html = [n \in 1 .. N |-> td(Start(cells, n))]
  <2> DEFINE pick(n) == CHOOSE p \in starts : Cardinality({q \in starts : ReadsBefore(q, p)}) = n - 1
  <2>1. Html = [n \in 1 .. N |-> td(pick(n))]
    BY <1>4, <1>8
  <2>2. \A n \in 1 .. N : pick(n) = Start(cells, n)
    BY <1>6
  <2> HIDE DEF pick
  <2> QED BY <2>1, <2>2
<1> QED BY <1>7, <1>9 DEF N

LEMMA CellBounds ==
  ASSUME MaxRows \in Nat, MaxColumns \in Nat, NEW o, NEW g, NEW cs, ReadInv(o, g, cs),
         NEW h, NEW w, DOMAIN g = 1 .. h, \A r \in 1 .. h : DOMAIN g[r] = 1 .. w, NEW k \in DOMAIN cs
  PROVE  /\ cs[k].row \in 1 .. h /\ cs[k].column \in 1 .. w /\ g[cs[k].row][cs[k].column] = k
         /\ cs[k].bottom \in 1 .. h /\ cs[k].right \in 1 .. w
         /\ cs[k].row <= cs[k].bottom /\ cs[k].column <= cs[k].right
<1>1. ShapeInv(o, g, cs) /\ PlacesInv(o, g, cs) /\ CellsInv(g, cs)
  BY DEF ReadInv
<1>2. cs[k].row \in DOMAIN g /\ cs[k].column \in DOMAIN g[cs[k].row] /\ g[cs[k].row][cs[k].column] = k
  BY <1>1 DEF CellsInv
<1>3. /\ \E r \in DOMAIN g : \E c \in DOMAIN g[r] : g[r][c] = k /\ r = cs[k].bottom
      /\ \E r \in DOMAIN g : \E c \in DOMAIN g[r] : g[r][c] = k /\ c = cs[k].right
  BY <1>1 DEF CellsInv
<1>4. Belongs(o[cs[k].row][cs[k].column], g, cs, k, cs[k].row, cs[k].column)
  BY <1>1, <1>2 DEF PlacesInv
<1> QED BY <1>2, <1>3, <1>4 DEF Belongs

\* The places of the first n cells, each with its cell.
Covers(cs, k) == (cs[k].row .. cs[k].bottom) \X (cs[k].column .. cs[k].right) \X {k}
Shown(cs, n) == UNION {Covers(cs, k) : k \in 1 .. n}

LEMMA ShownIs ==
  ASSUME NEW cs, NEW n, NEW r, NEW c, NEW k
  PROVE  <<r, c, k>> \in Shown(cs, n) <=>
           k \in 1 .. n /\ r \in cs[k].row .. cs[k].bottom /\ c \in cs[k].column .. cs[k].right
<1>1. \A i : <<r, c, k>> \in Covers(cs, i) <=>
        k = i /\ r \in cs[i].row .. cs[i].bottom /\ c \in cs[i].column .. cs[i].right
  BY DEF Covers
<1>2. <<r, c, k>> \in Shown(cs, n) <=> \E i \in 1 .. n : <<r, c, k>> \in Covers(cs, i)
  BY DEF Shown
<1> QED BY <1>1, <1>2

\* The first free column in the row of the next cell is the cell's.
LEMMA FreeColumn ==
  ASSUME MaxRows \in Nat, MaxColumns \in Nat, NEW o, NEW g, NEW cs, FullInv(o, g, cs), ~Ragged(g), Squares(g, cs),
         NEW n \in DOMAIN cs
  PROVE  Min({d \in 1 .. MaxColumns + 1 : \A k \in 1 .. n - 1 : <<cs[n].row, d, k>> \notin Shown(cs, n - 1)})
           = cs[n].column
<1> DEFINE h == Len(g)
           w == Len(g[1])
           a == cs[n].row
           b == cs[n].column
           free == {d \in 1 .. MaxColumns + 1 : \A k \in 1 .. n - 1 : <<a, d, k>> \notin Shown(cs, n - 1)}
<1>1. h \in 1 .. MaxRows /\ w \in 1 .. MaxColumns /\ DOMAIN g = 1 .. h /\ \A r \in 1 .. h : DOMAIN g[r] = 1 .. w
  BY FullNumbers
<1> HIDE DEF h, w
<1>2. ReadInv(o, g, cs) /\ ShapeInv(o, g, cs) /\ PlacesInv(o, g, cs) /\ OrderInv(cs)
  BY DEF FullInv, ReadInv
<1>3. DOMAIN cs = 1 .. Len(cs) /\ Len(cs) \in Nat
  BY <1>2, ShapeIs
<1>4. a \in 1 .. h /\ b \in 1 .. w /\ g[a][b] = n
  BY <1>1, <1>2, CellBounds
<1>5. b \in free
  <2>1. b \in 1 .. MaxColumns + 1
    BY <1>1, <1>4
  <2>2. ASSUME NEW k \in 1 .. n - 1, <<a, b, k>> \in Shown(cs, n - 1) PROVE FALSE
    <3>1. k \in DOMAIN cs /\ k # n
      BY <1>3
    <3>2. a \in cs[k].row .. cs[k].bottom /\ b \in cs[k].column .. cs[k].right
      BY <2>2, ShownIs
    <3> HIDE DEF a, b
    <3>3. <<a, b>> \in Area(cs[k])
      BY <3>2 DEF Area
    <3>4. g[a][b] = k
      BY <3>1, <3>3 DEF Squares
    <3> QED BY <1>4, <3>1, <3>4
  <2> QED BY <2>1, <2>2
<1>6. ASSUME NEW d \in free PROVE b <= d
  <2> SUFFICES ASSUME d < b PROVE FALSE
    BY <1>1, <1>4
  <2>1. d \in 1 .. w /\ d \in Nat
    BY <1>1, <1>4
  <2> DEFINE k == g[a][d]
  <2>2. k \in DOMAIN cs /\ Belongs(o[a][d], g, cs, k, a, d)
    BY <1>1, <1>2, <1>4, <2>1 DEF PlacesInv
  <2> HIDE DEF k
  <2>3. /\ cs[k].row <= a /\ a <= cs[k].bottom /\ cs[k].column <= d /\ d <= cs[k].right
    BY <2>2 DEF Belongs
  <2>4. /\ cs[k].row \in Nat /\ cs[k].column \in Nat /\ cs[k].bottom \in Nat /\ cs[k].right \in Nat
        /\ a \in Nat /\ b \in Nat
    BY <1>2, <2>2, ShapeIs
  <2>5. ReadsBefore(Start(cs, k), Start(cs, n))
    BY <2>1, <2>3, <2>4 DEF ReadsBefore, Start
  <2>6. k < n /\ k \in Nat
    BY <1>2, <2>2, <2>5, StartOrder
  <2>7. k \in 1 .. n - 1
    BY <1>3, <2>2, <2>6
  <2>8. <<a, d, k>> \in Shown(cs, n - 1)
    <3>1. a \in cs[k].row .. cs[k].bottom /\ d \in cs[k].column .. cs[k].right
      BY <2>1, <2>3, <2>4
    <3> QED BY <2>7, <3>1, ShownIs
  <2> QED BY <2>7, <2>8
<1> HIDE DEF free
<1>7. \A d \in free : d \in Nat
  BY DEF free
<1>8. Min(free) = b
  <2>1. b \in free /\ \A d \in free : b <= d
    BY <1>5, <1>6
  <2>2. \A x \in free : (\A y \in free : x <= y) => x = b
    BY <1>7, <2>1
  <2> HIDE DEF b
  <2> QED BY <2>1, <2>2 DEF Min
<1> QED BY <1>8 DEF free

\* A browser puts the cells of an accepted table where the tokens have them.
LEMMA BrowserIs ==
  ASSUME MaxRows \in Nat, MaxColumns \in Nat, FullInv(otsl, grid, cells), ~Ragged(grid), Squares(grid, cells)
  PROVE  Browser(Html) = {<<r, c, grid[r][c]>> : r \in DOMAIN grid, c \in DOMAIN grid[1]}
<1> DEFINE N == Len(cells)
           h == Len(grid)
           w == Len(grid[1])
           html == Html
           Step(n, before) ==
             IF n = 0 THEN {}
             ELSE LET td == html[n]
                      c == Min({d \in 1 .. MaxColumns + 1 : \A k \in 1 .. n - 1 : <<td.row, d, k>> \notin before})
                  IN  before \cup ((td.row .. td.row + td.rowspan - 1) \X (c .. c + td.colspan - 1) \X {n})
           F == [n \in 0 .. N |-> Shown(cells, n)]
           taken == CHOOSE f : f = [n \in 0 .. N |-> Step(n, f[n - 1])]
<1>1. ReadInv(otsl, grid, cells) /\ ShapeInv(otsl, grid, cells) /\ PlacesInv(otsl, grid, cells)
  BY DEF FullInv, ReadInv
<1>2. N \in Nat /\ DOMAIN cells = 1 .. N
  BY <1>1, ShapeIs
<1>15. /\ h \in 1 .. MaxRows /\ w \in 1 .. MaxColumns
       /\ DOMAIN grid = 1 .. h /\ \A r \in 1 .. h : DOMAIN grid[r] = 1 .. w
  BY FullTable
<1>3. /\ DOMAIN grid = 1 .. h /\ (\A r \in 1 .. h : DOMAIN grid[r] = 1 .. w)
      /\ DOMAIN grid[1] = 1 .. w /\ h \in Nat /\ w \in Nat
  <2> HIDE DEF h, w
  <2> QED BY <1>15
<1> HIDE DEF N, h, w
<1>4. html = [n \in 1 .. N |-> [row |-> cells[n].row, rowspan |-> cells[n].bottom - cells[n].row + 1,
                                colspan |-> cells[n].right - cells[n].column + 1]]
  BY <1>1, HtmlIs DEF N
<1> HIDE DEF html
<1>5. Len(html) = N
  BY <1>2, <1>4
<1>6. Browser(html) = taken[N]
  BY <1>5 DEF Browser
<1>7. \A k \in 1 .. N : /\ cells[k].row \in Nat /\ cells[k].column \in Nat
                        /\ cells[k].bottom \in Nat /\ cells[k].right \in Nat
  BY <1>1, <1>2, ShapeIs
<1>8. ASSUME NEW n \in 1 .. N PROVE Step(n, Shown(cells, n - 1)) = Shown(cells, n)
  <2> DEFINE td == html[n]
             c == Min({d \in 1 .. MaxColumns + 1 : \A k \in 1 .. n - 1 : <<td.row, d, k>> \notin Shown(cells, n - 1)})
  <2>1. /\ td.row = cells[n].row /\ td.rowspan = cells[n].bottom - cells[n].row + 1
        /\ td.colspan = cells[n].right - cells[n].column + 1
    BY <1>4
  <2>2. c = cells[n].column
    <3>1. Min({d \in 1 .. MaxColumns + 1 : \A k \in 1 .. n - 1 : <<cells[n].row, d, k>> \notin Shown(cells, n - 1)})
            = cells[n].column
      BY <1>2, FreeColumn
    <3>2. td.row = cells[n].row
      BY <2>1
    <3> HIDE DEF td
    <3> QED BY <3>1, <3>2
  <2>3. Step(n, Shown(cells, n - 1)) =
          Shown(cells, n - 1) \cup ((td.row .. td.row + td.rowspan - 1) \X (c .. c + td.colspan - 1) \X {n})
    BY <1>2
  <2> HIDE DEF td, c, Step
  <2>4. td.row + td.rowspan - 1 = cells[n].bottom /\ c + td.colspan - 1 = cells[n].right
    <3>1. /\ cells[n].row + (cells[n].bottom - cells[n].row + 1) - 1 = cells[n].bottom
          /\ cells[n].column + (cells[n].right - cells[n].column + 1) - 1 = cells[n].right
      BY <1>7
    <3> QED BY <2>1, <2>2, <3>1
  <2>5. Step(n, Shown(cells, n - 1)) = Shown(cells, n - 1) \cup Covers(cells, n)
    BY <2>1, <2>2, <2>3, <2>4 DEF Covers
  <2>6. Shown(cells, n - 1) \cup Covers(cells, n) = Shown(cells, n)
    <3>1. \A k : k \in 1 .. n <=> k \in 1 .. n - 1 \/ k = n
      BY <1>2
    <3> QED BY <3>1 DEF Shown
  <2> QED BY <2>5, <2>6
<1>9. Step(0, F[0 - 1]) = {} /\ Shown(cells, 0) = {}
  <2>1. 1 .. 0 = {}
    OBVIOUS
  <2> QED BY <2>1 DEF Shown
<1> HIDE DEF Step
<1>10. F = [n \in 0 .. N |-> Step(n, F[n - 1])]
  <2>1. ASSUME NEW n \in 0 .. N PROVE Shown(cells, n) = Step(n, F[n - 1])
    <3>1. CASE n = 0
      BY <1>9, <3>1
    <3>2. CASE n # 0
      <4>1. n \in 1 .. N /\ n - 1 \in 0 .. N
        BY <1>2, <3>2
      <4>2. F[n - 1] = Shown(cells, n - 1)
        BY <4>1
      <4> QED BY <1>8, <4>1, <4>2
    <3> QED BY <3>1, <3>2
  <2>2. F = [n \in 0 .. N |-> Shown(cells, n)]
    OBVIOUS
  <2> HIDE DEF F
  <2> QED BY <2>1, <2>2
<1>11. taken = [n \in 0 .. N |-> Step(n, taken[n - 1])]
  <2>1. \E f : f = [n \in 0 .. N |-> Step(n, f[n - 1])]
    BY <1>10
  <2> HIDE DEF F
  <2> QED BY <2>1
<1> HIDE DEF taken
<1>12. \A n \in 0 .. N : taken[n] = Shown(cells, n)
  <2> DEFINE T == {n \in Nat : n <= N => taken[n] = Shown(cells, n)}
  <2>1. 0 \in T
    <3>1. taken[0] = Step(0, taken[0 - 1])
      BY <1>2, <1>11
    <3>2. Step(0, taken[0 - 1]) = {}
      BY DEF Step
    <3> QED BY <1>9, <3>1, <3>2
  <2>2. ASSUME NEW n \in Nat, n \in T PROVE n + 1 \in T
    <3> SUFFICES ASSUME n + 1 <= N PROVE taken[n + 1] = Shown(cells, n + 1)
      OBVIOUS
    <3>1. n + 1 \in 1 .. N /\ n + 1 \in 0 .. N /\ (n + 1) - 1 = n /\ n <= N
      BY <1>2
    <3>2. taken[n] = Shown(cells, n)
      BY <2>2, <3>1
    <3>3. taken[n + 1] = Step(n + 1, taken[n])
      BY <1>11, <3>1
    <3>4. Step(n + 1, Shown(cells, n)) = Shown(cells, n + 1)
      BY <1>8, <3>1
    <3> QED BY <3>2, <3>3, <3>4
  <2> HIDE DEF T
  <2>3. Nat \subseteq T
    BY <2>1, <2>2, NatInductive
  <2>4. \A n \in 0 .. N : n \in Nat /\ n <= N
    BY <1>2
  <2> QED BY <2>3, <2>4 DEF T
<1>13. Browser(html) = Shown(cells, N)
  BY <1>2, <1>6, <1>12
<1>14. Shown(cells, N) = {<<r, c, grid[r][c]>> : r \in DOMAIN grid, c \in DOMAIN grid[1]}
  <2> DEFINE S == {<<r, c, grid[r][c]>> : r \in DOMAIN grid, c \in DOMAIN grid[1]}
  <2>1. ASSUME NEW x \in Shown(cells, N) PROVE x \in S
    <3>1. PICK k \in 1 .. N : x \in Covers(cells, k)
      BY DEF Shown
    <3>2. PICK r \in cells[k].row .. cells[k].bottom, c \in cells[k].column .. cells[k].right : x = <<r, c, k>>
      BY <3>1 DEF Covers
    <3>3. /\ cells[k].row \in 1 .. h /\ cells[k].column \in 1 .. w
          /\ cells[k].bottom \in 1 .. h /\ cells[k].right \in 1 .. w
      <4>1. k \in DOMAIN cells
        BY <1>2
      <4> QED BY <1>1, <1>15, <4>1, CellBounds
    <3>4. r \in 1 .. h /\ c \in 1 .. w
      BY <1>3, <3>3
    <3>5. <<r, c>> \in Area(cells[k])
      BY DEF Area
    <3>6. grid[r][c] = k
      BY <1>2, <3>5 DEF Squares
    <3>7. r \in DOMAIN grid /\ c \in DOMAIN grid[1]
      BY <1>3, <3>4
    <3> QED BY <3>2, <3>6, <3>7
  <2>2. ASSUME NEW r \in DOMAIN grid, NEW c \in DOMAIN grid[1] PROVE <<r, c, grid[r][c]>> \in Shown(cells, N)
    <3> DEFINE k == grid[r][c]
    <3>0. r \in Nat /\ c \in Nat /\ c \in DOMAIN grid[r]
      BY <1>3
    <3>1. k \in DOMAIN cells /\ Belongs(otsl[r][c], grid, cells, k, r, c) /\ r \in Nat /\ c \in Nat
      BY <1>1, <3>0 DEF PlacesInv
    <3> HIDE DEF k
    <3>2. r \in cells[k].row .. cells[k].bottom /\ c \in cells[k].column .. cells[k].right
      BY <1>2, <1>7, <3>1 DEF Belongs
    <3>3. <<r, c, k>> \in Shown(cells, N)
      BY <1>2, <3>1, <3>2, ShownIs
    <3> QED BY <3>3 DEF k
  <2>3. \A x \in S : x \in Shown(cells, N)
    BY <2>2
  <2> HIDE DEF S
  <2>4. Shown(cells, N) = S
    BY <2>1, <2>3
  <2> QED BY <2>4 DEF S
<1> QED BY <1>13, <1>14 DEF html

-----------------------------------------------------------------------------
(* TableOtsl.  The steps of table_to_html().                               *)

\* The inductive invariant: while the tokens are read, what has been read; then the answer.
OtslInv ==
  /\ verdict = "reading" => ReadInv(otsl, grid, cells) /\ FollowInv(otsl, grid, cells)
  /\ verdict = "table" => FullInv(otsl, grid, cells) /\ ~Ragged(grid) /\ Squares(grid, cells)
  /\ verdict = "misplaced" => \A t \in Tilings : ~BeginsLike(t)
  /\ verdict \in {"table", "refused"} => (verdict = "table" <=> otsl \in Tilings)

\* What the code asks of a token is what continuing a cell takes.
LEMMA ContinuesGoes ==
  ASSUME NEW t \in {"lcel", "ucel", "xcel"}
  PROVE  /\ Continues(t) => Goes(t, grid, cells, Owner(t))
         /\ ~Continues(t) => \A k : ~Goes(t, grid, cells, k)
<1>1. CASE t = "lcel"
  BY <1>1 DEF Continues, Goes, Owner, HasLeft, HasUpper, LeftOwner, UpperOwner, Row, Column
<1>2. CASE t = "ucel"
  BY <1>2 DEF Continues, Goes, Owner, HasLeft, HasUpper, LeftOwner, UpperOwner, Row, Column
<1>3. CASE t = "xcel"
  BY <1>3 DEF Continues, Goes, Owner, HasLeft, HasUpper, LeftOwner, UpperOwner, Row, Column
<1> QED BY <1>1, <1>2, <1>3

\* Reading a token adds it, and the cell that it belongs to, at the end of the last row.
LEMMA PlaceIs ==
  ASSUME ReadInv(otsl, grid, cells), NEW t, NEW k
  PROVE  /\ [otsl EXCEPT ![Row] = Append(@, t)] = Placed(otsl, t)
         /\ [grid EXCEPT ![Row] = Append(@, k)] = Placed(grid, k)
<1>1. Len(otsl) = Len(grid)
  BY DEF ReadInv, ShapeInv
<1> QED BY <1>1 DEF Placed, Row

LEMMA OtslBegin ==
  ASSUME MaxRows \in Nat, MaxColumns \in Nat, OtslInv, Begin
  PROVE  OtslInv'
<1>1. verdict = "reading" /\ verdict' = "reading" /\ Row <= MaxRows /\ Column <= MaxColumns
  BY DEF Begin, HasRoom
<1>2. ReadInv(otsl, grid, cells) /\ FollowInv(otsl, grid, cells)
  BY <1>1 DEF OtslInv
<1> DEFINE k == Len(cells) + 1
           more == Append(cells, [row |-> Row, column |-> Column, bottom |-> Row, right |-> Column])
<1>3. otsl' = Placed(otsl, "cell") /\ grid' = Placed(grid, k) /\ cells' = more
  BY <1>2, PlaceIs DEF Begin, Place
<1>4. /\ ReadInv(Placed(otsl, "cell"), Placed(grid, k), more)
      /\ Later(cells, more) /\ k \in DOMAIN more /\ k \in Nat
      /\ more[k].row = Len(grid) /\ more[k].column = Len(grid[Len(grid)]) + 1
  <2> DEFINE R == Len(grid)
             C == Len(grid[R]) + 1
             new == Append(cells, [row |-> R, column |-> C, bottom |-> R, right |-> C])
  <2>1. R <= MaxRows /\ C <= MaxColumns
    BY <1>1 DEF Row, Column
  <2>2. ReadInv(Placed(otsl, "cell"), Placed(grid, k), new)
    BY <1>2, <2>1, BeginKeeps
  <2>3. Later(cells, new) /\ k \in DOMAIN new /\ k \in Nat
    BY <1>2, <2>1, BeginKeeps
  <2>4. new[k].row = R /\ new[k].column = C
    BY <1>2, <2>1, BeginKeeps
  <2>5. more = new
    BY DEF Row, Column
  <2> HIDE DEF more, new, k
  <2> QED BY <2>2, <2>3, <2>4, <2>5
<1> HIDE DEF k, more
<1>5. "cell" \in Tokens
  BY DEF Tokens
<1>6. FollowInv(Placed(otsl, "cell"), Placed(grid, k), more)
  BY <1>2, <1>4, <1>5, FollowPlace
<1>7. ReadInv(otsl', grid', cells') /\ FollowInv(otsl', grid', cells')
  BY <1>3, <1>4, <1>6
<1> QED BY <1>1, <1>7 DEF OtslInv

LEMMA OtslContinue ==
  ASSUME MaxRows \in Nat, MaxColumns \in Nat, OtslInv, NEW t \in {"lcel", "ucel", "xcel"}, Continue(t)
  PROVE  OtslInv'
<1>1. verdict = "reading" /\ verdict' = "reading" /\ Row <= MaxRows /\ Column <= MaxColumns /\ Continues(t)
  BY DEF Continue, HasRoom
<1>2. ReadInv(otsl, grid, cells) /\ FollowInv(otsl, grid, cells)
  BY <1>1 DEF OtslInv
<1> DEFINE k == Owner(t)
           more == Stretched(cells, k, Row, Column)
<1>3. otsl' = Placed(otsl, t) /\ grid' = Placed(grid, k)
  BY <1>2, PlaceIs DEF Continue, Place
<1>4. cells' = more
  BY DEF Continue, Stretched
<1>5. Goes(t, grid, cells, k)
  BY <1>1, ContinuesGoes
<1> HIDE DEF k
<1>6. /\ ReadInv(Placed(otsl, t), Placed(grid, k), more)
      /\ Later(cells, more) /\ k \in DOMAIN more /\ k \in Nat /\ t \in Tokens
  BY <1>1, <1>2, <1>5, GrowKeeps DEF Row, Column
<1> HIDE DEF more
<1>7. FollowInv(Placed(otsl, t), Placed(grid, k), more)
  BY <1>2, <1>5, <1>6, FollowPlace
<1>8. ReadInv(otsl', grid', cells') /\ FollowInv(otsl', grid', cells')
  BY <1>3, <1>4, <1>6, <1>7
<1> QED BY <1>1, <1>8 DEF OtslInv

LEMMA OtslMisplaced ==
  ASSUME MaxRows \in Nat, MaxColumns \in Nat, OtslInv, NEW t \in {"lcel", "ucel", "xcel"}, Misplaced(t)
  PROVE  OtslInv'
<1>1. verdict = "reading" /\ verdict' = "misplaced" /\ ~Continues(t)
  BY DEF Misplaced
<1>2. ReadInv(otsl, grid, cells) /\ FollowInv(otsl, grid, cells)
  BY <1>1 DEF OtslInv
<1>3. otsl' = Placed(otsl, t)
  BY <1>2, PlaceIs DEF Misplaced
<1>4. \A k : ~Goes(t, grid, cells, k)
  BY <1>1, ContinuesGoes
<1>5. ASSUME NEW u \in Tilings, BeginsLike(u)' PROVE FALSE
  <2> DEFINE O == otsl'
  <2>1. /\ Len(u) >= Len(O) /\ \A r \in 1 .. Len(O) : IsPrefix(O[r], u[r])
        /\ \A r \in 1 .. Len(O) - 1 : Len(O[r]) = Len(u[r])
    BY <1>5 DEF BeginsLike
  <2>2. O = Placed(otsl, t)
    BY <1>3
  <2> HIDE DEF O
  <2> QED BY <1>2, <1>4, <2>1, <2>2, NoTilingGoes
<1>6. Tilings' = Tilings
  BY DEF Tilings, IsTiling, RectangleAt, SpanDown, SpanRight
<1>7. (\A u \in Tilings : ~BeginsLike(u))'
  BY <1>5, <1>6
<1> QED BY <1>1, <1>7 DEF OtslInv

LEMMA OtslNewLine ==
  ASSUME MaxRows \in Nat, MaxColumns \in Nat, OtslInv, NewLine
  PROVE  OtslInv'
<1>1. verdict = "reading" /\ Row <= MaxRows /\ cells' = cells
  BY DEF NewLine
<1>2. ReadInv(otsl, grid, cells) /\ FollowInv(otsl, grid, cells)
  BY <1>1 DEF OtslInv
<1>3. CASE grid[Row] = <<>>
  <2>1. verdict' = "refused" /\ otsl' = otsl /\ Tilings' = Tilings
    BY <1>3 DEF NewLine, Tilings, IsTiling, RectangleAt, SpanDown, SpanRight
  <2>2. otsl \notin Tilings
    BY <1>2, <1>3, EmptyRowRefused DEF Row
  <2> QED BY <2>1, <2>2 DEF OtslInv
<1>4. CASE grid[Row] # <<>>
  <2>1. otsl' = Append(otsl, <<>>) /\ grid' = Append(grid, <<>>) /\ verdict' = "reading"
    BY <1>1, <1>4 DEF NewLine
  <2>2. ReadInv(Append(otsl, <<>>), Append(grid, <<>>), cells)
    BY <1>1, <1>2, <1>4, NewLineKeeps DEF Row
  <2>3. FollowInv(Append(otsl, <<>>), Append(grid, <<>>), cells)
    BY <1>2, FollowNewLine
  <2>4. ReadInv(otsl', grid', cells') /\ FollowInv(otsl', grid', cells')
    BY <1>1, <2>1, <2>2, <2>3
  <2> QED BY <2>1, <2>4 DEF OtslInv
<1> QED BY <1>3, <1>4

LEMMA OtslEnd ==
  ASSUME MaxRows \in Nat, MaxColumns \in Nat, OtslInv, End
  PROVE  OtslInv'
<1> DEFINE O == Rows(otsl)
           G == Rows(grid)
<1>1. /\ verdict = "reading" /\ cells # <<>> /\ cells' = cells /\ otsl' = O /\ grid' = G
      /\ verdict' = IF ~Ragged(G) /\ Rectangular(G) THEN "table" ELSE "refused"
  BY DEF End
<1>2. ReadInv(otsl, grid, cells) /\ FollowInv(otsl, grid, cells)
  BY <1>1 DEF OtslInv
<1>3. FullInv(O, G, cells) /\ RowsOf(otsl, grid, O, G)
  BY <1>1, <1>2, EndKeeps
<1>4. Tilings' = Tilings
  BY DEF Tilings, IsTiling, RectangleAt, SpanDown, SpanRight
<1> HIDE DEF O, G
<1>5. Rectangular(G) <=> Squares(G, cells)
  BY DEF Rectangular, Squares
<1>6. CASE ~Ragged(G) /\ Squares(G, cells)
  <2>1. O \in Tilings
    BY <1>3, <1>6, AcceptedTiles
  <2>2. verdict' = "table"
    BY <1>1, <1>5, <1>6
  <2>3. FullInv(otsl', grid', cells') /\ ~Ragged(grid') /\ Squares(grid', cells') /\ otsl' \in Tilings
    BY <1>1, <1>3, <1>6, <2>1
  <2> QED BY <1>4, <2>2, <2>3 DEF OtslInv
<1>7. CASE ~(~Ragged(G) /\ Squares(G, cells))
  <2>1. O \notin Tilings
    BY <1>2, <1>3, <1>7, TilingAccepted
  <2>2. verdict' = "refused"
    BY <1>1, <1>5, <1>7
  <2>3. otsl' \notin Tilings
    BY <1>1, <2>1
  <2> QED BY <1>4, <2>2, <2>3 DEF OtslInv
<1> QED BY <1>6, <1>7

\* table_to_html() accepts a text if and only if its tokens cut a table into rectangles, each
\* refused token goes on with no such table, and a browser shows the HTML as the tokens say.
THEOREM TableIsRead == OtslSpec => []TableReads
<1> USE OtslAssumption
<1>1. OtslInit => OtslInv
  <2> SUFFICES ASSUME OtslInit PROVE OtslInv
    OBVIOUS
  <2>1. otsl = << <<>> >> /\ grid = << <<>> >> /\ cells = <<>> /\ verdict = "reading"
    BY DEF OtslInit
  <2>2. ReadInv(otsl, grid, cells) /\ FollowInv(otsl, grid, cells)
    BY <2>1, InitReads, InitFollows
  <2> QED BY <2>1, <2>2 DEF OtslInv
<1>2. OtslInv /\ [OtslNext]_otslVars => OtslInv'
  <2> SUFFICES ASSUME OtslInv, [OtslNext]_otslVars PROVE OtslInv'
    OBVIOUS
  <2>1. CASE Begin
    BY <2>1, OtslBegin
  <2>2. CASE NewLine
    BY <2>2, OtslNewLine
  <2>3. CASE End
    BY <2>3, OtslEnd
  <2>4. ASSUME NEW t \in {"lcel", "ucel", "xcel"}, Continue(t) PROVE OtslInv'
    BY <2>4, OtslContinue
  <2>5. ASSUME NEW t \in {"lcel", "ucel", "xcel"}, Misplaced(t) PROVE OtslInv'
    BY <2>5, OtslMisplaced
  <2>6. CASE UNCHANGED otslVars
    <3>1. otsl' = otsl /\ grid' = grid /\ cells' = cells /\ verdict' = verdict
      BY <2>6 DEF otslVars
    <3>2. Tilings' = Tilings
      BY DEF Tilings, IsTiling, RectangleAt, SpanDown, SpanRight
    <3>3. \A t : BeginsLike(t)' <=> BeginsLike(t)
      BY <3>1 DEF BeginsLike
    <3> QED BY <3>1, <3>2, <3>3 DEF OtslInv
  <2> QED BY <2>1, <2>2, <2>3, <2>4, <2>5, <2>6 DEF OtslNext
<1>3. OtslInv => TableReads
  BY BrowserIs DEF OtslInv, TableReads
<1> QED BY <1>1, <1>2, <1>3, PTL DEF OtslSpec
=============================================================================
