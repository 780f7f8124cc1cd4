------------------------- MODULE CrudBootstrapProofs -------------------------
(***************************************************************************)
(* Whether an application starts does not depend on the order of its       *)
(* start: VerdictHasNoOrder, for every set of resources, features and      *)
(* applications.                                                           *)
(*                                                                         *)
(* The invariant says what each step of the start has established so far:  *)
(* what is defined was accepted, what is imported is sound, a service has  *)
(* a capable adapter, and the registered resources do not collide, where   *)
(* the registry's routes and controllers are exactly those of its          *)
(* generated entries.  When every step has been taken these add up to      *)
(* IsCoherent, and each error that ends the start contradicts a conjunct.  *)
(***************************************************************************)
EXTENDS CrudBootstrap, TLAPS

PhaseOK == phase \in {"loading", "instantiating", "ready", "failed"}
DefinedOK == /\ defined \subseteq Resources
             /\ \A r \in defined : Accepted(Definition(r))
ImportedOK == /\ imported \subseteq Features
              /\ \A f \in imported : FeatureIsSound(f)
LoadedOK == phase \in {"instantiating", "ready"}
                => defined = Resources /\ imported = Features
ResolvedOK == resolved => OptionsAreSound /\ SecretIsSound
ServicesOK == services \subseteq Bound /\ \A r \in services : IsCapable(r)
TablesOK ==
    /\ routes = UNION {Signatures(Definition(r)) : r \in entries \cap Generated}
    /\ controllers = {ControllerName(Definition(r)) : r \in entries \cap Generated}
EntriesOK ==
    /\ entries \subseteq services
    /\ \A r, s \in entries : r # s => Definition(r).name # Definition(s).name
    /\ \A r, s \in entries \cap Generated : r # s =>
          /\ ControllerName(Definition(r)) # ControllerName(Definition(s))
          /\ Signatures(Definition(r)) \cap Signatures(Definition(s)) = {}

IInv == /\ PhaseOK /\ DefinedOK /\ ImportedOK /\ LoadedOK /\ ResolvedOK
        /\ ServicesOK /\ TablesOK /\ EntriesOK /\ VerdictHasNoOrder

(* What is said of the application alone does not change with the steps.   *)
LEMMA AppIsFixed ==
    ASSUME app' = app
    PROVE  /\ Bound' = Bound /\ Generated' = Generated
           /\ \A r : Definition(r)' = Definition(r)
           /\ \A r : IsCapable(r)' = IsCapable(r)
           /\ \A f : FeatureIsSound(f)' = FeatureIsSound(f)
           /\ OptionsAreSound' = OptionsAreSound
           /\ SecretIsSound' = SecretIsSound
           /\ IsCoherent' = IsCoherent
<1>1. /\ Bound' = Bound /\ Generated' = Generated
      /\ \A r : Definition(r)' = Definition(r)
      /\ \A r : Binding(r)' = Binding(r)
  BY DEF Bound, Generated, IsBound, IsGenerated, Definition, Binding
<1>2. OptionsAreSound' = OptionsAreSound /\ SecretIsSound' = SecretIsSound
  BY DEF OptionsAreSound, SecretIsSound, HasCodec, ModuleLimit, ModuleMaximum,
         MaxRelatedRows
<1>3. \A d : /\ FetchIsBounded(d)' = FetchIsBounded(d)
             /\ PagesAreConfigured(d)' = PagesAreConfigured(d)
  BY DEF FetchIsBounded, PagesAreConfigured, EffectiveLimit, EffectiveMaximum,
         ModuleLimit, ModuleMaximum, MaxRelatedRows, HasCodec
<1>4. \A r : IsCapable(r)' = IsCapable(r)
  BY <1>1, <1>3 DEF IsCapable
<1>5. \A f : FeatureIsSound(f)' = FeatureIsSound(f)
  BY <1>1 DEF FeatureIsSound
<1>6. /\ NamesDiffer' = NamesDiffer /\ RoutesDiffer' = RoutesDiffer
      /\ TargetsAreBound' = TargetsAreBound
  BY <1>1 DEF NamesDiffer, RoutesDiffer, TargetsAreBound
<1>7. IsCoherent' = IsCoherent
  BY <1>1, <1>2, <1>4, <1>6 DEF IsCoherent
<1> QED BY <1>1, <1>2, <1>4, <1>5, <1>7

(* The start begins with nothing established.                              *)
LEMMA InitInv == Init => IInv
  BY DEF Init, IInv, PhaseOK, DefinedOK, ImportedOK, LoadedOK, ResolvedOK,
         ServicesOK, TablesOK, EntriesOK, VerdictHasNoOrder

(* An error ends the start; it is justified when it shows an incoherence.  *)
LEMMA ThrowInv == ASSUME IInv, Throw, ~IsCoherent PROVE IInv'
<1>1. app' = app
  BY DEF Throw
<1> QED BY <1>1, AppIsFixed DEF Throw, IInv, PhaseOK, DefinedOK, ImportedOK,
           LoadedOK, ResolvedOK, ServicesOK, TablesOK, EntriesOK,
           VerdictHasNoOrder

(* A feature or a registration that is refused meets a second resource     *)
(* with its name, its controller or one of its routes.                     *)
LEMMA CollisionIsIncoherent ==
    ASSUME IInv
    PROVE  /\ \A f \in Features : ~FeatureIsSound(f) => ~IsCoherent
           /\ \A r \in services \ entries : ~RegistryAdmits(r) => ~IsCoherent
<1>1. ASSUME NEW f \in Features, ~FeatureIsSound(f) PROVE ~IsCoherent
  <2>1. PICK r \in Resources, s \in Resources :
          /\ app.feature[r] = f /\ app.feature[s] = f /\ r # s
          /\ \/ Definition(r).name = Definition(s).name
             \/ /\ app.generated[f]
                /\ ControllerName(Definition(r)) = ControllerName(Definition(s))
    BY <1>1 DEF FeatureIsSound
  <2>2. /\ r \in Bound /\ s \in Bound
        /\ app.generated[f] => r \in Generated /\ s \in Generated
    BY <2>1 DEF Bound, IsBound, Generated, IsGenerated
  <2> QED BY <2>1, <2>2 DEF IsCoherent, NamesDiffer, RoutesDiffer
<1>2. ASSUME NEW r \in services \ entries, ~RegistryAdmits(r)
      PROVE  ~IsCoherent
  <2>1. r \in Bound /\ entries \subseteq Bound
    BY DEF IInv, ServicesOK, EntriesOK
  <2>2. CASE ~NameIsFree(Definition(r))
    BY <2>1, <2>2 DEF NameIsFree, EntriesNamed, IsCoherent, NamesDiffer
  <2>3. CASE /\ r \in Generated
             /\ ~(/\ ControllerIsFree(Definition(r))
                  /\ RoutesAreFree(Definition(r)))
    <3>1. PICK s \in entries \cap Generated :
            \/ ControllerName(Definition(s)) = ControllerName(Definition(r))
            \/ Signatures(Definition(s)) \cap Signatures(Definition(r)) # {}
      BY <2>3 DEF ControllerIsFree, RoutesAreFree, IInv, TablesOK
    <3> QED BY <2>3, <3>1 DEF IsCoherent, RoutesDiffer
  <2> QED BY <1>2, <2>2, <2>3 DEF RegistryAdmits
<1> QED BY <1>1, <1>2

(* When everything is registered under names of its own, the relations     *)
(* lead to registered targets just when their targets are bound.           *)
LEMMA RelationsMeanTargets ==
    ASSUME IInv, entries = Bound PROVE RelationsLead <=> TargetsAreBound
<1>1. \A t \in Bound : EntriesNamed(Definition(t).name) = {t}
  BY DEF EntriesNamed, IInv, EntriesOK
<1>2. \A t \in Resources : EntriesNamed(Definition(t).name) # {}
                              /\ (\A e \in EntriesNamed(Definition(t).name) :
                                     e = t) => t \in Bound
  BY DEF EntriesNamed
<1>3. Bound \subseteq Resources
  BY DEF Bound
<1>4. ASSUME NEW relation
      PROVE  RelationLeads(relation)
                <=> /\ relation.target \in Bound
                    /\ Definition(relation.target).pathParams = None
                    /\ Members(relation.foreign)
                          \subseteq Members(Definition(relation.target).fields)
  BY <1>1, <1>2, <1>3 DEF RelationLeads
<1> QED BY <1>4 DEF RelationsLead, TargetsAreBound

(* When every provider exists, what the steps established is coherence but *)
(* for the relations and the runtime.                                      *)
LEMMA TogetherCoherent ==
    ASSUME IInv, CanBootstrap
    PROVE  IsCoherent <=> RuntimeIsInstalled /\ RelationsLead
<1>1. RelationsLead <=> TargetsAreBound
  BY RelationsMeanTargets DEF CanBootstrap
<1>2. RuntimeIsInstalled
        <=> (Bound # {} => {"validation", "serialization"} \subseteq app.runtime)
  BY DEF CanBootstrap, RuntimeIsInstalled
<1>3. \A r \in Resources : Accepted(Definition(r))
  BY DEF IInv, LoadedOK, DefinedOK, CanBootstrap
<1>4. OptionsAreSound /\ SecretIsSound
  BY DEF IInv, ResolvedOK, CanBootstrap
<1>5. \A r \in Bound : IsCapable(r)
  BY DEF IInv, ServicesOK, CanBootstrap
<1>6. NamesDiffer /\ RoutesDiffer
  <2>1. Generated \subseteq Bound
    BY DEF Generated
  <2> QED BY <2>1 DEF IInv, EntriesOK, CanBootstrap, NamesDiffer, RoutesDiffer
<1> QED BY <1>1, <1>2, <1>3, <1>4, <1>5, <1>6 DEF IsCoherent

(* A registration adds the entry, its routes and its controller together.  *)
LEMMA RegisterInv == ASSUME IInv, NEW r \in Resources, Register(r) PROVE IInv'
<1>1. app' = app /\ phase' = phase /\ phase = "instantiating"
  BY DEF Register, CanRegister
<1>2. /\ PhaseOK' /\ DefinedOK' /\ ImportedOK' /\ LoadedOK' /\ ResolvedOK'
      /\ ServicesOK' /\ VerdictHasNoOrder'
  BY <1>1, AppIsFixed DEF Register, IInv, PhaseOK, DefinedOK, ImportedOK,
     LoadedOK, ResolvedOK, ServicesOK, VerdictHasNoOrder
<1>3. entries' = entries \cup {r} /\ r \in services \ entries
  BY DEF Register, CanRegister
<1>4. TablesOK'
  <2>1. CASE r \in Generated
    <3>1. (entries \cap Generated)' = (entries \cap Generated) \cup {r}
      BY <1>1, <1>3, <2>1, AppIsFixed
    <3>2. routes' = routes \cup Signatures(Definition(r))
          /\ controllers' = controllers \cup {ControllerName(Definition(r))}
      BY <2>1 DEF Register
    <3> QED BY <1>1, <3>1, <3>2, AppIsFixed DEF IInv, TablesOK
  <2>2. CASE r \notin Generated
    <3>1. (entries \cap Generated)' = entries \cap Generated
      BY <1>1, <1>3, <2>2, AppIsFixed
    <3> QED BY <1>1, <2>2, <3>1, AppIsFixed DEF Register, IInv, TablesOK
  <2> QED BY <2>1, <2>2
<1>5. EntriesOK'
  <2>1. \A s \in entries : Definition(s).name # Definition(r).name
    BY DEF Register, RegistryAdmits, NameIsFree, EntriesNamed
  <2>2. r \in Generated => \A s \in entries \cap Generated :
          /\ ControllerName(Definition(s)) # ControllerName(Definition(r))
          /\ Signatures(Definition(s)) \cap Signatures(Definition(r)) = {}
    BY DEF Register, RegistryAdmits, ControllerIsFree, RoutesAreFree, IInv,
           TablesOK
  <2> QED BY <1>1, <1>3, <2>1, <2>2, AppIsFixed DEF IInv, EntriesOK, Register
<1> QED BY <1>2, <1>4, <1>5 DEF IInv

(* An accepted definition is defined.                                      *)
LEMMA DefineInv == ASSUME IInv, NEW r \in Resources, Define(r) PROVE IInv'
  BY AppIsFixed DEF Define, IInv, PhaseOK, DefinedOK, ImportedOK,
     LoadedOK, ResolvedOK, ServicesOK, TablesOK, EntriesOK, VerdictHasNoOrder

(* A sound feature is imported.                                            *)
LEMMA ForFeatureInv ==
    ASSUME IInv, NEW f \in Features, ForFeature(f) PROVE IInv'
  BY AppIsFixed DEF ForFeature, CanImport, IInv, PhaseOK, DefinedOK, ImportedOK,
     LoadedOK, ResolvedOK, ServicesOK, TablesOK, EntriesOK, VerdictHasNoOrder

(* A capable resource has its service.                                     *)
LEMMA ConstructInv ==
    ASSUME IInv, NEW r \in Resources, ConstructService(r) PROVE IInv'
  BY AppIsFixed DEF ConstructService, CanConstruct, IInv, PhaseOK, DefinedOK, ImportedOK,
     LoadedOK, ResolvedOK, ServicesOK, TablesOK, EntriesOK, VerdictHasNoOrder

(* The steps of the application as a whole; the last finds coherence.      *)
LEMMA StageInv ==
    ASSUME IInv, StartInstantiation \/ ResolveOptions \/ OnApplicationBootstrap
    PROVE  IInv'
<1>1. CASE StartInstantiation
  BY <1>1, AppIsFixed DEF StartInstantiation, IInv, PhaseOK, DefinedOK, ImportedOK,
     LoadedOK, ResolvedOK, ServicesOK, TablesOK, EntriesOK, VerdictHasNoOrder
<1>2. CASE ResolveOptions
  BY <1>2, AppIsFixed DEF ResolveOptions, IInv, PhaseOK, DefinedOK, ImportedOK,
     LoadedOK, ResolvedOK, ServicesOK, TablesOK, EntriesOK, VerdictHasNoOrder
<1>3. CASE OnApplicationBootstrap
  BY <1>3, AppIsFixed, TogetherCoherent DEF OnApplicationBootstrap, CanBootstrap,
     IInv, PhaseOK, DefinedOK, ImportedOK,
     LoadedOK, ResolvedOK, ServicesOK, TablesOK, EntriesOK, VerdictHasNoOrder
<1> QED BY <1>1, <1>2, <1>3

(* Every step keeps the invariant.                                         *)
LEMMA NextInv == IInv /\ [Boot]_bootVars => IInv'
<1> SUFFICES ASSUME IInv, [Boot]_bootVars PROVE IInv'
  OBVIOUS
<1>1. ASSUME NEW r \in Resources,
             Define(r) \/ ConstructService(r) \/ Register(r)
      PROVE  IInv'
  BY <1>1, DefineInv, ConstructInv, RegisterInv
<1>2. ASSUME NEW r \in Resources, DefineThrows(r) PROVE IInv'
  BY <1>2, ThrowInv DEF DefineThrows, IsCoherent
<1>3. ASSUME NEW r \in Resources, ConstructServiceThrows(r) PROVE IInv'
  BY <1>3, ThrowInv DEF ConstructServiceThrows, CanConstruct, IsCoherent
<1>4. ASSUME NEW r \in Resources, RegisterThrows(r) PROVE IInv'
  BY <1>4, ThrowInv, CollisionIsIncoherent DEF RegisterThrows, CanRegister
<1>5. ASSUME NEW f \in Features, ForFeature(f) \/ ForFeatureThrows(f)
      PROVE  IInv'
  BY <1>5, ForFeatureInv, ThrowInv, CollisionIsIncoherent DEF ForFeatureThrows
<1>6. CASE StartInstantiation \/ ResolveOptions \/ OnApplicationBootstrap
  BY <1>6, StageInv
<1>7. CASE ResolveOptionsThrows
  BY <1>7, ThrowInv DEF ResolveOptionsThrows, IsCoherent
<1>8. CASE OnApplicationBootstrapThrows
  BY <1>8, ThrowInv, TogetherCoherent DEF OnApplicationBootstrapThrows
<1>9. CASE UNCHANGED bootVars
  BY <1>9, AppIsFixed DEF bootVars, IInv, PhaseOK, DefinedOK, ImportedOK,
     LoadedOK, ResolvedOK, ServicesOK, TablesOK, EntriesOK, VerdictHasNoOrder
<1> QED BY <1>1, <1>2, <1>3, <1>4, <1>5, <1>6, <1>7, <1>8, <1>9 DEF Boot

(* An application is ready only when its resources are coherent and fails  *)
(* only when they are not, for all resources and features and every order. *)
THEOREM StartIsDecided == BootSpec => []VerdictHasNoOrder
<1>1. IInv => VerdictHasNoOrder
  BY DEF IInv
<1> QED BY InitInv, NextInv, <1>1, PTL DEF BootSpec
=============================================================================
