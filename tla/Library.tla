-------------------------------- MODULE Library --------------------------------
(***************************************************************************)
(* The life cycle of the library (lssubdec.c, lssubport.c, the service     *)
(* factory of lssubdecoder.c, the set-up of lsptsmgr.c): what each call    *)
(* takes from the host and gives back, when any of it may be refused.      *)
(*                                                                         *)
(* The library has one user, whose calls come from one thread and who      *)
(* makes at most one service.  A host that cannot make a mutex says so     *)
(* with an error other than LS_ERROR_GENERAL, as both demos do: LS_ListInit*)
(* then makes a list without a mutex, which refuses every operation.       *)
(***************************************************************************)
EXTENDS Integers, SequencesExt

CONSTANT MaxFailures  \* bound: what the host refuses

ASSUME LibraryAssumption == MaxFailures \in Nat

VARIABLES
  held,      \* memory and mutexes that the library has taken and not given back
  globals,   \* static pointers that are not NULL
  service,   \* state of the service, "none" if there is none
  failures   \* what the host has refused

libraryVars == << held, globals, service, failures >>

memory(x) == [what |-> "memory", of |-> x]
mutex(x) == [what |-> "mutex", of |-> x]
units(x) == [what |-> "units", of |-> x]

\* What they are for.
Names ==
  {"sSystemFuncs", "factory", "systemHeap", "serviceList", "ptsMgr", "clientInfo", "service",
   "displayPageList", "client", "clientNode", "codedData", "pixel", "composition",
   "serviceNode"}

LibraryInit == held = {} /\ globals = {} /\ service = "none" /\ failures = 0

-----------------------------------------------------------------------------
(* What the parts of the library consist of, in the order they are taken   *)

Heap(h) == << memory(h), mutex(h), units(h) >>

List(l) == << memory(l), mutex(l) >>

LS_UpdateSystemFuncs ==
  IF "sSystemFuncs" \in globals THEN << >>
  ELSE << memory("sSystemFuncs"), mutex("sSystemFuncs") >>

ServiceFactoryNew ==
  << memory("factory"), mutex("factory") >> \o Heap("systemHeap") \o List("serviceList")

ptsMgrNew == << memory("ptsMgr"), mutex("ptsMgr") >> \o List("clientInfo")

ServiceInstanceNew ==
  << memory("service") >> \o List("displayPageList") \o << mutex("service") >>

LS_PTSMgrRegisterClient == List("client") \o << memory("clientNode") >>

ServiceHeaps == Heap("codedData") \o Heap("pixel") \o Heap("composition")

ServiceFactoryRegister == << memory("serviceNode") >>

\* A service and its lists are used without a mutex if there is none.
Dispensable ==
  {mutex(x) : x \in {"sSystemFuncs", "serviceList", "clientInfo", "displayPageList",
                     "service", "client"}}

\* A list without a mutex takes no node.
Impossible ==
  {memory("clientNode") : x \in {mutex("clientInfo")} \ held}
  \cup {memory("serviceNode") : x \in {mutex("serviceList")} \ held}

-----------------------------------------------------------------------------
(* Taking them                                                             *)

\* Where the call fails if the host refuses these of its steps.
Fatal(steps, refused) ==
  {i \in DOMAIN steps : steps[i] \in Impossible}
  \cup {i \in refused : steps[i] \notin Dispensable}

Succeeds(steps, refused) == Fatal(steps, refused) = {}

\* What the call takes: all that is not refused, up to where it fails.
Taken(steps, refused) ==
  {steps[i] : i \in {j \in DOMAIN steps \ refused : \A k \in Fatal(steps, refused) : j < k}}

\* The host refuses some of these, none after the call has failed.
Refusals(steps) ==
  {refused \in {{}} \cup {Range(f) : f \in [1 .. MaxFailures - failures -> DOMAIN steps]} :
     \A i \in refused : \A k \in Fatal(steps, refused) : i <= k}

\* What LS_DVBSubDecInit gives back when it fails: LS_PTSMgrFinalize and ServiceFactoryFinalize
\* have nothing to do then but for what their own set-ups clean up.  The host's functions stay.
InitCleanUp == ToSet(ServiceFactoryNew \o ptsMgrNew)

LS_DVBSubDecInit(ok) ==
  LET steps == LS_UpdateSystemFuncs \o ServiceFactoryNew \o ptsMgrNew
  IN  /\ globals \cap {"gDecoderFactory", "__ptsMgr"} = {}
      /\ \E refused \in Refusals(steps) :
           LET got == held \cup Taken(steps, refused)
           IN  /\ ok = Succeeds(steps, refused)
               /\ held' = IF ok THEN got ELSE got \ InitCleanUp
               /\ globals' =
                    {g \in {"sSystemFuncs"} : memory(g) \in got}
                    \cup (IF ok THEN {"gDecoderFactory", "__ptsMgr"} ELSE {})
               /\ failures' = failures + Cardinality(refused)
      /\ UNCHANGED service

LS_PTSMgrUnRegisterClient == ToSet(LS_PTSMgrRegisterClient)

ServiceInstanceDelete == ToSet(ServiceInstanceNew)

\* Variant of ServiceCleanUp: the client stays registered with the PTS manager.
ServiceCleanUpKeepingClient ==
  ToSet(ServiceHeaps) \cup ServiceInstanceDelete

\* The heaps, the client and the service.
ServiceCleanUp ==
  ToSet(ServiceHeaps) \cup LS_PTSMgrUnRegisterClient \cup ServiceInstanceDelete

LS_DVBSubDecServiceNew(ok) ==
  LET steps == ServiceInstanceNew \o LS_PTSMgrRegisterClient \o ServiceHeaps
                 \o ServiceFactoryRegister
  IN  /\ {"gDecoderFactory", "__ptsMgr"} \subseteq globals /\ service = "none"
      /\ \E refused \in Refusals(steps) :
           LET got == held \cup Taken(steps, refused)
           IN  /\ ok = Succeeds(steps, refused)
               /\ held' = IF ok THEN got ELSE got \ ServiceCleanUp
               /\ failures' = failures + Cardinality(refused)
      /\ service' = IF ok THEN "NULL" ELSE "none"
      /\ UNCHANGED globals

-----------------------------------------------------------------------------
(* Giving them back                                                        *)

\* A service in any other state has been started before, and nothing changes.
LS_DVBSubDecServiceStart ==
  /\ service # "none"
  /\ service' = "READY"
  /\ UNCHANGED << held, globals, failures >>

\* Variant of LS_DVBSubDecServiceStop: a service that is not playing is not stopped.
ServiceStopWhenPlaying ==
  /\ service # "none"
  /\ UNCHANGED libraryVars

LS_DVBSubDecServiceStop ==
  /\ service # "none"
  /\ service' = "NULL"
  /\ UNCHANGED << held, globals, failures >>

\* A service that has not been stopped is not deleted.
LS_DVBSubDecServiceDelete ==
  /\ service # "none"
  /\ IF service = "NULL"
       THEN service' = "none" /\ held' = held \ (ServiceCleanUp \cup ToSet(ServiceFactoryRegister))
       ELSE UNCHANGED << service, held >>
  /\ UNCHANGED << globals, failures >>

ptsMgrDelete == ToSet(ptsMgrNew)

ServiceFactoryDelete == ToSet(ServiceFactoryNew)

\* The mutex that protects the host's functions is taken to clear them; without them it can
\* be neither released nor deleted, and its handle is dropped.
LS_ResetSystemFuncs == {memory("sSystemFuncs")}

Lost(m) == IF m \in held THEN {[what |-> "lostMutex", of |-> m.of]} ELSE {}

LS_DVBSubDecFinalize ==
  /\ held' = (held \ (ptsMgrDelete \cup ServiceFactoryDelete \cup LS_ResetSystemFuncs
                      \cup {mutex("sSystemFuncs")}))
             \cup Lost(mutex("sSystemFuncs"))
  /\ globals' = {}
  /\ UNCHANGED << service, failures >>

-----------------------------------------------------------------------------
(* Properties                                                              *)

\* What the pointers lead to.
Reachable ==
  (IF "sSystemFuncs" \in globals THEN ToSet(<< memory("sSystemFuncs"), mutex("sSystemFuncs") >>)
                                 ELSE {})
  \cup (IF "gDecoderFactory" \in globals THEN ToSet(ServiceFactoryNew) ELSE {})
  \cup (IF "__ptsMgr" \in globals THEN ToSet(ptsMgrNew) ELSE {})
  \cup (IF service = "none" THEN {}
        ELSE ToSet(ServiceInstanceNew \o LS_PTSMgrRegisterClient \o ServiceHeaps
                   \o ServiceFactoryRegister))

\* Wherever a call fails on its way, the library keeps what the pointers lead to, whole but
\* for the mutexes it does without, and nothing else but the mutex that each
\* LS_DVBSubDecFinalize loses.
NothingLeaks ==
  /\ Reachable \ Dispensable \subseteq held
  /\ {h \in held : h.what # "lostMutex"} \subseteq Reachable

=============================================================================
