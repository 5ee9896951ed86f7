---------------------- MODULE FunctionResolutionProofs ----------------------
(***************************************************************************)
(* Proofs about function resolution, for any threads, functions and calls  *)
(* between them: one thread works on each function, what is handed out has *)
(* code with its breakpoints, code never changes under its callers, and    *)
(* FunctionResolution implements ResolutionContract.                       *)
(***************************************************************************)
EXTENDS FunctionResolution, TLAPS

Working == {"declare", "demand", "await", "translate", "declare_callee", "setup", "announce",
            "define"}

\* What a caller knows of its own call, and when it was answered.
Stage ==
    /\ Debugger \in alive
    /\ \A t \in Callers :
          /\ at[t] # "idle" => target[t] \in Addresses
          /\ at[t] = "declare_callee" => callee[t] \in Addresses /\ callee[t] # target[t]
          /\ at[t] = "return" => entry[target[t]] \in {"READY", "FAILED"}

\* Symbols belong to the module that is loaded; only the one who works on the
\* entry defines the symbol.
Symbols ==
    /\ \A a \in Addresses :
          /\ symbol[a] # None => loaded
          /\ entry[a] = "READY" => symbol[a] # None
          /\ symbol[a] = "kDefined" => entry[a] \in {"COMPILING", "READY"} /\ code[a] = loads
    /\ \A t \in Callers :
          /\ at[t] \in Working \cup {"finish"} => symbol[target[t]] # None
          /\ at[t] \in Working \cup {"lookup", "fail"} => symbol[target[t]] # "kDefined"
          /\ at[t] = "finish" => symbol[target[t]] = "kDefined" \/ target[t] \in mistaken

\* Code that is there belongs to a function that is defined or about to be.
Code ==
    /\ \A a \in Addresses :
          /\ code[a] # 0 => \/ symbol[a] = "kDefined"
                            \/ \E t \in Callers : target[t] = a /\ at[t] \in {"announce", "define"}
          /\ loaded /\ indirection[a] # 0 =>
                            \/ symbol[a] = "kDefined"
                            \/ \E t \in Callers : target[t] = a /\ at[t] \in
                                                          {"setup", "announce", "define"}
          /\ loaded => indirection[a] \in {0, loads}
    /\ \A t \in Callers :
          /\ at[t] = "setup" => indirection[target[t]] = loads
          /\ at[t] \in {"announce", "define"} =>
                code[target[t]] = loads /\ indirection[target[t]] = loads

\* Breakpoints are in the code before the function is handed out.
Patched ==
    \A t \in Callers :
        at[t] \in {"define", "finish"} /\ target[t] \in installed /\ target[t] \notin mistaken
            => patched[target[t]] = code[target[t]]

IInv == ResolutionInv /\ Stage /\ Symbols /\ Code /\ Patched /\ WhatIsReady

LEMMA Names ==
    /\ None \notin Addresses /\ Debugger \in Callers /\ Threads \subseteq Callers
    /\ None \notin {"COMPILING", "READY", "FAILED", "kDeclared", "kDefining", "kDefined",
                    "kFailed"}
BY ResolutionAssumption DEF Callers, Debugger

\* The steps of the threads and the debugger, by the part of the code.

Starts(t)     == Call(t) \/ Precompile(t) \/ Die(t)
LooksUp(t)    == LookupFunction(t) \/ Probe(t)
Declares(t)   == Declare(t) \/ DeclareProbe(t) \/ DeclareCallee(t)
Places(t)     == PlaceGuestCode(t) \/ Setup(t)
Ends(t)       == Finish(t) \/ Fail(t) \/ TranslationFails(t) \/ Define(t)
Breakpoints   == AddBreakpoint \/ RemoveBreakpoint

LEMMA Steps ==
    [Next]_vars =>
        \/ \E t \in Callers :
              \/ Starts(t) \/ GetOrCreate(t) \/ LooksUp(t) \/ Declares(t)
              \/ DefineSymbol(t) \/ AwaitDefinition(t) \/ LookupCallee(t)
              \/ Places(t) \/ OnFunctionDefined(t) \/ Ends(t) \/ Return(t)
        \/ Breakpoints \/ Load \/ Unload \/ UNCHANGED vars
BY DEF Next, Step, Starts, LooksUp, Declares, Places, Ends, Breakpoints

LEMMA InitIInv == Init => IInv
<1> SUFFICES ASSUME Init PROVE IInv
  OBVIOUS
<1> USE ResolutionAssumption, Names DEF Init
<1>1. ResolutionTypeOK
  <2>1. /\ entry \in [Addresses -> EntryStatus] /\ symbol \in [Addresses -> SymbolStatus]
        /\ code \in [Addresses -> 0 .. MaxLoads] /\ indirection \in [Addresses -> 0 .. MaxLoads]
        /\ patched \in [Addresses -> 0 .. MaxLoads]
    BY DEF EntryStatus, SymbolStatus
  <2>2. /\ at \in [Callers -> Stages] /\ target \in [Callers -> Addresses \cup {None}]
        /\ todo \in [Callers -> SUBSET Addresses]
        /\ callee \in [Callers -> Addresses \cup {None}]
    BY DEF Stages
  <2>3. loaded \in BOOLEAN
    BY Zenon
  <2>4. /\ loads \in 0 .. MaxLoads /\ installed \in SUBSET Addresses /\ alive \in SUBSET Callers
        /\ mistaken \in SUBSET Addresses /\ holder \in {None, Debugger}
    OBVIOUS
  <2> QED  BY <2>1, <2>2, <2>3, <2>4 DEF ResolutionTypeOK
<1>2. OneWorker
  BY DEF OneWorker, WorksOn, Defines
<1>3. Stage /\ Symbols /\ Code /\ Patched /\ WhatIsReady
  BY DEF Stage, Symbols, Code, Patched, WhatIsReady, Working
<1> QED
  BY <1>1, <1>2, <1>3 DEF IInv, ResolutionInv

\* All variables keep their types.
LEMMA TypesKept == ASSUME IInv, [Next]_vars PROVE ResolutionTypeOK'
<1> USE ResolutionAssumption, Names
    DEF ResolutionTypeOK, EntryStatus, SymbolStatus, Stages, Stage,
        At, Goto, Lock, SetSymbol, SetEntry, module, machine, break, local
<1>0. ResolutionTypeOK /\ OneWorker /\ Stage /\ Symbols /\ Code /\ Patched /\ WhatIsReady
  BY DEF IInv, ResolutionInv
<1>1. ASSUME NEW t \in Callers, Starts(t) PROVE ResolutionTypeOK'
  BY <1>0, <1>1 DEF Starts, Call, Precompile, Die
<1>2. ASSUME NEW t \in Callers, GetOrCreate(t) PROVE ResolutionTypeOK'
  BY <1>0, <1>2 DEF GetOrCreate
<1>3. ASSUME NEW t \in Callers, LooksUp(t) PROVE ResolutionTypeOK'
  BY <1>0, <1>3 DEF LooksUp, LookupFunction, Probe
<1>4. ASSUME NEW t \in Callers, Declares(t) PROVE ResolutionTypeOK'
  BY <1>0, <1>4 DEF Declares, Declare, DeclareProbe, DeclareCallee
<1>5. ASSUME NEW t \in Callers, DefineSymbol(t) PROVE ResolutionTypeOK'
  BY <1>0, <1>5 DEF DefineSymbol
<1>6. ASSUME NEW t \in Callers, AwaitDefinition(t) PROVE ResolutionTypeOK'
  BY <1>0, <1>6 DEF AwaitDefinition
<1>7. ASSUME NEW t \in Callers, LookupCallee(t) PROVE ResolutionTypeOK'
  BY <1>0, <1>7 DEF LookupCallee
<1>8. ASSUME NEW t \in Callers, Places(t) PROVE ResolutionTypeOK'
  BY <1>0, <1>8 DEF Places, PlaceGuestCode, Setup
<1>9. ASSUME NEW t \in Callers, OnFunctionDefined(t) PROVE ResolutionTypeOK'
  BY <1>0, <1>9 DEF OnFunctionDefined
<1>10. ASSUME NEW t \in Callers, Ends(t) PROVE ResolutionTypeOK'
  BY <1>0, <1>10 DEF Ends, Finish, Fail, TranslationFails, Define
<1>11. ASSUME NEW t \in Callers, Return(t) PROVE ResolutionTypeOK'
  BY <1>0, <1>11 DEF Return
<1>12. CASE Breakpoints
  BY <1>0, <1>12 DEF Breakpoints, AddBreakpoint, RemoveBreakpoint
<1>13. CASE Load
  BY <1>0, <1>13 DEF Load
<1>14. CASE Unload
  <2>1. /\ at' \in [Callers -> Stages] /\ target' \in [Callers -> Addresses \cup {None}]
        /\ todo' \in [Callers -> SUBSET Addresses] /\ callee' \in [Callers -> Addresses \cup {None}]
    BY <1>0, <1>14 DEF Unload
  <2>2. entry' \in [Addresses -> EntryStatus] /\ symbol' \in [Addresses -> SymbolStatus]
    BY <1>0, <1>14 DEF Unload
  <2>3. code' \in [Addresses -> 0 .. MaxLoads] /\ mistaken' \in SUBSET Addresses
    BY <1>0, <1>14 DEF Unload
  <2>4. loaded' \in BOOLEAN
    BY <1>14, Zenon DEF Unload
  <2> QED
    BY <1>0, <2>1, <2>2, <2>3, <2>4, <1>14 DEF Unload
<1>15. CASE UNCHANGED vars
  BY <1>0, <1>15 DEF vars
<1> QED
  BY <1>1, <1>2, <1>3, <1>4, <1>5, <1>6, <1>7, <1>8,
     <1>9, <1>10, <1>11, <1>12, <1>13, <1>14, <1>15, Steps

\* Whoever is answered finds an answer.
LEMMA StageKept == ASSUME IInv, [Next]_vars PROVE Stage'
<1> USE ResolutionAssumption, Names
    DEF Stage, ResolutionTypeOK, EntryStatus, At, Goto, Lock, SetSymbol, SetEntry,
        module, machine, break, local
<1>0. ResolutionTypeOK /\ OneWorker /\ Stage /\ Symbols /\ Code /\ Patched /\ WhatIsReady
  BY DEF IInv, ResolutionInv
<1>1. ASSUME NEW t \in Callers, Starts(t) PROVE Stage'
  BY <1>0, <1>1 DEF Starts, Call, Precompile, Die
<1>2. ASSUME NEW t \in Callers, GetOrCreate(t) PROVE Stage'
  BY <1>0, <1>2 DEF GetOrCreate
<1>3. ASSUME NEW t \in Callers, LooksUp(t) PROVE Stage'
  BY <1>0, <1>3 DEF LooksUp, LookupFunction, Probe
<1>4. ASSUME NEW t \in Callers, Declares(t) PROVE Stage'
  BY <1>0, <1>4 DEF Declares, Declare, DeclareProbe, DeclareCallee
<1>5. ASSUME NEW t \in Callers, DefineSymbol(t) PROVE Stage'
  BY <1>0, <1>5 DEF DefineSymbol
<1>6. ASSUME NEW t \in Callers, AwaitDefinition(t) PROVE Stage'
  BY <1>0, <1>6 DEF AwaitDefinition
<1>7. ASSUME NEW t \in Callers, LookupCallee(t) PROVE Stage'
  <2>1. symbol[target[t]] = "kDefining"
    BY <1>0, <1>7 DEF LookupCallee, OneWorker, Defines
  <2> QED
    BY <1>0, <2>1, <1>7 DEF LookupCallee
<1>8. ASSUME NEW t \in Callers, Places(t) PROVE Stage'
  BY <1>0, <1>8 DEF Places, PlaceGuestCode, Setup
<1>9. ASSUME NEW t \in Callers, OnFunctionDefined(t) PROVE Stage'
  BY <1>0, <1>9 DEF OnFunctionDefined
<1>10. ASSUME NEW t \in Callers, Ends(t) PROVE Stage'
  BY <1>0, <1>10 DEF Ends, Finish, Fail, TranslationFails, Define
<1>11. ASSUME NEW t \in Callers, Return(t) PROVE Stage'
  BY <1>0, <1>11 DEF Return
<1>12. CASE Breakpoints
  BY <1>0, <1>12 DEF Breakpoints, AddBreakpoint, RemoveBreakpoint
<1>13. CASE Load
  BY <1>0, <1>13 DEF Load
<1>14. CASE Unload
  BY <1>0, <1>14 DEF Unload, DiedEarly
<1>15. CASE UNCHANGED vars
  BY <1>0, <1>15 DEF vars
<1> QED
  BY <1>1, <1>2, <1>3, <1>4, <1>5, <1>6, <1>7, <1>8,
     <1>9, <1>10, <1>11, <1>12, <1>13, <1>14, <1>15, Steps

\* One thread works on an entry, one defines a symbol.
LEMMA OneWorkerKept == ASSUME IInv, [Next]_vars PROVE OneWorker'
<1> USE ResolutionAssumption, Names
    DEF OneWorker, WorksOn, Defines, Stage, ResolutionTypeOK, At, Goto, Lock,
        SetSymbol, SetEntry, module, machine, break, local
<1>0. ResolutionTypeOK /\ OneWorker /\ Stage /\ Symbols /\ Code /\ Patched /\ WhatIsReady
  BY DEF IInv, ResolutionInv
<1>1. ASSUME NEW t \in Callers, Starts(t) PROVE OneWorker'
  <2>1. CASE Call(t)
    BY <1>0, <2>1 DEF Call
  <2>2. CASE Precompile(t)
    BY <1>0, <2>2 DEF Precompile
  <2>3. CASE Die(t)
    BY <1>0, <2>3 DEF Die
  <2> QED  BY <1>1, <2>1, <2>2, <2>3 DEF Starts
<1>2. ASSUME NEW t \in Callers, GetOrCreate(t) PROVE OneWorker'
  <2>1. CASE entry[target[t]] = None
    BY <1>0, <2>1, <1>2, SMTT(30) DEF GetOrCreate
  <2>2. CASE entry[target[t]] # None
    <3>1. \A u \in Callers, a \in Addresses :
              (WorksOn(u, a)' <=> WorksOn(u, a)) /\ (Defines(u, a)' <=> Defines(u, a))
      BY <1>0, <2>2, <1>2 DEF GetOrCreate
    <3> QED
      BY <1>0, <2>2, <3>1, <1>2 DEF GetOrCreate
  <2> QED  BY <2>1, <2>2
<1>3. ASSUME NEW t \in Callers, LooksUp(t) PROVE OneWorker'
  <2>1. CASE LookupFunction(t)
    <3>1. CASE loaded /\ symbol[target[t]] = None
      BY <1>0, <3>1, <2>1, SMTT(30) DEF LookupFunction
    <3>2. CASE ~(loaded /\ symbol[target[t]] = None)
      <4>1. /\ \E where \in {"fail", "demand"} : Goto(t, where)
            /\ UNCHANGED <<entry, symbol, target, callee>>
        BY <3>2, <2>1 DEF LookupFunction
      <4>2. \A u \in Callers, a \in Addresses :
                (WorksOn(u, a)' <=> WorksOn(u, a)) /\ (Defines(u, a)' <=> Defines(u, a))
        BY <1>0, <4>1, <2>1 DEF LookupFunction
      <4> QED
        BY <1>0, <4>1, <4>2
    <3> QED  BY <3>1, <3>2
  <2>2. CASE Probe(t)
    BY <1>0, <2>2 DEF Probe
  <2> QED  BY <1>3, <2>1, <2>2 DEF LooksUp
<1>4. ASSUME NEW t \in Callers, Declares(t) PROVE OneWorker'
  <2>1. CASE Declare(t)
    BY <1>0, <2>1 DEF Declare
  <2>2. CASE DeclareProbe(t)
    BY <1>0, <2>2 DEF DeclareProbe
  <2>3. CASE DeclareCallee(t)
    BY <1>0, <2>3 DEF DeclareCallee
  <2> QED  BY <1>4, <2>1, <2>2, <2>3 DEF Declares
<1>5. ASSUME NEW t \in Callers, DefineSymbol(t) PROVE OneWorker'
  <2>1. CASE symbol[target[t]] = "kDeclared"
    BY <1>0, <2>1, <1>5 DEF DefineSymbol
  <2>2. CASE symbol[target[t]] # "kDeclared"
    <3>1. /\ \E where \in {"await", "fail", "finish"} : Goto(t, where)
          /\ UNCHANGED <<entry, symbol, target, callee>>
      BY <1>0, <2>2, <1>5 DEF DefineSymbol
    <3>2. \A u \in Callers, a \in Addresses :
              (WorksOn(u, a)' <=> WorksOn(u, a)) /\ (Defines(u, a)' <=> Defines(u, a))
      BY <1>0, <3>1, <1>5 DEF DefineSymbol
    <3> QED
      BY <1>0, <3>1, <3>2
  <2> QED  BY <2>1, <2>2
<1>6. ASSUME NEW t \in Callers, AwaitDefinition(t) PROVE OneWorker'
  BY <1>0, <1>6 DEF AwaitDefinition
<1>7. ASSUME NEW t \in Callers, LookupCallee(t) PROVE OneWorker'
  BY <1>0, <1>7, SMTT(30) DEF LookupCallee
<1>8. ASSUME NEW t \in Callers, Places(t) PROVE OneWorker'
  BY <1>0, <1>8, SMTT(30) DEF Places, PlaceGuestCode, Setup
<1>9. ASSUME NEW t \in Callers, OnFunctionDefined(t) PROVE OneWorker'
  BY <1>0, <1>9 DEF OnFunctionDefined
<1>10. ASSUME NEW t \in Callers, Ends(t) PROVE OneWorker'
  <2>1. CASE Finish(t)
    BY <1>0, <2>1 DEF Finish
  <2>2. CASE Fail(t)
    BY <1>0, <2>2 DEF Fail
  <2>3. CASE TranslationFails(t)
    BY <1>0, <2>3 DEF TranslationFails
  <2>4. CASE Define(t)
    BY <1>0, <2>4 DEF Define
  <2> QED  BY <1>10, <2>1, <2>2, <2>3, <2>4 DEF Ends
<1>11. ASSUME NEW t \in Callers, Return(t) PROVE OneWorker'
  BY <1>0, <1>11 DEF Return
<1>12. CASE Breakpoints
  <2>1. CASE AddBreakpoint
    BY <1>0, <2>1, SMTT(30) DEF AddBreakpoint
  <2>2. CASE RemoveBreakpoint
    BY <1>0, <2>2 DEF RemoveBreakpoint
  <2> QED  BY <1>12, <2>1, <2>2 DEF Breakpoints
<1>13. CASE Load
  BY <1>0, <1>13 DEF Load
<1>14. CASE Unload
  <2>1. \A u \in Callers : at'[u] = IF DiedEarly(u) THEN at[u] ELSE "idle"
    BY <1>14 DEF Unload
  <2>2. \A u \in Callers, a \in Addresses :
            WorksOn(u, a)' <=> WorksOn(u, a) /\ symbol[a] = None
    BY <1>0, <2>1, <1>14 DEF Unload, DiedEarly, Symbols, Working
  <2>3. \A u \in Callers, a \in Addresses : ~Defines(u, a)'
    BY <2>1 DEF DiedEarly
  <2> QED
    BY <1>0, <2>2, <2>3, <1>14 DEF Unload
<1>15. CASE UNCHANGED vars
  BY <1>0, <1>15 DEF vars
<1> QED
  BY <1>1, <1>2, <1>3, <1>4, <1>5, <1>6, <1>7, <1>8,
     <1>9, <1>10, <1>11, <1>12, <1>13, <1>14, <1>15, Steps

\* Only the thread that works on the entry defines the symbol.
LEMMA SymbolsKept == ASSUME IInv, [Next]_vars PROVE Symbols'
<1> USE ResolutionAssumption, Names
    DEF Symbols, Working, Stage, ResolutionTypeOK, EntryStatus, SymbolStatus, OneWorker,
        WorksOn, Defines, Code, At, Goto, Lock, SetSymbol, SetEntry, module, machine, break, local
<1>0. ResolutionTypeOK /\ OneWorker /\ Stage /\ Symbols /\ Code /\ Patched /\ WhatIsReady
  BY DEF IInv, ResolutionInv
<1>1. ASSUME NEW t \in Callers, Starts(t) PROVE Symbols'
  BY <1>0, <1>1 DEF Starts, Call, Precompile, Die
<1>2. ASSUME NEW t \in Callers, GetOrCreate(t) PROVE Symbols'
  <2>1. CASE entry[target[t]] = None
    <3>1. \A a \in Addresses : entry'[a] = "READY" => entry[a] = "READY"
      BY <1>0, <1>2, <2>1 DEF GetOrCreate
    <3>2. \A a \in Addresses :
             symbol[a] = "kDefined" => entry[a] \in {"COMPILING", "READY"} /\ entry'[a] = entry[a]
      BY <1>0, <1>2, <2>1 DEF GetOrCreate
    <3>3. symbol[target[t]] # "kDefined" /\ UNCHANGED <<module, symbol, code, target, mistaken>>
      BY <1>0, <1>2, <2>1, <3>2 DEF GetOrCreate
    <3>4. at' = [at EXCEPT ![t] = "lookup"]
      BY <1>2, <2>1 DEF GetOrCreate
    <3> QED
      BY <1>0, <3>1, <3>2, <3>3, <3>4
  <2>2. CASE entry[target[t]] # None
    BY <1>0, <1>2, <2>2 DEF GetOrCreate
  <2> QED
    BY <2>1, <2>2
<1>3. ASSUME NEW t \in Callers, LooksUp(t) PROVE Symbols'
  BY <1>0, <1>3 DEF LooksUp, LookupFunction, Probe
<1>4. ASSUME NEW t \in Callers, Declares(t) PROVE Symbols'
  <2>1. CASE Declare(t)
    BY <1>0, <2>1 DEF Declare
  <2>2. CASE DeclareProbe(t)
    BY <1>0, <2>2 DEF DeclareProbe
  <2>3. CASE DeclareCallee(t)
    BY <1>0, <2>3 DEF DeclareCallee
  <2> QED  BY <1>4, <2>1, <2>2, <2>3 DEF Declares
<1>5. ASSUME NEW t \in Callers, DefineSymbol(t) PROVE Symbols'
  BY <1>0, <1>5 DEF DefineSymbol
<1>6. ASSUME NEW t \in Callers, AwaitDefinition(t) PROVE Symbols'
  BY <1>0, <1>6 DEF AwaitDefinition
<1>7. ASSUME NEW t \in Callers, LookupCallee(t) PROVE Symbols'
  BY <1>0, <1>7 DEF LookupCallee
<1>8. ASSUME NEW t \in Callers, Places(t) PROVE Symbols'
  BY <1>0, <1>8 DEF Places, PlaceGuestCode, Setup
<1>9. ASSUME NEW t \in Callers, OnFunctionDefined(t) PROVE Symbols'
  BY <1>0, <1>9 DEF OnFunctionDefined
<1>10. ASSUME NEW t \in Callers, Ends(t) PROVE Symbols'
  BY <1>0, <1>10 DEF Ends, Finish, Fail, TranslationFails, Define
<1>11. ASSUME NEW t \in Callers, Return(t) PROVE Symbols'
  BY <1>0, <1>11 DEF Return
<1>12. CASE Breakpoints
  BY <1>0, <1>12 DEF Breakpoints, AddBreakpoint, RemoveBreakpoint
<1>13. CASE Load
  BY <1>0, <1>13 DEF Load
<1>14. CASE Unload
  BY <1>0, <1>14 DEF Unload, DiedEarly
<1>15. CASE UNCHANGED vars
  BY <1>0, <1>15 DEF vars
<1> QED
  BY <1>1, <1>2, <1>3, <1>4, <1>5, <1>6, <1>7, <1>8,
     <1>9, <1>10, <1>11, <1>12, <1>13, <1>14, <1>15, Steps

\* Code appears with its function, and stays.
LEMMA CodeKept == ASSUME IInv, [Next]_vars PROVE Code'
<1> USE ResolutionAssumption, Names
    DEF Code, Symbols, Working, Stage, ResolutionTypeOK, OneWorker, WorksOn, Defines,
        At, Goto, Lock, SetSymbol, SetEntry, module, machine, break, local
<1>0. ResolutionTypeOK /\ OneWorker /\ Stage /\ Symbols /\ Code /\ Patched /\ WhatIsReady
  BY DEF IInv, ResolutionInv
<1>1. ASSUME NEW t \in Callers, Starts(t) PROVE Code'
  <2>1. CASE Call(t)
    BY <1>0, <2>1 DEF Call
  <2>2. CASE Precompile(t)
    BY <1>0, <2>2 DEF Precompile
  <2>3. CASE Die(t)
    BY <1>0, <2>3 DEF Die
  <2> QED  BY <1>1, <2>1, <2>2, <2>3 DEF Starts
<1>2. ASSUME NEW t \in Callers, GetOrCreate(t) PROVE Code'
  BY <1>0, <1>2 DEF GetOrCreate
<1>3. ASSUME NEW t \in Callers, LooksUp(t) PROVE Code'
  <2>1. CASE LookupFunction(t)
    <3>1. \A a \in Addresses : symbol[a] = "kDefined" => symbol'[a] = "kDefined"
      BY <1>0, <2>1 DEF LookupFunction
    <3>2. \A u \in Callers : at[u] \in {"setup", "announce", "define"} =>
                                at'[u] = at[u] /\ target'[u] = target[u]
      BY <1>0, <2>1 DEF LookupFunction
    <3>3. \A u \in Callers : at'[u] \in {"setup", "announce", "define"} =>
                                at[u] = at'[u] /\ target'[u] = target[u]
      BY <1>0, <2>1 DEF LookupFunction
    <3>4. UNCHANGED <<loaded, loads, code, indirection>>
      BY <2>1 DEF LookupFunction
    <3> QED
      BY <1>0, <3>1, <3>2, <3>3, <3>4
  <2>2. CASE Probe(t)
    <3>1. \A a \in Addresses : symbol[a] = "kDefined" => symbol'[a] = "kDefined"
      BY <1>0, <2>2 DEF Probe
    <3>2. \A u \in Callers : at[u] \in {"setup", "announce", "define"} =>
                                at'[u] = at[u] /\ target'[u] = target[u]
      BY <1>0, <2>2 DEF Probe
    <3>3. \A u \in Callers : at'[u] \in {"setup", "announce", "define"} =>
                                at[u] = at'[u] /\ target'[u] = target[u]
      BY <1>0, <2>2 DEF Probe
    <3>4. UNCHANGED <<loaded, loads, code, indirection>>
      BY <2>2 DEF Probe
    <3> QED
      BY <1>0, <3>1, <3>2, <3>3, <3>4
  <2> QED  BY <1>3, <2>1, <2>2 DEF LooksUp
<1>4. ASSUME NEW t \in Callers, Declares(t) PROVE Code'
  <2>1. CASE Declare(t)
    BY <1>0, <2>1, SMTT(30) DEF Declare
  <2>2. CASE DeclareProbe(t)
    BY <1>0, <2>2 DEF DeclareProbe
  <2>3. CASE DeclareCallee(t)
    BY <1>0, <2>3, SMTT(30) DEF DeclareCallee
  <2> QED  BY <1>4, <2>1, <2>2, <2>3 DEF Declares
<1>5. ASSUME NEW t \in Callers, DefineSymbol(t) PROVE Code'
  BY <1>0, <1>5, SMTT(30) DEF DefineSymbol
<1>6. ASSUME NEW t \in Callers, AwaitDefinition(t) PROVE Code'
  BY <1>0, <1>6 DEF AwaitDefinition
<1>7. ASSUME NEW t \in Callers, LookupCallee(t) PROVE Code'
  <2>1. \A a \in Addresses : symbol[a] = "kDefined" => symbol'[a] = "kDefined"
    BY <1>0, <1>7 DEF LookupCallee
  <2>2. \A u \in Callers : at[u] \in {"setup", "announce", "define"} =>
                                at'[u] = at[u] /\ target'[u] = target[u]
    BY <1>0, <1>7 DEF LookupCallee
  <2>3. \A u \in Callers : at'[u] \in {"setup", "announce", "define"} =>
                                at[u] = at'[u] /\ target'[u] = target[u]
    BY <1>0, <1>7 DEF LookupCallee
  <2>4. UNCHANGED <<loaded, loads, code, indirection>>
    BY <1>7 DEF LookupCallee
  <2> QED
    BY <1>0, <2>1, <2>2, <2>3, <2>4
<1>8. ASSUME NEW t \in Callers, Places(t) PROVE Code'
  <2>1. CASE PlaceGuestCode(t)
    BY <1>0, <2>1 DEF PlaceGuestCode
  <2>2. CASE Setup(t)
    BY <1>0, <2>2 DEF Setup
  <2> QED  BY <1>8, <2>1, <2>2 DEF Places
<1>9. ASSUME NEW t \in Callers, OnFunctionDefined(t) PROVE Code'
  BY <1>0, <1>9 DEF OnFunctionDefined
<1>10. ASSUME NEW t \in Callers, Ends(t) PROVE Code'
  BY <1>0, <1>10, SMTT(30) DEF Ends, Finish, Fail, TranslationFails, Define
<1>11. ASSUME NEW t \in Callers, Return(t) PROVE Code'
  BY <1>0, <1>11 DEF Return
<1>12. CASE Breakpoints
  <2>1. CASE AddBreakpoint
    BY <1>0, <2>1 DEF AddBreakpoint
  <2>2. CASE RemoveBreakpoint
    BY <1>0, <2>2 DEF RemoveBreakpoint
  <2> QED  BY <1>12, <2>1, <2>2 DEF Breakpoints
<1>13. CASE Load
  BY <1>0, <1>13 DEF Load
<1>14. CASE Unload
  BY <1>0, <1>14 DEF Unload, DiedEarly
<1>15. CASE UNCHANGED vars
  BY <1>0, <1>15 DEF vars
<1> QED
  BY <1>1, <1>2, <1>3, <1>4, <1>5, <1>6, <1>7, <1>8,
     <1>9, <1>10, <1>11, <1>12, <1>13, <1>14, <1>15, Steps

\* New code gets the breakpoints that are installed.
LEMMA PatchedKept == ASSUME IInv, [Next]_vars PROVE Patched'
<1> USE ResolutionAssumption, Names
    DEF Patched, Code, Symbols, Working, Stage, ResolutionTypeOK, SymbolStatus,
        OneWorker, WorksOn, Defines, At, Goto, Lock, SetSymbol, SetEntry, module,
        machine, break, local
<1>0. ResolutionTypeOK /\ OneWorker /\ Stage /\ Symbols /\ Code /\ Patched /\ WhatIsReady
  BY DEF IInv, ResolutionInv
<1>1. ASSUME NEW t \in Callers, Starts(t) PROVE Patched'
  BY <1>0, <1>1 DEF Starts, Call, Precompile, Die
<1>2. ASSUME NEW t \in Callers, GetOrCreate(t) PROVE Patched'
  BY <1>0, <1>2 DEF GetOrCreate
<1>3. ASSUME NEW t \in Callers, LooksUp(t) PROVE Patched'
  BY <1>0, <1>3 DEF LooksUp, LookupFunction, Probe
<1>4. ASSUME NEW t \in Callers, Declares(t) PROVE Patched'
  BY <1>0, <1>4 DEF Declares, Declare, DeclareProbe, DeclareCallee
<1>5. ASSUME NEW t \in Callers, DefineSymbol(t) PROVE Patched'
  BY <1>0, <1>5 DEF DefineSymbol
<1>6. ASSUME NEW t \in Callers, AwaitDefinition(t) PROVE Patched'
  BY <1>0, <1>6 DEF AwaitDefinition
<1>7. ASSUME NEW t \in Callers, LookupCallee(t) PROVE Patched'
  BY <1>0, <1>7 DEF LookupCallee
<1>8. ASSUME NEW t \in Callers, Places(t) PROVE Patched'
  BY <1>0, <1>8 DEF Places, PlaceGuestCode, Setup
<1>9. ASSUME NEW t \in Callers, OnFunctionDefined(t) PROVE Patched'
  BY <1>0, <1>9 DEF OnFunctionDefined
<1>10. ASSUME NEW t \in Callers, Ends(t) PROVE Patched'
  BY <1>0, <1>10 DEF Ends, Finish, Fail, TranslationFails, Define
<1>11. ASSUME NEW t \in Callers, Return(t) PROVE Patched'
  BY <1>0, <1>11 DEF Return
<1>12. CASE Breakpoints
  BY <1>0, <1>12 DEF Breakpoints, AddBreakpoint, RemoveBreakpoint
<1>13. CASE Load
  BY <1>0, <1>13 DEF Load
<1>14. CASE Unload
  BY <1>0, <1>14 DEF Unload, DiedEarly
<1>15. CASE UNCHANGED vars
  BY <1>0, <1>15 DEF vars
<1> QED
  BY <1>1, <1>2, <1>3, <1>4, <1>5, <1>6, <1>7, <1>8,
     <1>9, <1>10, <1>11, <1>12, <1>13, <1>14, <1>15, Steps

\* What was handed out stays callable.
LEMMA ReadyKept == ASSUME IInv, [Next]_vars PROVE WhatIsReady'
<1> USE ResolutionAssumption, Names
    DEF WhatIsReady, Patched, Code, Symbols, Working, Stage, ResolutionTypeOK,
        OneWorker, WorksOn, Defines, At, Goto, Lock, SetSymbol, SetEntry, module,
        machine, break, local
<1>0. ResolutionTypeOK /\ OneWorker /\ Stage /\ Symbols /\ Code /\ Patched /\ WhatIsReady
  BY DEF IInv, ResolutionInv
<1>1. ASSUME NEW t \in Callers, Starts(t) PROVE WhatIsReady'
  BY <1>0, <1>1 DEF Starts, Call, Precompile, Die
<1>2. ASSUME NEW t \in Callers, GetOrCreate(t) PROVE WhatIsReady'
  BY <1>0, <1>2 DEF GetOrCreate
<1>3. ASSUME NEW t \in Callers, LooksUp(t) PROVE WhatIsReady'
  BY <1>0, <1>3 DEF LooksUp, LookupFunction, Probe
<1>4. ASSUME NEW t \in Callers, Declares(t) PROVE WhatIsReady'
  <2>1. CASE Declare(t)
    BY <1>0, <2>1 DEF Declare
  <2>2. CASE DeclareProbe(t)
    BY <1>0, <2>2 DEF DeclareProbe
  <2>3. CASE DeclareCallee(t)
    BY <1>0, <2>3 DEF DeclareCallee
  <2> QED  BY <1>4, <2>1, <2>2, <2>3 DEF Declares
<1>5. ASSUME NEW t \in Callers, DefineSymbol(t) PROVE WhatIsReady'
  BY <1>0, <1>5 DEF DefineSymbol
<1>6. ASSUME NEW t \in Callers, AwaitDefinition(t) PROVE WhatIsReady'
  BY <1>0, <1>6 DEF AwaitDefinition
<1>7. ASSUME NEW t \in Callers, LookupCallee(t) PROVE WhatIsReady'
  BY <1>0, <1>7 DEF LookupCallee
<1>8. ASSUME NEW t \in Callers, Places(t) PROVE WhatIsReady'
  BY <1>0, <1>8 DEF Places, PlaceGuestCode, Setup
<1>9. ASSUME NEW t \in Callers, OnFunctionDefined(t) PROVE WhatIsReady'
  BY <1>0, <1>9 DEF OnFunctionDefined
<1>10. ASSUME NEW t \in Callers, Ends(t) PROVE WhatIsReady'
  BY <1>0, <1>10 DEF Ends, Finish, Fail, TranslationFails, Define
<1>11. ASSUME NEW t \in Callers, Return(t) PROVE WhatIsReady'
  BY <1>0, <1>11 DEF Return
<1>12. CASE Breakpoints
  BY <1>0, <1>12 DEF Breakpoints, AddBreakpoint, RemoveBreakpoint
<1>13. CASE Load
  BY <1>0, <1>13 DEF Load
<1>14. CASE Unload
  BY <1>0, <1>14 DEF Unload, DiedEarly
<1>15. CASE UNCHANGED vars
  BY <1>0, <1>15 DEF vars
<1> QED
  BY <1>1, <1>2, <1>3, <1>4, <1>5, <1>6, <1>7, <1>8,
     <1>9, <1>10, <1>11, <1>12, <1>13, <1>14, <1>15, Steps

LEMMA NextIInv == IInv /\ [Next]_vars => IInv'
BY TypesKept, OneWorkerKept, StageKept, SymbolsKept, CodeKept, PatchedKept, ReadyKept
   DEF IInv, ResolutionInv

-----------------------------------------------------------------------------
\* Whatever is being compiled, declared or defined has exactly one thread that
\* does it, for any number of threads and functions.
THEOREM ResolutionInvariance == Spec => []ResolutionInv
<1>1. Init => IInv
  BY InitIInv
<1>2. IInv /\ [Next]_vars => IInv'
  BY NextIInv
<1>3. IInv => ResolutionInv
  BY DEF IInv
<1> QED
  BY <1>1, <1>2, <1>3, PTL DEF Spec

\* Who is handed a function that was compiled can call it, and the breakpoints
\* that are installed in it are in its code.
THEOREM ReadyIsCallable == Spec => []WhatIsReady
<1>1. Init => IInv
  BY InitIInv
<1>2. IInv /\ [Next]_vars => IInv'
  BY NextIInv
<1>3. IInv => WhatIsReady
  BY DEF IInv
<1> QED
  BY <1>1, <1>2, <1>3, PTL DEF Spec

-----------------------------------------------------------------------------
\* What CodeIsStable says of one step.
CodeStep ==
    \A a \in Addresses :
        /\ code'[a] # code[a] /\ loaded => code[a] = 0 \/ ~loaded'
        /\ indirection'[a] # indirection[a] /\ loaded => indirection[a] = 0
        /\ loaded' => indirection'[a] \in {0, loads'}

LEMMA CodeSteps == ASSUME IInv, [Next]_vars PROVE CodeStep
<1> USE ResolutionAssumption, Names DEF module, machine, break, local, Goto
<1>0. ResolutionTypeOK /\ OneWorker /\ Stage /\ Symbols /\ Code
  BY DEF IInv, ResolutionInv
<1>1. CASE UNCHANGED <<code, indirection, module>>
  BY <1>0, <1>1 DEF CodeStep, Code
<1>2. ASSUME NEW t \in Callers, PlaceGuestCode(t) PROVE CodeStep
  <2>1. target[t] \in Addresses /\ symbol[target[t]] = "kDefining" /\ Defines(t, target[t])
    BY <1>0, <1>2 DEF PlaceGuestCode, At, Stage, OneWorker, Defines
  <2>2. indirection[target[t]] = 0
    BY <1>0, <1>2, <2>1 DEF PlaceGuestCode, At, Code, OneWorker, Defines, Symbols
  <2> QED
    BY <1>0, <1>2, <2>1, <2>2 DEF PlaceGuestCode, CodeStep, Code, ResolutionTypeOK
<1>3. ASSUME NEW t \in Callers, Setup(t) PROVE CodeStep
  <2>1. target[t] \in Addresses /\ symbol[target[t]] = "kDefining" /\ Defines(t, target[t])
    BY <1>0, <1>3 DEF Setup, At, Stage, OneWorker, Defines
  <2>2. code[target[t]] = 0 /\ indirection[target[t]] = loads
    BY <1>0, <1>3, <2>1 DEF Setup, At, Code, OneWorker, Defines
  <2> QED
    BY <1>0, <1>3, <2>1, <2>2 DEF Setup, CodeStep, Code, ResolutionTypeOK
<1>4. CASE Load
  BY <1>4 DEF Load, CodeStep
<1>5. CASE Unload
  BY <1>5 DEF Unload, CodeStep
<1>6. CASE \E t \in Callers : Starts(t) \/ GetOrCreate(t) \/ LooksUp(t) \/ Declares(t)
  BY <1>1, <1>6 DEF Starts, Call, Precompile, Die, GetOrCreate, LooksUp, LookupFunction, Probe,
                   Declares, Declare, DeclareProbe, DeclareCallee
<1>7. CASE \E t \in Callers : DefineSymbol(t) \/ AwaitDefinition(t) \/ LookupCallee(t)
  BY <1>1, <1>7 DEF DefineSymbol, AwaitDefinition, LookupCallee
<1>8. CASE \E t \in Callers : OnFunctionDefined(t) \/ Ends(t) \/ Return(t)
  BY <1>1, <1>8 DEF OnFunctionDefined, Ends, Finish, Fail, TranslationFails, Define, Return
<1>9. CASE Breakpoints \/ UNCHANGED vars
  BY <1>1, <1>9 DEF Breakpoints, AddBreakpoint, RemoveBreakpoint, vars
<1> QED
  BY <1>2, <1>3, <1>4, <1>5, <1>6, <1>7, <1>8, <1>9, Steps DEF Places

\* Code is compiled once in a load and never replaced under its callers, and no
\* call in a module that is loaded leads to code of an earlier load.
THEOREM CodeStaysStable == Spec => CodeIsStable
<1>1. Init => IInv
  BY InitIInv
<1>2. IInv /\ [Next]_vars => IInv'
  BY NextIInv
<1>3. IInv /\ [Next]_vars => [CodeStep]_vars
  BY CodeSteps
<1>4. Spec => [][CodeStep]_vars
  BY <1>1, <1>2, <1>3, PTL DEF Spec
<1> QED
  BY <1>4 DEF CodeIsStable, CodeStep

-----------------------------------------------------------------------------
\* The refinement mapping.
Outcome == [a \in Addresses |-> IF entry[a] = "COMPILING" THEN None ELSE entry[a]]
Asks ==
    [t \in Callers |-> IF at[t] \in {"idle", "probe", "declare_probe"} THEN None ELSE target[t]]
Gone == Callers \ alive

LEMMA InitContract == Init => Contract!Init
BY Names DEF Init, Contract!Init

Away == {"idle", "probe", "declare_probe"}

\* A step of one caller that asks and goes on asking, and one that changes
\* whether it asks, as the contract sees them.
LEMMA GoesOn ==
    ASSUME ResolutionTypeOK, NEW t \in Callers, NEW where \in Stages, Goto(t, where),
           at[t] \in Away <=> where \in Away, at[t] \in Away \/ target' = target,
           \A u \in Callers \ {t} : target'[u] = target[u], alive' = alive
    PROVE  Asks' = Asks /\ Gone' = Gone
BY DEF Asks, Gone, Goto, Away, ResolutionTypeOK

LEMMA StartsToAsk ==
    ASSUME ResolutionTypeOK, NEW t \in Callers, NEW where \in Stages, Goto(t, where),
           at[t] \in Away, where \notin Away, \A u \in Callers \ {t} : target'[u] = target[u]
    PROVE  Asks[t] = None /\ Asks' = [Asks EXCEPT ![t] = target'[t]]
BY DEF Asks, Goto, Away, ResolutionTypeOK

LEMMA StopsAsking ==
    ASSUME ResolutionTypeOK, NEW t \in Callers, NEW where \in Stages, Goto(t, where),
           at[t] \notin Away, where \in Away, \A u \in Callers \ {t} : target'[u] = target[u]
    PROVE  Asks[t] = target[t] /\ Asks' = [Asks EXCEPT ![t] = None]
BY DEF Asks, Goto, Away, ResolutionTypeOK

\* The steps of the contract, by what they do to the mapped state.
LEMMA AsAsk ==
    ASSUME NEW t \in alive, t \in Callers, Asks[t] = None,
           NEW a \in Addresses, Asks' = [Asks EXCEPT ![t] = a], UNCHANGED <<Outcome, Gone>>
    PROVE  Contract!Next
<1>1. Contract!Ask(t)
  BY DEF Contract!Ask, Asks, Outcome, Gone
<1> QED
  BY <1>1 DEF Contract!Next

LEMMA AsResolve ==
    ASSUME NEW t \in alive, t \in Callers, NEW a \in Addresses, Asks[t] = a, Outcome[a] = None,
           NEW o \in {"READY", "FAILED"}, Outcome' = [Outcome EXCEPT ![a] = o],
           UNCHANGED <<Asks, Gone>>
    PROVE  Contract!Next
<1>1. Contract!Resolve(t)
  BY Names DEF Contract!Resolve, Asks, Outcome, Gone
<1> QED
  BY <1>1 DEF Contract!Next

LEMMA AsAnswer ==
    ASSUME NEW t \in alive, t \in Callers, NEW a \in Addresses, Asks[t] = a, Outcome[a] # None,
           Asks' = [Asks EXCEPT ![t] = None], UNCHANGED <<Outcome, Gone>>
    PROVE  Contract!Next
<1>1. Contract!Answer(t)
  BY Names DEF Contract!Answer, Asks, Outcome, Gone
<1> QED
  BY <1>1 DEF Contract!Next

LEMMA ContractSteps ==
    ASSUME IInv, [Next]_vars PROVE [Contract!Next]_<<Outcome, Asks, Gone>>
<1> USE ResolutionAssumption, Names
<1>0. ResolutionTypeOK /\ OneWorker /\ Stage /\ Symbols
  BY DEF IInv, ResolutionInv
<1> DEFINE Keeps == UNCHANGED <<Outcome, Asks, Gone>>
           Asking == Stages \ Away
<1>a. ASSUME NEW t \in Callers, At(t, "idle") \/ At(t, "probe") \/ At(t, "declare_probe"),
             Goto(t, "get"), target'[t] \in Addresses,
             \A u \in Callers \ {t} : target'[u] = target[u], entry' = entry, alive' = alive
      PROVE  Contract!Next
  <2>1. t \in alive /\ at[t] \in Away
    BY <1>a DEF At, Away
  <2>2. Asks[t] = None /\ Asks' = [Asks EXCEPT ![t] = target'[t]]
    BY <1>0, <1>a, <2>1, StartsToAsk DEF Away, Stages
  <2>3. UNCHANGED <<Outcome, Gone>>
    BY <1>a DEF Outcome, Gone
  <2> QED
    BY <1>a, <2>1, <2>2, <2>3, AsAsk
<1>b. ASSUME NEW t \in Callers, NEW where \in Asking, at[t] \in Asking, Goto(t, where),
             UNCHANGED <<target, entry, alive>>
      PROVE  Keeps
  <2>1. UNCHANGED <<Asks, Gone>>
    BY <1>0, <1>b, GoesOn
  <2> QED
    BY <1>b, <2>1 DEF Outcome
<1>c. ASSUME NEW t \in Callers, NEW o \in {"READY", "FAILED"}, t \in alive,
             at[t] \in {"finish", "fail"}, Goto(t, "return"), SetEntry(target[t], o),
             UNCHANGED <<target, alive>>
      PROVE  Contract!Next
  <2>1. target[t] \in Addresses /\ entry[target[t]] = "COMPILING"
    BY <1>0, <1>c DEF Stage, OneWorker, WorksOn
  <2>2. UNCHANGED <<Asks, Gone>>
    BY <1>0, <1>c, GoesOn DEF Away, Stages
  <2>3. Asks[t] = target[t] /\ Outcome[target[t]] = None
    BY <1>c, <2>1 DEF Asks, Outcome
  <2>4. Outcome' = [Outcome EXCEPT ![target[t]] = o]
    BY <1>0, <1>c, <2>1 DEF Outcome, SetEntry, ResolutionTypeOK
  <2> QED
    BY <1>c, <2>1, <2>2, <2>3, <2>4, AsResolve
<1>1. ASSUME NEW t \in Callers, Call(t) PROVE Contract!Next
  BY <1>0, <1>1, <1>a DEF Call, ResolutionTypeOK
<1>2. ASSUME NEW t \in Callers, Precompile(t) PROVE Keeps
  <2>1. UNCHANGED <<Asks, Gone>>
    BY <1>0, <1>2, GoesOn DEF Precompile, At, Away, Stages, ResolutionTypeOK
  <2> QED
    BY <1>2, <2>1 DEF Precompile, Outcome
<1>3. ASSUME NEW t \in Callers, Die(t) PROVE Contract!Next
  <2>1. t \in Callers \ Gone /\ Gone' = Gone \cup {t} /\ UNCHANGED <<Outcome, Asks>>
    BY <1>0, <1>3 DEF Die, local, Outcome, Asks, Gone, ResolutionTypeOK
  <2>2. Contract!Leave(t)
    BY <2>1 DEF Contract!Leave, Outcome, Asks, Gone
  <2> QED
    BY <2>1, <2>2 DEF Contract!Next, Gone
<1>4. ASSUME NEW t \in Callers, GetOrCreate(t) PROVE Keeps
  <2>1. UNCHANGED <<Asks, Gone>>
    BY <1>0, <1>4, GoesOn DEF GetOrCreate, local, At, Away, Stages
  <2>2. Outcome' = Outcome
    BY <1>0, <1>4 DEF GetOrCreate, SetEntry, Outcome, ResolutionTypeOK
  <2> QED
    BY <2>1, <2>2
<1>5. ASSUME NEW t \in Callers, LookupFunction(t) PROVE Keeps
  BY <1>5, <1>b DEF LookupFunction, local, At, Away, Stages
<1>6. ASSUME NEW t \in Callers, Probe(t) PROVE Keeps \/ Contract!Next
  <2>1. CASE Goto(t, "get") /\ UNCHANGED target
    BY <1>0, <1>6, <1>a, <2>1 DEF Probe, At, Stage
  <2>2. CASE Goto(t, "declare_probe") \/ Goto(t, "idle")
    <3>1. UNCHANGED <<Asks, Gone>>
      BY <1>0, <1>6, <2>2, GoesOn DEF Probe, At, Away, Stages, ResolutionTypeOK
    <3> QED
      BY <1>6, <3>1 DEF Probe, Outcome
  <2> QED
    BY <1>6, <2>1, <2>2 DEF Probe
<1>7. ASSUME NEW t \in Callers, Declares(t) PROVE Keeps \/ Contract!Next
  <2>1. CASE DeclareProbe(t)
    BY <1>0, <2>1, <1>a DEF DeclareProbe, local, At, Stage
  <2>2. CASE Declare(t)
    BY <2>2, <1>b DEF Declare, local, At, Away, Stages
  <2>3. CASE DeclareCallee(t)
    BY <2>3, <1>b DEF DeclareCallee, At, Away, Stages
  <2> QED
    BY <1>7, <2>1, <2>2, <2>3 DEF Declares
<1>8. ASSUME NEW t \in Callers, DefineSymbol(t) PROVE Keeps
  BY <1>8, <1>b DEF DefineSymbol, At, Away, Stages
<1>9. ASSUME NEW t \in Callers, AwaitDefinition(t) PROVE Keeps
  BY <1>9, <1>b DEF AwaitDefinition, local, At, Away, Stages
<1>10. ASSUME NEW t \in Callers, LookupCallee(t) PROVE Keeps
  <2>1. Goto(t, "declare_callee") \/ Goto(t, "translate")
    BY <1>0, <1>10 DEF LookupCallee, At, Goto, ResolutionTypeOK
  <2> QED
    BY <1>10, <1>b, <2>1 DEF LookupCallee, At, Away, Stages
<1>11. ASSUME NEW t \in Callers, Places(t) PROVE Keeps
  BY <1>11, <1>b DEF Places, PlaceGuestCode, Setup, local, At, Away, Stages
<1>12. ASSUME NEW t \in Callers, OnFunctionDefined(t) PROVE Keeps
  BY <1>12, <1>b DEF OnFunctionDefined, local, At, Away, Stages
<1>13. ASSUME NEW t \in Callers, Ends(t) PROVE Keeps \/ Contract!Next
  <2>1. CASE Finish(t)
    BY <2>1, <1>c DEF Finish, local, At
  <2>2. CASE Fail(t)
    BY <2>2, <1>c DEF Fail, local, At
  <2>3. CASE TranslationFails(t)
    BY <2>3, <1>b DEF TranslationFails, At, Away, Stages
  <2>4. CASE Define(t)
    BY <2>4, <1>b DEF Define, local, At, Away, Stages
  <2> QED
    BY <1>13, <2>1, <2>2, <2>3, <2>4 DEF Ends
<1>14. ASSUME NEW t \in Callers, Return(t) PROVE Contract!Next
  <2>1. t \in alive /\ at[t] = "return" /\ target[t] \in Addresses
        /\ entry[target[t]] \in {"READY", "FAILED"}
    BY <1>0, <1>14 DEF Return, At, Stage
  <2>2. Asks[t] = target[t] /\ Asks' = [Asks EXCEPT ![t] = None]
    BY <1>0, <1>14, <2>1, StopsAsking DEF Return, Away, Stages, ResolutionTypeOK
  <2>3. Outcome[target[t]] # None /\ UNCHANGED <<Outcome, Gone>>
    BY <1>14, <2>1 DEF Return, Outcome, Gone
  <2> QED
    BY <2>1, <2>2, <2>3, AsAnswer
<1>15. CASE AddBreakpoint
  BY <1>0, <1>15, <1>a DEF AddBreakpoint, ResolutionTypeOK
<1>16. CASE RemoveBreakpoint \/ Load \/ UNCHANGED vars
  BY <1>16 DEF RemoveBreakpoint, Load, vars, local, Outcome, Asks, Gone
<1>17. ASSUME Unload PROVE Contract!Next
  <2> DEFINE A == {a \in Addresses : symbol[a] # None}
             C == {t \in Callers \ alive : ~DiedEarly(t)}
  <2>1. Outcome' = [a \in Addresses |-> IF a \in A THEN None ELSE Outcome[a]]
    BY <1>17 DEF Unload, Outcome
  <2>2. \A t \in alive : at[t] = "idle" /\ ~DiedEarly(t)
    BY <1>17 DEF Unload, DiedEarly
  <2>3. Asks' = [t \in Callers |-> IF t \in C THEN None ELSE Asks[t]]
    BY <1>17, <2>2 DEF Unload, Asks
  <2>4. /\ \A t \in Callers \ Gone : Asks[t] = None
        /\ Gone' = Gone /\ A \in SUBSET Addresses /\ C \in SUBSET Gone
    BY <1>17, <2>2 DEF Unload, Asks, Gone
  <2> HIDE DEF A, C
  <2>5. Contract!Forget
    BY <2>1, <2>3, <2>4 DEF Contract!Forget, Outcome, Asks, Gone
  <2> QED
    BY <2>5 DEF Contract!Next
<1> QED
  BY <1>1, <1>2, <1>3, <1>4, <1>5, <1>6, <1>7, <1>8, <1>9, <1>10, <1>11, <1>12, <1>13, <1>14,
     <1>15, <1>16, <1>17, Steps DEF Starts, LooksUp, Breakpoints

\* Everybody who resolves an address gets the one answer that one of them found.
THEOREM ContractRefinement == Spec => ImplementsContract
<1>1. Init => IInv
  BY InitIInv
<1>2. IInv /\ [Next]_vars => IInv'
  BY NextIInv
<1>3. IInv /\ [Next]_vars => [Contract!Next]_<<Outcome, Asks, Gone>>
  BY ContractSteps
<1>4. Init => Contract!Init
  BY InitContract
<1> QED
  BY <1>1, <1>2, <1>3, <1>4, PTL DEF Spec, ImplementsContract, Contract!Spec, Outcome, Asks, Gone
=============================================================================
