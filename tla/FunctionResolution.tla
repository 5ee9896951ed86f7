------------------------- MODULE FunctionResolution -------------------------
(***************************************************************************)
(* How guest functions are found and compiled on demand                    *)
(* (cpu/processor.cc, cpu/entry_table.cc, cpu/module.cc).                  *)
(*                                                                         *)
(* A thread that calls an address without code resolves it.  The entry     *)
(* table lets one thread work on an entry, the module's symbol table lets  *)
(* one thread define a function; the others wait for the status to change. *)
(* Compiling declares the functions that are called.  The code is placed   *)
(* in the code cache and reached through the indirection table.  The       *)
(* debugger installs breakpoints in functions, which it resolves first,    *)
(* with the global lock held.  The module may be unloaded and loaded again.*)
(***************************************************************************)
EXTENDS Integers, FiniteSets

CONSTANTS
    Threads,      \* threads that run guest code or precompile
    Addresses,    \* of the functions of one module
    Callees,      \* the functions a function calls directly
    None,
    MaxLoads,        \* BOUND on how often the module is loaded
    MaxBreakpoints,  \* BOUND on the breakpoints installed at a time
    MaxDeaths        \* BOUND on the threads that are terminated

Debugger == "debugger"

ASSUME ResolutionAssumption ==
    /\ Callees \in [Addresses -> SUBSET Addresses]
    /\ Debugger \notin Threads /\ None \notin Addresses \cup Threads \cup {Debugger}
    /\ None \notin {"COMPILING", "READY", "FAILED", "kDeclared", "kDefining", "kDefined", "kFailed"}
    /\ MaxLoads \in Nat /\ MaxBreakpoints \in Nat /\ MaxDeaths \in Nat

VARIABLES
    loaded, loads,   \* the module is loaded; the number of the current load
    entry,           \* Entry::status, or None without an entry
    symbol,          \* Symbol::status_, or None without a symbol
    code,            \* machine_code_: the load it was compiled in, 0 for none
    indirection,     \* the same for what the indirection table leads to
    installed,       \* breakpoints that are installed
    patched,         \* the load whose code holds the breakpoint instruction
    holder,          \* of the global lock across steps
    at, target,      \* stage of each thread, the address it resolves
    todo, callee,    \* callees still to be declared, the one being declared
    alive,           \* threads that were not terminated
    mistaken         \* history: addresses that were taken for defined when
                     \* they had only been declared

module  == <<loaded, loads>>
machine == <<code, indirection>>
break   == <<installed, patched>>
local   == <<target, todo, callee>>
vars    == <<module, entry, symbol, machine, break, holder, at, local, alive, mistaken>>

Callers == Threads \cup {Debugger}

EntryStatus  == {None, "COMPILING", "READY", "FAILED"}
SymbolStatus == {None, "kDeclared", "kDefining", "kDefined", "kFailed"}

Stages == {"idle", "probe", "declare_probe", "get", "lookup", "declare", "demand",
           "await", "translate", "declare_callee", "setup", "announce", "define",
           "finish", "fail", "return"}

ResolutionTypeOK ==
    /\ loaded \in BOOLEAN /\ loads \in 0 .. MaxLoads
    /\ entry \in [Addresses -> EntryStatus]
    /\ symbol \in [Addresses -> SymbolStatus]
    /\ code \in [Addresses -> 0 .. MaxLoads]
    /\ indirection \in [Addresses -> 0 .. MaxLoads]
    /\ installed \in SUBSET Addresses
    /\ patched \in [Addresses -> 0 .. MaxLoads]
    /\ holder \in {None, Debugger}
    /\ at \in [Callers -> Stages]
    /\ target \in [Callers -> Addresses \cup {None}]
    /\ todo \in [Callers -> SUBSET Addresses]
    /\ callee \in [Callers -> Addresses \cup {None}]
    /\ alive \in SUBSET Callers
    /\ mistaken \in SUBSET Addresses

Init ==
    /\ loaded = FALSE /\ loads = 0
    /\ entry = [a \in Addresses |-> None]
    /\ symbol = [a \in Addresses |-> None]
    /\ code = [a \in Addresses |-> 0]
    /\ indirection = [a \in Addresses |-> 0]
    /\ installed = {} /\ patched = [a \in Addresses |-> 0]
    /\ holder = None
    /\ at = [t \in Callers |-> "idle"]
    /\ target = [t \in Callers |-> None]
    /\ todo = [t \in Callers |-> {}] /\ callee = [t \in Callers |-> None]
    /\ alive = Callers
    /\ mistaken = {}

At(t, where)   == t \in alive /\ at[t] = where
Goto(t, where) == at' = [at EXCEPT ![t] = where]

\* The global lock is recursive.
Lock(t) == holder \in {None, t}

SetSymbol(a, status) == symbol' = [symbol EXCEPT ![a] = status]
SetEntry(a, status)  == entry' = [entry EXCEPT ![a] = status]

-----------------------------------------------------------------------------
(* EntryTable::GetOrCreate *)

Call(t) ==
    /\ At(t, "idle") /\ t \in Threads
    /\ \E a \in Addresses : target' = [target EXCEPT ![t] = a]
    /\ Goto(t, "get")
    /\ UNCHANGED <<module, entry, symbol, machine, break, holder, todo, callee, alive,
                   mistaken>>

\* Fault: an entry that is being compiled is handed out.
GetWithoutWaiting(t) ==
    /\ At(t, "get") /\ Lock(t)
    /\ IF entry[target[t]] = None
       THEN SetEntry(target[t], "COMPILING") /\ Goto(t, "lookup")
       ELSE UNCHANGED entry /\ Goto(t, "return")
    /\ UNCHANGED <<module, symbol, machine, break, holder, local, alive, mistaken>>

\* A new entry is for the caller to work on; one that is compiled by somebody
\* else is waited for, the lock being given up once in between.
GetOrCreate(t) ==
    /\ At(t, "get") /\ Lock(t)
    /\ entry[target[t]] # "COMPILING"
    /\ IF entry[target[t]] = None
       THEN SetEntry(target[t], "COMPILING") /\ Goto(t, "lookup")
       ELSE UNCHANGED entry /\ Goto(t, "return")
    /\ UNCHANGED <<module, symbol, machine, break, holder, local, alive, mistaken>>

-----------------------------------------------------------------------------
(* LookupFunction and Module::DeclareSymbol *)

\* A new symbol starts as being defined, whoever creates it declares it.
LookupFunction(t) ==
    /\ At(t, "lookup") /\ Lock(t)
    /\ IF ~loaded
       THEN UNCHANGED symbol /\ Goto(t, "fail")
       ELSE IF symbol[target[t]] = None
       THEN SetSymbol(target[t], "kDefining") /\ Goto(t, "declare")
       ELSE UNCHANGED symbol /\ Goto(t, "demand")
    /\ UNCHANGED <<module, entry, machine, break, holder, local, alive, mistaken>>

Declare(t) ==
    /\ At(t, "declare")
    /\ SetSymbol(target[t], "kDeclared")
    /\ Goto(t, "demand")
    /\ UNCHANGED <<module, entry, machine, break, holder, local, alive, mistaken>>

\* XexModule::PrecompileKnownFunctions: what is not defined is resolved.
Precompile(t) ==
    /\ At(t, "idle") /\ t \in Threads
    /\ \E a \in Addresses : target' = [target EXCEPT ![t] = a]
    /\ Goto(t, "probe")
    /\ UNCHANGED <<module, entry, symbol, machine, break, holder, todo, callee, alive,
                   mistaken>>

Probe(t) ==
    /\ At(t, "probe") /\ Lock(t)
    /\ IF loaded /\ symbol[target[t]] = None
       THEN SetSymbol(target[t], "kDefining") /\ Goto(t, "declare_probe") /\ UNCHANGED target
       ELSE /\ UNCHANGED symbol
            /\ IF symbol[target[t]] = "kDefined"
               THEN Goto(t, "idle") /\ target' = [target EXCEPT ![t] = None]
               ELSE Goto(t, "get") /\ UNCHANGED target
    /\ UNCHANGED <<module, entry, machine, break, holder, todo, callee, alive, mistaken>>

DeclareProbe(t) ==
    /\ At(t, "declare_probe")
    /\ SetSymbol(target[t], "kDeclared")
    /\ Goto(t, "get")
    /\ UNCHANGED <<module, entry, machine, break, holder, local, alive, mistaken>>

-----------------------------------------------------------------------------
(* DemandFunction and Module::DefineSymbol *)

\* Fault: a function that is being defined is defined once more.
DefineAnyway(t) ==
    /\ At(t, "demand") /\ Lock(t)
    /\ CASE symbol[target[t]] \in {"kDeclared", "kDefining"} ->
              /\ SetSymbol(target[t], "kDefining") /\ Goto(t, "translate")
              /\ todo' = [todo EXCEPT ![t] = Callees[target[t]]]
         [] symbol[target[t]] = "kDefined" ->
              UNCHANGED <<symbol, todo>> /\ Goto(t, "finish")
         [] OTHER -> UNCHANGED <<symbol, todo>> /\ Goto(t, "fail")
    /\ UNCHANGED <<module, entry, machine, break, holder, target, callee, alive, mistaken>>

DefineSymbol(t) ==
    /\ At(t, "demand") /\ Lock(t)
    /\ IF symbol[target[t]] = "kDeclared"
       THEN /\ SetSymbol(target[t], "kDefining")
            /\ todo' = [todo EXCEPT ![t] = Callees[target[t]]]
            /\ Goto(t, "translate")
       ELSE /\ UNCHANGED <<symbol, todo>>
            /\ Goto(t, CASE symbol[target[t]] = "kDefining" -> "await"
                         [] symbol[target[t]] = "kFailed"   -> "fail"
                         [] OTHER                           -> "finish")
    /\ UNCHANGED <<module, entry, machine, break, holder, target, callee, alive, mistaken>>

\* The spin ends with any other status; all but kFailed count as success.
AwaitDefinition(t) ==
    /\ At(t, "await") /\ Lock(t)
    /\ symbol[target[t]] # "kDefining"
    /\ Goto(t, IF symbol[target[t]] = "kFailed" THEN "fail" ELSE "finish")
    /\ mistaken' = IF symbol[target[t]] = "kDeclared" THEN mistaken \cup {target[t]}
                                                      ELSE mistaken
    /\ UNCHANGED <<module, entry, symbol, machine, break, holder, local, alive>>

-----------------------------------------------------------------------------
(* PPCTranslator::Translate and the code cache *)

\* The HIR builder looks up the functions that are called.
LookupCallee(t) ==
    /\ At(t, "translate") /\ Lock(t)
    /\ \E c \in todo[t] :
          /\ todo' = [todo EXCEPT ![t] = @ \ {c}]
          /\ IF loaded /\ symbol[c] = None
             THEN /\ SetSymbol(c, "kDefining")
                  /\ callee' = [callee EXCEPT ![t] = c] /\ Goto(t, "declare_callee")
             ELSE UNCHANGED <<symbol, callee, at>>
    /\ UNCHANGED <<module, entry, machine, break, holder, target, alive, mistaken>>

DeclareCallee(t) ==
    /\ At(t, "declare_callee")
    /\ SetSymbol(callee[t], "kDeclared")
    /\ callee' = [callee EXCEPT ![t] = None]
    /\ Goto(t, "translate")
    /\ UNCHANGED <<module, entry, machine, break, holder, target, todo, alive, mistaken>>

TranslationFails(t) ==
    /\ At(t, "translate")
    /\ SetSymbol(target[t], "kFailed")
    /\ todo' = [todo EXCEPT ![t] = {}]
    /\ Goto(t, "fail")
    /\ UNCHANGED <<module, entry, machine, break, holder, target, callee, alive, mistaken>>

\* PlaceGuestCode: from now on callers get here through the indirection table.
PlaceGuestCode(t) ==
    /\ At(t, "translate") /\ todo[t] = {} /\ Lock(t)
    /\ indirection' = [indirection EXCEPT ![target[t]] = loads]
    /\ Goto(t, "setup")
    /\ UNCHANGED <<module, entry, symbol, code, break, holder, local, alive, mistaken>>

Setup(t) ==
    /\ At(t, "setup")
    /\ code' = [code EXCEPT ![target[t]] = loads]
    /\ indirection' = [indirection EXCEPT ![target[t]] = loads]
    /\ Goto(t, "announce")
    /\ UNCHANGED <<module, entry, symbol, break, holder, local, alive, mistaken>>

\* Fault: breakpoints are not looked at.
AnnounceToNobody(t) ==
    /\ At(t, "announce") /\ Lock(t)
    /\ Goto(t, "define")
    /\ UNCHANGED <<module, entry, symbol, machine, break, holder, local, alive, mistaken>>

OnFunctionDefined(t) ==
    /\ At(t, "announce") /\ Lock(t)
    /\ patched' = IF target[t] \in installed
                  THEN [patched EXCEPT ![target[t]] = code[target[t]]] ELSE patched
    /\ Goto(t, "define")
    /\ UNCHANGED <<module, entry, symbol, machine, installed, holder, local, alive, mistaken>>

Define(t) ==
    /\ At(t, "define")
    /\ SetSymbol(target[t], "kDefined")
    /\ Goto(t, "finish")
    /\ UNCHANGED <<module, entry, machine, break, holder, local, alive, mistaken>>

-----------------------------------------------------------------------------
(* The end of ResolveFunction *)

Finish(t) ==
    /\ At(t, "finish")
    /\ SetEntry(target[t], "READY")
    /\ Goto(t, "return")
    /\ UNCHANGED <<module, symbol, machine, break, holder, local, alive, mistaken>>

\* Fault: a failure leaves the entry as it is.
FailQuietly(t) ==
    /\ At(t, "fail")
    /\ Goto(t, "return")
    /\ UNCHANGED <<module, entry, symbol, machine, break, holder, local, alive, mistaken>>

Fail(t) ==
    /\ At(t, "fail")
    /\ SetEntry(target[t], "FAILED")
    /\ Goto(t, "return")
    /\ UNCHANGED <<module, symbol, machine, break, holder, local, alive, mistaken>>

\* A guest thread jumps to the code; the debugger patches it.
Return(t) ==
    /\ At(t, "return")
    /\ IF t = Debugger
       THEN /\ installed' = installed \cup {target[t]}
            /\ patched' = IF entry[target[t]] = "READY"
                          THEN [patched EXCEPT ![target[t]] = code[target[t]]] ELSE patched
            /\ holder' = None
       ELSE UNCHANGED <<break, holder>>
    /\ Goto(t, "idle")
    /\ target' = [target EXCEPT ![t] = None]
    /\ UNCHANGED <<module, entry, symbol, machine, todo, callee, alive, mistaken>>

-----------------------------------------------------------------------------
(* Breakpoints, modules, threads *)

\* The lock is kept until the function is resolved and patched.
AddBreakpoint ==
    /\ At(Debugger, "idle") /\ holder = None /\ Cardinality(installed) < MaxBreakpoints
    /\ \E a \in Addresses \ installed : target' = [target EXCEPT ![Debugger] = a]
    /\ holder' = Debugger
    /\ Goto(Debugger, "get")
    /\ UNCHANGED <<module, entry, symbol, machine, break, todo, callee, alive, mistaken>>

RemoveBreakpoint ==
    /\ At(Debugger, "idle") /\ holder = None
    /\ \E a \in installed :
          /\ installed' = installed \ {a}
          /\ patched' = [patched EXCEPT ![a] = 0]
    /\ UNCHANGED <<module, entry, symbol, machine, holder, at, local, alive, mistaken>>

\* Fault: the table is left as it was.
LoadKeepsIndirection ==
    /\ ~loaded /\ loads < MaxLoads
    /\ loaded' = TRUE /\ loads' = loads + 1
    /\ UNCHANGED <<entry, symbol, machine, break, holder, at, local, alive, mistaken>>

\* CommitExecutableRange resets the indirection table.
Load ==
    /\ ~loaded /\ loads < MaxLoads
    /\ loaded' = TRUE /\ loads' = loads + 1
    /\ indirection' = [a \in Addresses |-> 0]
    /\ UNCHANGED <<entry, symbol, code, break, holder, at, local, alive, mistaken>>

\* Died before the function it was to resolve had a symbol.
DiedEarly(t) == at[t] \in {"lookup", "fail"} /\ symbol[target[t]] = None

\* RemoveModule destroys the functions and deletes the entries of those that
\* had a symbol.  The guest unloads a module that nobody calls any more.
Unload ==
    /\ loaded /\ \A t \in alive : at[t] = "idle"
    /\ loaded' = FALSE
    /\ entry' = [a \in Addresses |-> IF symbol[a] # None THEN None ELSE entry[a]]
    /\ symbol' = [a \in Addresses |-> None]
    /\ code' = [a \in Addresses |-> 0]
    /\ at' = [t \in Callers |-> IF DiedEarly(t) THEN at[t] ELSE "idle"]
    /\ target' = [t \in Callers |-> IF DiedEarly(t) THEN target[t] ELSE None]
    /\ todo' = [t \in Callers |-> {}] /\ callee' = [t \in Callers |-> None]
    /\ mistaken' = {}
    /\ UNCHANGED <<loads, indirection, break, holder, alive>>

\* A thread is terminated wherever it is.
Die(t) ==
    /\ t \in alive \ {Debugger} /\ Cardinality(Callers \ alive) < MaxDeaths
    /\ alive' = alive \ {t}
    /\ UNCHANGED <<module, entry, symbol, machine, break, holder, at, local, mistaken>>

-----------------------------------------------------------------------------

Step(t) ==
    \/ GetOrCreate(t) \/ LookupFunction(t) \/ Declare(t)
    \/ Probe(t) \/ DeclareProbe(t)
    \/ DefineSymbol(t) \/ AwaitDefinition(t)
    \/ LookupCallee(t) \/ DeclareCallee(t) \/ TranslationFails(t)
    \/ PlaceGuestCode(t) \/ Setup(t) \/ OnFunctionDefined(t) \/ Define(t)
    \/ Finish(t) \/ Fail(t) \/ Return(t)

Next ==
    \/ \E t \in Callers : Call(t) \/ Precompile(t) \/ Step(t) \/ Die(t)
    \/ AddBreakpoint \/ RemoveBreakpoint \/ Load \/ Unload

Spec == Init /\ [][Next]_vars

\* A thread that is not terminated goes on; it obtains the lock, which is free
\* again and again as long as the debugger does not keep it.
FairSpec == Spec /\ \A t \in Callers : SF_vars(Step(t))

-----------------------------------------------------------------------------
(* Properties *)

\* t works on the entry of a, or died doing so.
WorksOn(t, a) ==
    /\ target[t] = a
    /\ at[t] \in {"lookup", "declare", "demand", "await", "translate", "declare_callee",
                  "setup", "announce", "define", "finish", "fail"}

\* It is t that will change the status of symbol a.
Defines(t, a) ==
    \/ target[t] = a /\ at[t] \in {"declare", "declare_probe", "translate",
                                   "declare_callee", "setup", "announce", "define"}
    \/ callee[t] = a /\ at[t] = "declare_callee"

\* Whatever is being compiled is compiled by one thread, and whatever is being
\* declared or defined has one thread that will say so.
OneWorker ==
    \A a \in Addresses :
        /\ entry[a] = "COMPILING" <=> \E t \in Callers : WorksOn(t, a)
        /\ symbol[a] = "kDefining" <=> \E t \in Callers : Defines(t, a)
        /\ \A t, u \in Callers :
              /\ WorksOn(t, a) /\ WorksOn(u, a) => t = u
              /\ Defines(t, a) /\ Defines(u, a) => t = u

\* Types, and who works on what.
ResolutionInv == ResolutionTypeOK /\ OneWorker

\* Whoever is handed a function can call it: it has code of the present load,
\* which holds the breakpoint if one is installed -- unless somebody took the
\* end of its declaration for the end of its definition.
WhatIsReady ==
    \A a \in Addresses : entry[a] = "READY" /\ a \notin mistaken =>
        /\ symbol[a] = "kDefined" /\ loaded /\ code[a] = loads
        /\ a \in installed => patched[a] = code[a]

\* "Lock function for generation. If it's already being generated by another
\* thread this will block" (cpu/processor.cc:340).
CallersGetCode ==
    \A t \in Callers :
        at[t] = "return" /\ entry[target[t]] = "READY" => code[target[t]] # 0

\* A function is compiled once in a load, and never gets other code; what the
\* indirection table leads to is never replaced under its callers, and in a
\* module that is loaded it is never the code of an earlier load.
CodeIsStable ==
    [][\A a \in Addresses :
          /\ code'[a] # code[a] /\ loaded => code[a] = 0 \/ ~loaded'
          /\ indirection'[a] # indirection[a] /\ loaded => indirection[a] = 0
          /\ loaded' => indirection'[a] \in {0, loads'}]_vars

Contract == INSTANCE ResolutionContract WITH
    Nothing <- None,
    outcome <- [a \in Addresses |-> IF entry[a] = "COMPILING" THEN None ELSE entry[a]],
    asks    <- [t \in Callers |-> IF at[t] \in {"idle", "probe", "declare_probe"}
                                  THEN None ELSE target[t]],
    gone    <- Callers \ alive

\* All who resolve an address get the same answer, which one of them found.
ImplementsContract == Contract!Spec

\* The debugger waits, with the lock held, for a thread that needs the lock.
LockedOut == holder = Debugger /\ at[Debugger] \in {"get", "await"}

\* A thread that was terminated worked on something others need.
Abandoned == \E t \in Callers \ alive, a \in Addresses : WorksOn(t, a) \/ Defines(t, a)

\* Everybody who resolves a function gets an answer, also when functions call
\* each other, unless the debugger locks the others out or somebody died.
ResolvesReturn ==
    \A t \in Callers : at[t] # "idle" ~> at[t] = "idle" \/ t \notin alive \/ LockedOut \/ Abandoned
=============================================================================
