------------------------------- MODULE OpResolver -------------------------------
(***************************************************************************)
(* MicroMutableOpResolver<tOpCount>: an array of registrations, and beside  *)
(* it an array of parsers with a counter of its own.  A registration is a    *)
(* kernel with the operator's code and name written into it; a pointer to    *)
(* it is its index, and 0 stands for nullptr.                               *)
(***************************************************************************)
EXTENDS Naturals, Sequences, FiniteSets, FiniteSetsExt, TLC

CONSTANTS
  tOpCount,
  Builtins,     \* codes of built-in operators that have an Add function
  Customs,      \* names of custom operators
  Kernels,      \* [init : the address of its init function, or 0]
  ParserOf,     \* the parser that the Add function of a built-in names
  EthosuKernels \* what Register_ETHOSU() returns: one kernel, or none for nullptr

CUSTOM == 32    \* BuiltinOperator_CUSTOM
ETHOSU == "ethos-u"
MaxCode == 209  \* BuiltinOperator_MAX
nullptr == 0

VARIABLES
  registrations_,    \* [builtin_code, custom_name, kernel], registrations_len_ of them
  builtin_codes_,    \* num_buitin_ops_ of them
  builtin_parsers_,
  asked,             \* the operator of the last call, as <<code, name>>
  status             \* and what it returned

vars == <<registrations_, builtin_codes_, builtin_parsers_, asked, status>>

NoName == "none"
BuiltinKey(code) == <<code, NoName>>
CustomKey(name) == <<CUSTOM, name>>
Keys == {BuiltinKey(op) : op \in Builtins} \union {CustomKey(n) : n \in Customs \union {ETHOSU}}

-----------------------------------------------------------------------------

\* The first index in s at which P holds.
First(s, P(_)) ==
  LET found == {i \in DOMAIN s : P(s[i])} IN IF found = {} THEN nullptr ELSE Min(found)

\* FindOp(BuiltinOperator), and FindOpDirect and FindOpDirectBuiltin like it.
FindBuiltin(op) ==
  IF op = CUSTOM THEN nullptr
  ELSE First(registrations_, LAMBDA r : r.builtin_code = op)

\* FindOp(const char* op).
FindCustom(name) ==
  First(registrations_, LAMBDA r : r.builtin_code = CUSTOM /\ r.custom_name = name)

\* A bug: the parsers are looked up at the indices of the registrations.
BugGetOpDataParser(op) ==
  LET i == FindBuiltin(op)
  IN IF i \in DOMAIN builtin_parsers_ THEN builtin_parsers_[i] ELSE "nullptr"

GetOpDataParser(op) ==
  LET i == First(builtin_codes_, LAMBDA code : code = op)
  IN IF i = nullptr THEN "nullptr" ELSE builtin_parsers_[i]

\* The registration of an operator code of the model, whose name may be missing.
GetRegistrationFromOpCode(code, name) ==
  CASE code > MaxCode -> nullptr
    [] code <= MaxCode /\ code # CUSTOM -> FindBuiltin(code)
    [] code = CUSTOM -> IF name = NoName THEN nullptr ELSE FindCustom(name)

-----------------------------------------------------------------------------

Init ==
  /\ registrations_ = <<>> /\ builtin_codes_ = <<>> /\ builtin_parsers_ = <<>>
  /\ asked \in Keys /\ status = "ok"

Answer(key, s) == asked' = key /\ status' = s
NoChange == UNCHANGED <<registrations_, builtin_codes_, builtin_parsers_>>

Full == Len(registrations_) >= tOpCount

Append1(code, name, kernel) ==
  registrations_' = Append(registrations_,
    [builtin_code |-> code, custom_name |-> name, kernel |-> kernel])

\* AddCustom, called with any name or by one of the Add functions.
AddCustom(name, kernel) ==
  IF Full \/ FindCustom(name) # nullptr
  THEN Answer(CustomKey(name), "error") /\ NoChange
  ELSE /\ Append1(CUSTOM, name, kernel)
       /\ Answer(CustomKey(name), "ok")
       /\ UNCHANGED <<builtin_codes_, builtin_parsers_>>

\* AddBuiltin, called by the Add function of op with a kernel of the caller's
\* choice, whose custom_name is kept.
AddBuiltin(op, kernel, name) ==
  IF op = CUSTOM \/ FindBuiltin(op) # nullptr \/ Full
  THEN Answer(BuiltinKey(op), "error") /\ NoChange
  ELSE /\ Append1(op, name, kernel)
       /\ builtin_codes_' = Append(builtin_codes_, op)
       /\ builtin_parsers_' = Append(builtin_parsers_, ParserOf[op])
       /\ Answer(BuiltinKey(op), "ok")

\* AddEthosU adds nothing where there is no such kernel.
AddEthosU ==
  \/ \E kernel \in EthosuKernels : AddCustom(ETHOSU, kernel)
  \/ EthosuKernels = {} /\ Answer(CustomKey(ETHOSU), "ok") /\ NoChange

Next ==
  \/ \E op \in Builtins, k \in Kernels, n \in Customs \union {NoName} : AddBuiltin(op, k, n)
  \/ \E name \in Customs, k \in Kernels : AddCustom(name, k)
  \/ AddEthosU

Spec == Init /\ [][Next]_vars

(***************************************************************************)
(* Properties.                                                              *)
(***************************************************************************)

TypeOK ==
  /\ Len(registrations_) <= tOpCount
  /\ \A i \in DOMAIN registrations_ :
       /\ registrations_[i].builtin_code \in Builtins \union {CUSTOM}
       /\ registrations_[i].kernel \in Kernels
  /\ Len(builtin_codes_) = Len(builtin_parsers_)
  /\ asked \in Keys /\ status \in {"ok", "error"}

\* A built-in has a parser exactly when it has a registration, and it is its own,
\* although parsers are counted apart from registrations.
ParserForEach ==
  \A op \in Builtins :
    GetOpDataParser(op)
      = IF FindBuiltin(op) = nullptr THEN "nullptr" ELSE ParserOf[op]

KeyOf(r) ==
  IF r.builtin_code = CUSTOM THEN CustomKey(r.custom_name) ELSE BuiltinKey(r.builtin_code)
RegisteredKeys == {KeyOf(registrations_[i]) : i \in DOMAIN registrations_}

\* Every operator is registered at most once, and a lookup finds it exactly when it
\* is, although a built-in may carry the name of a custom operator.
LookupsRight ==
  /\ Cardinality(RegisteredKeys) = Len(registrations_)
  /\ \A key \in Keys :
       LET i == GetRegistrationFromOpCode(key[1], key[2])
       IN IF key \in RegisteredKeys THEN KeyOf(registrations_[i]) = key ELSE i = nullptr

\* An operator is refused only when it has a registration or there are as many as
\* the resolver was made for: an action property.
RefusesRightly ==
  status' = "error" => asked' \in RegisteredKeys \/ Cardinality(RegisteredKeys) = tOpCount

\* Pointers that were handed out keep leading to the same registration: an action
\* property.
PointersStay ==
  \A i \in DOMAIN registrations_ :
    i \in DOMAIN registrations_' /\ registrations_'[i] = registrations_[i]
=============================================================================
