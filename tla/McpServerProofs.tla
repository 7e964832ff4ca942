--------------------------- MODULE McpServerProofs ---------------------------
(***************************************************************************)
(* Proofs about McpServer, for every set of calls and of tools.  The calls *)
(* share the namespace string and the factory, so each property rests on   *)
(* what every other call may have left there: FactoryInv says what can be  *)
(* in the factory, and QuietInv what is in the string, in the default each *)
(* tree read from it and in what each command made of it, as long as no    *)
(* call names a namespace.  LineInv follows --no-exec to the command.      *)
(***************************************************************************)
EXTENDS McpServer, TLAPS

Pcs == {"idle", "decode", "line", "pin", "build", "bindPtr", "bindLen", "parse", "parseLen",
        "parsed", "client", "locked", "namespace", "run", "done"}
Lined == Pcs \ {"idle", "decode", "line", "done"}
GoStrings == [ptr : Words, len : Words]

Builds == [build : Nat, config : Nat]

Answers == [kind : {"none", "text", "error"}, code : -1 .. 4, reported : BOOLEAN]

\* The shape of the state, with the variables TypeOK does not speak of.
Shape ==
  /\ TypeOK
  /\ pc \in [Calls -> Pcs]
  /\ builds \in Nat
  /\ dir \in [Calls -> BOOLEAN]
  /\ execOn \in [Calls -> BOOLEAN]
  /\ held \in [Calls -> [Parts -> Builds]]
  /\ DOMAIN argv = Calls

\* From its command line on, a tool that can exec has --no-exec set, and nothing
\* after it that could unset it.
LineInv ==
  \A c \in Calls :
    /\ ~execOn[c]
    /\ (pc[c] \in Lined /\ req[c].tool \in ExecTools) => argv[c] = <<TRUE>>

\* What the factory keeps was made from the configuration it keeps, and what a
\* call was handed is what the factory keeps.
FactoryInv ==
  /\ \A p \in Parts : factory[p] # None => factory[p].config = factory["config"].config
  /\ \A p \in Parts : factory[p] # None => factory["config"] # None
  /\ \A c \in Calls, p \in Parts : held[c][p] \in {None, factory[p]}

Quiet == \A c \in Calls : req[c].ns = Unset

\* While no call names a namespace the shared string is the server's own, between
\* any two words that are stored.
QuietInv ==
  /\ \A c \in Calls : pc[c] = "idle" => req[c] = NoRequest
  /\ Quiet =>
       /\ ns = String(ServerNs)
       /\ \A c \in Calls :
            /\ pc[c] \in {"bindPtr", "bindLen"} => bound[c] = String(ServerNs)
            /\ pc[c] # "parseLen"
            /\ (pc[c] = "run" /\ req[c].tool \in NsTools) => used[c] = String(loaderNamespace)

IInv == Shape /\ LineInv /\ FactoryInv /\ QuietInv

-----------------------------------------------------------------------------
(* The shape of the state. *)

\* The strings of the server and of the kubeconfig are strings that exist.
LEMMA StringsExist ==
  /\ String(ServerNs) \in GoStrings
  /\ String(Unset) \in GoStrings
  /\ String(loaderNamespace) \in GoStrings
BY NamespacesAssumption DEF String, GoStrings, Words, loaderNamespace

\* Init has the shape.
LEMMA InitIInv == Init => IInv
<1> SUFFICES ASSUME Init PROVE IInv
  OBVIOUS
<1>1. Shape
  <2>1. None \in [build : 0 .. 0, config : 0 .. 0] /\ None \in Builds
    BY DEF None, Builds
  <2>2. NoParts \in [Parts -> [build : 0 .. 0, config : 0 .. 0]] /\ NoParts \in [Parts -> Builds]
    BY <2>1 DEF NoParts
  <2> QED
    BY <2>2, StringsExist DEF Init, Shape, TypeOK, Pcs, GoStrings, NoRequest, Pending
<1>2. LineInv /\ FactoryInv
  BY DEF Init, LineInv, FactoryInv, Lined, NoParts, Parts
<1>3. QuietInv
  BY DEF Init, QuietInv
<1> QED
  BY <1>1, <1>2, <1>3 DEF IInv

\* A sequence of one element.
LEMMA Singleton ==
  ASSUME NEW x
  PROVE  /\ <<x>> # <<>> /\ Len(<<x>>) = 1 /\ <<x>>[1] = x
         /\ <<x>> \o <<>> = <<x>>
OBVIOUS

\* What a call is answered has the shape of an answer.
LEMMA AnswerShape ==
  ASSUME Shape, NEW c \in Calls, NEW code \in -1 .. 4, NEW kind \in {"text", "error"},
         NEW reported \in BOOLEAN,
         result' = [result EXCEPT ![c] = [kind |-> kind, code |-> code, reported |-> reported]]
  PROVE  result' \in [Calls -> Answers]
<1>1. [kind |-> kind, code |-> code, reported |-> reported] \in Answers
  BY Zenon DEF Answers
<1>2. result \in [Calls -> Answers]
  BY DEF Shape, TypeOK, Answers
<1> QED
  BY <1>1, <1>2, Zenon

\* A call that ends in an error keeps the shape of what it changes.
LEMMA ErrorShape ==
  ASSUME Shape, NEW c \in Calls, toolError(c, 2) \/ toolError(c, 4)
  PROVE  result' \in [Calls -> Answers] /\ pc' \in [Calls -> Pcs]
<1>1. PICK code \in {2, 4} :
        result' = [result EXCEPT ![c] = [kind |-> "error", code |-> code, reported |-> FALSE]]
  BY Zenon DEF toolError
<1>2. code \in -1 .. 4
  OBVIOUS
<1>3. result' \in [Calls -> Answers]
  BY <1>1, <1>2, AnswerShape, Zenon
<1>4. pc' \in [Calls -> Pcs]
  BY DEF toolError, Goto, Shape, Pcs
<1> QED
  BY <1>3, <1>4

\* Whatever the factory is asked for, it keeps builds it has made.
LEMMA GetShape ==
  ASSUME Shape, NEW c \in Calls, getClient(c)
  PROVE  /\ builds' \in Nat
         /\ factory' \in [Parts -> [build : 0 .. builds', config : 0 .. builds']]
         /\ held' \in [Calls -> [Parts -> Builds]]
<1> DEFINE part == wanted(c)
           B(n) == [build : 0 .. n, config : 0 .. n]
<1>1. /\ builds \in Nat /\ factory \in [Parts -> B(builds)]
      /\ held \in [Calls -> [Parts -> Builds]]
  BY DEF Shape, TypeOK
<1>2. part \in Parts /\ "config" \in Parts
  BY DEF wanted, Parts
<1>3. B(builds) \subseteq B(builds + 1) /\ B(builds) \subseteq Builds /\ B(builds + 1) \subseteq Builds
  BY <1>1 DEF Builds
<1>4. restConfig \in B(builds + 1)
  <2>1. CASE factory["config"] # None
    <3>1. restConfig = factory["config"] /\ factory["config"] \in B(builds)
      BY <1>1, <1>2, <2>1 DEF restConfig
    <3> QED
      BY <3>1, <1>3, Zenon
  <2>2. CASE factory["config"] = None
    BY <1>1, <2>2 DEF restConfig
  <2> QED
    BY <2>1, <2>2
<1>5. made(part) \in B(builds + 1)
  BY <1>1, <1>4 DEF made
<1>6. factory \in [Parts -> B(builds + 1)]
  BY <1>1, <1>3
<1>7. ASSUME NEW kept, kept \in [Parts -> B(builds + 1)], keep(kept)
      PROVE  builds' \in Nat /\ factory' \in [Parts -> B(builds')]
  <2>1. CASE kept = factory
    BY <1>1, <1>7, <2>1 DEF keep
  <2>2. CASE kept # factory
    BY <1>1, <1>7, <2>2 DEF keep
  <2> QED
    BY <2>1, <2>2
<1> HIDE DEF part, B
<1>8. ASSUME NEW b \in B(builds + 1)
      PROVE  [held EXCEPT ![c][part] = b] \in [Calls -> [Parts -> Builds]]
  BY <1>1, <1>2, <1>3, <1>8
<1>9. [factory EXCEPT !["config"] = restConfig] \in [Parts -> B(builds + 1)]
  BY <1>2, <1>4, <1>6
<1>10. [factory EXCEPT !["config"] = restConfig, ![part] = made(part)] \in [Parts -> B(builds + 1)]
  BY <1>2, <1>4, <1>5, <1>6
<1>11. CASE factory' = factory /\ builds' = builds /\ held' = held
  BY <1>1, <1>11 DEF B
<1>12. CASE /\ factory' = factory /\ builds' = builds
            /\ held' = [held EXCEPT ![c][part] = factory[part]]
  BY <1>1, <1>2, <1>6, <1>8, <1>12 DEF B
<1>13. CASE /\ keep([factory EXCEPT !["config"] = restConfig, ![part] = made(part)])
            /\ held' = [held EXCEPT ![c][part] = made(part)]
  BY <1>5, <1>7, <1>8, <1>10, <1>13 DEF B
<1>14. CASE keep([factory EXCEPT !["config"] = restConfig]) /\ held' = held
  BY <1>1, <1>7, <1>9, <1>14 DEF B
<1> QED
  BY <1>11, <1>12, <1>13, <1>14 DEF getClient, part

\* Every step keeps the shape.
LEMMA ShapeStep == Shape /\ [Next]_vars => Shape'
<1> SUFFICES ASSUME Shape, [Next]_vars PROVE Shape'
  OBVIOUS
<1> USE DEF Goto
<1>1. CASE UNCHANGED vars
  BY <1>1 DEF Shape, TypeOK, vars, shared
<1>2. ASSUME NEW c \in Calls, Call(c) PROVE Shape'
  BY <1>2 DEF Call, Shape, TypeOK, shared, Pcs
<1>3. ASSUME NEW c \in Calls, handlerFor(c) PROVE Shape'
  BY <1>3, ErrorShape DEF handlerFor, Shape, TypeOK, Answers, shared, Pcs
<1>4. ASSUME NEW c \in Calls, commandLine(c) PROVE Shape'
  BY <1>4, ErrorShape DEF commandLine, Shape, TypeOK, Answers, shared, Pcs
<1>5. ASSUME NEW c \in Calls, pinDir(c) PROVE Shape'
  BY <1>5, ErrorShape DEF pinDir, Shape, TypeOK, Answers, shared, Pcs
<1>6. ASSUME NEW c \in Calls, readDefault(c) PROVE Shape'
  BY <1>6 DEF readDefault, Shape, TypeOK, shared, Pcs
<1>7. ASSUME NEW c \in Calls, bindDefault(c) PROVE Shape'
  BY <1>7 DEF bindDefault, Store, Shape, TypeOK, Pcs
<1>8. ASSUME NEW c \in Calls, parseNamespace(c) PROVE Shape'
  <2>1. req[c].ns \in Words
    BY DEF Shape, TypeOK, Requests, NoRequest, Words
  <2> QED
    BY <1>8, <2>1 DEF parseNamespace, Store, Shape, TypeOK, Pcs
<1>9. ASSUME NEW c \in Calls, parse(c) PROVE Shape'
  BY <1>9, ErrorShape DEF parse, Shape, TypeOK, Answers, shared, Pcs
<1>10. ASSUME NEW c \in Calls, lockFactory(c) PROVE Shape'
  BY <1>10 DEF lockFactory, Shape, TypeOK, Pcs
<1>11. ASSUME NEW c \in Calls, getClient(c) PROVE Shape'
  <2>1. result' \in [Calls -> Answers] /\ pc' \in [Calls -> Pcs]
    BY <1>11, ErrorShape DEF getClient, afterClient, Shape, TypeOK, Answers, Pcs
  <2>2. UNCHANGED <<req, argv, dir, bound, used, execOn, ns>> /\ holder' = NoCall
    BY <1>11 DEF getClient, unlock
  <2>3. /\ builds' \in Nat
        /\ factory' \in [Parts -> [build : 0 .. builds', config : 0 .. builds']]
        /\ held' \in [Calls -> [Parts -> Builds]]
    BY <1>11, GetShape
  <2> QED
    BY <2>1, <2>2, <2>3 DEF Shape, TypeOK, Answers
<1>12. ASSUME NEW c \in Calls, namespaceOf(c) PROVE Shape'
  BY <1>12, StringsExist DEF namespaceOf, Shape, TypeOK, shared, Pcs, GoStrings
<1>13. ASSUME NEW c \in Calls, execute(c) PROVE Shape'
  <2>1. execOn' \in [Calls -> BOOLEAN]
    BY <1>13, Zenon DEF execute, Shape
  <2>2. result' \in [Calls -> Answers] /\ pc' \in [Calls -> Pcs]
    <3>1. ASSUME NEW code \in {2, 4}, toolError(c, code)
          PROVE  result' \in [Calls -> Answers] /\ pc' \in [Calls -> Pcs]
      BY <3>1, ErrorShape
    <3>2. ASSUME NEW code \in {0, 1, 3}, Goto(c, "done"),
                 result' = [result EXCEPT ![c] =
                              [kind |-> "text", code |-> code, reported |-> dir[c]]]
          PROVE  result' \in [Calls -> Answers] /\ pc' \in [Calls -> Pcs]
      <4>1. dir[c] \in BOOLEAN /\ code \in -1 .. 4
        BY DEF Shape
      <4>2. result' \in [Calls -> Answers]
        BY <3>2, <4>1, AnswerShape, Zenon
      <4> QED
        BY <3>2, <4>2 DEF Shape, Pcs
    <3> QED
      BY <1>13, <3>1, <3>2 DEF execute
  <2>3. UNCHANGED <<req, argv, dir, bound, used, held, ns, holder, factory, builds>>
    BY <1>13 DEF execute, shared
  <2> QED
    BY <2>1, <2>2, <2>3 DEF Shape, TypeOK, Answers
<1> QED
  BY <1>1, <1>2, <1>3, <1>4, <1>5, <1>6, <1>7, <1>8, <1>9, <1>10, <1>11, <1>12, <1>13
  DEF Next, Step, Wait
-----------------------------------------------------------------------------
(* The factory, the command line and the shared string. *)

\* A call's pc is the only one a step of its handler moves, and a handler never
\* changes what its call asked for.
LEMMA StepMoves ==
  ASSUME Shape, NEW c \in Calls, Step(c)
  PROVE  /\ \A d \in Calls : d # c => pc'[d] = pc[d]
         /\ pc[c] # "idle" /\ pc'[c] # "idle" /\ pc'[c] \in Pcs
         /\ req' = req
BY DEF Step, handlerFor, commandLine, pinDir, readDefault, bindDefault, parseNamespace,
       parse, lockFactory, getClient, namespaceOf, execute, toolError, Goto, Store,
       afterClient, shared, Shape, Pcs

\* --no-exec reaches the command: only commandLine leads to the later steps, it
\* refuses what could unset the flag, and nothing else touches the arguments.
LEMMA LineInvStep == Shape /\ LineInv /\ [Next]_vars => LineInv'
<1> SUFFICES ASSUME Shape, LineInv, [Next]_vars PROVE LineInv'
  OBVIOUS
<1>1. CASE UNCHANGED vars
  BY <1>1 DEF LineInv, vars, shared
<1>2. ASSUME NEW c \in Calls, Call(c) PROVE LineInv'
  <2>1. pc' = [pc EXCEPT ![c] = "decode"] /\ UNCHANGED <<argv, execOn>>
    BY <1>2 DEF Call, Goto
  <2>2. \A d \in Calls : d # c => req'[d] = req[d]
    BY <1>2 DEF Call, Shape, TypeOK
  <2> QED
    BY <2>1, <2>2 DEF LineInv, Lined, Shape
<1>3. ASSUME NEW c \in Calls, commandLine(c) PROVE LineInv'
  <2>1. UNCHANGED <<req, execOn>>
    BY <1>3 DEF commandLine
  <2>2. CASE refused(c) /\ toolError(c, 2) /\ UNCHANGED argv
    BY <2>1, <2>2 DEF toolError, Goto, LineInv, Lined, Shape
  <2>3. CASE ~refused(c) /\ argv' = [argv EXCEPT ![c] = noExecSettings(c)]
               /\ Goto(c, IF req[c].tool \in DirTools THEN "pin" ELSE "build")
    <3>1. req[c].tool \in ExecTools => noExecSettings(c) = <<TRUE>>
      <4>1. req[c].fault # "flagarg"
        BY <2>3 DEF refused
      <4>2. <<TRUE>> \o <<>> = <<TRUE>>
        BY Singleton, Zenon
      <4> QED
        BY <4>1, <4>2, Zenon DEF noExecSettings
    <3> QED
      BY <2>1, <2>3, <3>1 DEF Goto, LineInv, Lined, Shape
  <2> QED
    BY <1>3, <2>2, <2>3 DEF commandLine
<1>4. ASSUME NEW c \in Calls, execute(c) PROVE LineInv'
  <2>1. UNCHANGED <<req, argv>> /\ pc' = [pc EXCEPT ![c] = "done"]
    BY <1>4 DEF execute, toolError, Goto
  <2>2. pc[c] \in Lined
    BY <1>4 DEF execute, Lined, Pcs
  <2>3. req[c].tool \in ExecTools => noExec(c)
    <3>1. req[c].tool \in ExecTools => argv[c] = <<TRUE>>
      BY <2>2 DEF LineInv
    <3>2. <<TRUE>> # <<>> /\ Len(<<TRUE>>) = 1 /\ <<TRUE>>[1] = TRUE
      BY Singleton, Zenon
    <3> QED
      BY <3>1, <3>2, Zenon DEF noExec
  <2>4. ~ execOn'[c] /\ \A d \in Calls : d # c => execOn'[d] = execOn[d]
    BY <1>4, <2>3 DEF execute, Shape
  <2> QED
    BY <2>1, <2>4 DEF LineInv, Lined, Shape
<1>5. ASSUME NEW c \in Calls,
             \/ handlerFor(c) \/ pinDir(c) \/ readDefault(c) \/ bindDefault(c)
             \/ parseNamespace(c) \/ parse(c) \/ lockFactory(c) \/ getClient(c)
             \/ namespaceOf(c)
      PROVE  LineInv'
  <2>1. UNCHANGED <<req, argv, execOn>>
    BY <1>5 DEF handlerFor, pinDir, readDefault, bindDefault, parseNamespace, parse,
                lockFactory, getClient, namespaceOf, Store
  <2>2. \A d \in Calls : pc'[d] \in Lined => pc[d] \in Lined
    BY <1>5 DEF handlerFor, pinDir, readDefault, bindDefault, parseNamespace, parse,
                lockFactory, getClient, namespaceOf, Store, toolError, Goto, Shape,
                Lined, Pcs
  <2> QED
    BY <2>1, <2>2 DEF LineInv
<1> QED
  BY <1>1, <1>2, <1>3, <1>4, <1>5 DEF Next, Step, Wait

\* Whoever builds the configuration finds none in the factory, so nobody has
\* clients of another one.
LEMMA FactoryInvStep == Shape /\ FactoryInv /\ [Next]_vars => FactoryInv'
<1> SUFFICES ASSUME Shape, FactoryInv, [Next]_vars PROVE FactoryInv'
  OBVIOUS
<1>1. CASE UNCHANGED <<held, factory>>
  BY <1>1 DEF FactoryInv
<1>2. ASSUME NEW c \in Calls, getClient(c) PROVE FactoryInv'
  <2> DEFINE part == wanted(c)
  <2>1. part \in Parts /\ "config" \in Parts
    BY DEF wanted, Parts
  <2>2. restConfig # None /\ made(part) # None /\ made(part).config = restConfig.config
    BY DEF restConfig, made, None, Shape
  <2>3. factory["config"] # None => restConfig = factory["config"]
    BY DEF restConfig
  <2>4. \A p \in Parts : factory[p] # None => factory[p].config = restConfig.config
    BY <2>3 DEF FactoryInv
  <2>5. factory \in [Parts -> Builds] /\ held \in [Calls -> [Parts -> Builds]]
    BY DEF Shape, TypeOK, Builds
  <2>6. CASE /\ factory[part] # None /\ factory' = factory
             /\ held' = [held EXCEPT ![c][part] = factory[part]]
    BY <2>1, <2>5, <2>6 DEF FactoryInv
  <2>7. CASE /\ factory[part] = None
             /\ factory' = [factory EXCEPT !["config"] = restConfig, ![part] = made(part)]
             /\ held' = [held EXCEPT ![c][part] = made(part)]
    <3>1. part = "config" => made(part) = restConfig
      BY DEF made
    <3>2. \A p \in Parts : factory'[p] = IF p = part THEN made(part)
                                          ELSE IF p = "config" THEN restConfig ELSE factory[p]
      BY <2>5, <2>7 DEF Parts
    <3>3. \A d \in Calls, p \in Parts :
            held'[d][p] = IF d = c /\ p = part THEN made(part) ELSE held[d][p]
      BY <2>1, <2>5, <2>7
    <3> HIDE DEF part
    <3>4. /\ \A p \in Parts : factory'[p] # None => factory'[p].config = restConfig.config
          /\ factory'["config"] = restConfig
      BY <2>1, <2>2, <2>4, <3>1, <3>2
    <3>5. \A d \in Calls, p \in Parts : held'[d][p] \in {None, factory'[p]}
      <4> SUFFICES ASSUME NEW d \in Calls, NEW p \in Parts PROVE held'[d][p] \in {None, factory'[p]}
        OBVIOUS
      <4>1. held[d][p] \in {None, factory[p]}
        BY DEF FactoryInv
      <4>2. factory[p] # None => factory["config"] # None
        BY DEF FactoryInv
      <4>3. CASE p = part
        <5>1. factory[p] = None /\ factory'[p] = made(part)
          BY <2>7, <3>2, <4>3
        <5>2. held'[d][p] = IF d = c THEN made(part) ELSE held[d][p]
          BY <3>3, <4>3
        <5> QED
          BY <4>1, <5>1, <5>2
      <4>4. CASE p # part
        BY <2>3, <3>2, <3>3, <4>1, <4>2, <4>4
      <4> QED
        BY <4>3, <4>4
    <3> QED
      BY <2>2, <3>4, <3>5 DEF FactoryInv
  <2>8. CASE held' = held /\ factory' = factory
    BY <2>8 DEF FactoryInv
  <2>9. CASE held' = held /\ factory' = [factory EXCEPT !["config"] = restConfig]
    <3>1. \A p \in Parts : factory'[p] = IF p = "config" THEN restConfig ELSE factory[p]
      BY <2>5, <2>9 DEF Parts
    <3> QED
      BY <2>1, <2>2, <2>3, <2>4, <2>9, <3>1 DEF FactoryInv
  <2> QED
    BY <1>2, <2>6, <2>7, <2>8, <2>9 DEF getClient, keep
<1> QED
  BY <1>1, <1>2 DEF Next, Wait, vars, shared, Call, Step, handlerFor, commandLine, pinDir,
     readDefault, bindDefault, parseNamespace, parse, lockFactory, namespaceOf, execute, Store

\* With no namespace named by any call, a tree reads the server's own as its
\* default, so that storing it back, one word at a time, changes nothing.
LEMMA QuietInvStep == Shape /\ QuietInv /\ [Next]_vars => QuietInv'
<1> SUFFICES ASSUME Shape, QuietInv, [Next]_vars PROVE QuietInv'
  OBVIOUS
<1>1. CASE UNCHANGED vars
  BY <1>1 DEF QuietInv, Quiet, vars, shared
<1>2. ASSUME NEW c \in Calls, Call(c) PROVE QuietInv'
  <2>1. PICK r \in Requests : req' = [req EXCEPT ![c] = r]
    BY <1>2 DEF Call
  <2>2. /\ pc[c] = "idle" /\ pc' = [pc EXCEPT ![c] = "decode"]
        /\ UNCHANGED <<bound, used, ns>>
    BY <1>2 DEF Call, Goto, shared
  <2>3. Quiet' => Quiet
    BY <2>1, <2>2 DEF Quiet, QuietInv, NoRequest, Shape, TypeOK
  <2> QED
    BY <2>1, <2>2, <2>3 DEF QuietInv, Shape, TypeOK
<1>3. ASSUME NEW c \in Calls, Step(c) PROVE QuietInv'
  <2>1. /\ \A d \in Calls : d # c => pc'[d] = pc[d]
        /\ pc[c] # "idle" /\ pc'[c] # "idle" /\ req' = req
    BY <1>3, StepMoves
  <2>2. /\ \A d \in Calls : pc'[d] = "idle" => req'[d] = NoRequest
        /\ Quiet' = Quiet
    BY <2>1 DEF QuietInv, Quiet
  <2>3. SUFFICES ASSUME Quiet
                 PROVE  /\ ns' = String(ServerNs)
                        /\ \A d \in Calls :
                             /\ pc'[d] \in {"bindPtr", "bindLen"} => bound'[d] = String(ServerNs)
                             /\ pc'[d] # "parseLen"
                             /\ (pc'[d] = "run" /\ req'[d].tool \in NsTools) =>
                                  used'[d] = String(loaderNamespace)
    BY <2>2 DEF QuietInv
  <2>4. /\ ns = String(ServerNs) /\ req[c].ns = Unset /\ pc[c] # "parseLen"
        /\ pc[c] \in {"bindPtr", "bindLen"} => bound[c] = String(ServerNs)
        /\ (pc[c] = "run" /\ req[c].tool \in NsTools) => used[c] = String(loaderNamespace)
    BY <2>3 DEF QuietInv, Quiet
  <2>5. ns' = String(ServerNs)
    BY <1>3, <2>4 DEF Step, handlerFor, commandLine, pinDir, readDefault, bindDefault,
       parseNamespace, parse, lockFactory, getClient, namespaceOf, execute, Store, shared,
       String
  <2>6. /\ \A d \in Calls : d # c => bound'[d] = bound[d] /\ used'[d] = used[d]
        /\ pc'[c] \in {"bindPtr", "bindLen"} => bound'[c] = String(ServerNs)
    BY <1>3, <2>4 DEF Step, handlerFor, commandLine, pinDir, readDefault, bindDefault,
       parseNamespace, parse, lockFactory, getClient, namespaceOf, execute, Store, shared,
       toolError, Goto, afterClient, Shape, TypeOK
  <2>7. pc'[c] # "parseLen"
    BY <1>3, <2>4 DEF Step, handlerFor, commandLine, pinDir, readDefault, bindDefault,
       parseNamespace, parse, lockFactory, getClient, namespaceOf, execute, Store, toolError,
       Goto, afterClient, Shape
  <2>8. (pc'[c] = "run" /\ req[c].tool \in NsTools) => used'[c] = String(loaderNamespace)
    <3>1. CASE namespaceOf(c)
      BY <3>1, <2>4 DEF namespaceOf, String, loaderNamespace, Shape, TypeOK
    <3>2. CASE ~ namespaceOf(c)
      BY <1>3, <2>4, <3>2 DEF Step, handlerFor, commandLine, pinDir, readDefault, bindDefault,
         parseNamespace, parse, lockFactory, getClient, execute, Store, toolError,
         Goto, afterClient, Shape
    <3> QED
      BY <3>1, <3>2
  <2> QED
    BY <2>1, <2>3, <2>5, <2>6, <2>7, <2>8 DEF QuietInv
<1> QED
  BY <1>1, <1>2, <1>3 DEF Next, Wait

\* The inductive invariant holds throughout.
LEMMA Invariant == Spec => []IInv
<1>1. IInv /\ [Next]_vars => IInv'
  BY ShapeStep, LineInvStep, FactoryInvStep, QuietInvStep DEF IInv
<1> QED
  BY InitIInv, <1>1, PTL DEF Spec

-----------------------------------------------------------------------------
(* The theorems. *)

\* The shape of the state, for any number of calls: no step stores half of a
\* string that does not exist or leaves the factory with a build it never made.
THEOREM McpTypeCorrect == Spec => []TypeOK
<1>1. IInv => TypeOK
  BY DEF IInv, Shape
<1> QED
  BY Invariant, <1>1, PTL

\* No call execs into a pod, whatever the tools are, whatever the calls pass and
\* however many run beside it (commandLine, positionalArgs).
THEOREM NobodyExecs == Spec => []NeverExecs
<1>1. IInv => NeverExecs
  BY DEF IInv, LineInv, NeverExecs
<1> QED
  BY Invariant, <1>1, PTL

\* However many calls build them at once and whichever builds fail, the calls hold
\* one configuration, one clientset and one dynamic client, all of one read of the
\* kubeconfig (configFlagsFactory).
THEOREM ClientsAreShared == Spec => []OneOfEachClient
<1>1. IInv => OneOfEachClient
  BY DEF IInv, FactoryInv, OneOfEachClient
<1> QED
  BY Invariant, <1>1, PTL

\* Calls that name no namespace never change the server's, in any interleaving of
\* the loads and stores of the shared string (AddConfigFlags, namespaceOf).
THEOREM QuietIsKept == Spec => []QuietNamespace
<1>1. IInv => QuietNamespace
  BY DEF IInv, QuietInv, Quiet, QuietNamespace
<1> QED
  BY Invariant, <1>1, PTL

=============================================================================
