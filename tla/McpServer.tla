------------------------------ MODULE McpServer ------------------------------
(***************************************************************************)
(* "kubectl nv mcp" (pkg/cmd/mcp): tool calls served at the same time, each *)
(* in a command tree of its own, over one connection: the ConfigFlags the  *)
(* server was started with and the client factory built from them, which   *)
(* keeps the REST configuration and the two clients it makes.              *)
(*                                                                         *)
(* A call is decoded, turned into a command line, given a directory when   *)
(* its tool writes one, and run.  Building the tree binds --namespace to   *)
(* the shared ConfigFlags.Namespace and parsing writes what the call named *)
(* there: the two steps of each, and the two words a Go string is stored   *)
(* in, are steps here, since nothing locks them.  The MCP SDK, pflag,      *)
(* cli-runtime and the commands are external.                              *)
(***************************************************************************)
EXTENDS Integers, Sequences

CONSTANTS
  Calls,        \* the tool calls
  Tools,        \* the tools the tree offers
  ExecTools,    \* those annotated as able to exec into a pod
  NoExecTools,  \* those with a --no-exec flag
  DirTools,     \* those with a host directory flag
  NsTools,      \* those whose command reads --namespace
  Namespaces,   \* the namespaces a call can name
  ServerNs,     \* what --namespace of the mcp command was, or Unset
  ContextNs     \* the namespace of the kubeconfig's context

Unset == "unset"  \* the empty string, and a property that is not given

ASSUME ToolsAssumption ==
  /\ ExecTools \subseteq Tools /\ NoExecTools \subseteq Tools
  /\ DirTools \subseteq Tools /\ NsTools \subseteq Tools
ASSUME NamespacesAssumption ==
  /\ Unset \notin Namespaces
  /\ ServerNs \in Namespaces \cup {Unset}
  /\ ContextNs \in Namespaces

VARIABLES
  pc,      \* where each call's handler is
  req,     \* the call: its tool, its --namespace and what is wrong with it
  argv,    \* the --no-exec settings of its command line, in order
  dir,     \* the directory pinned for it: none, made
  ns,      \* *ConfigFlags.Namespace, shared: a string's pointer and length
  bound,   \* the default each tree's --namespace flag was bound with
  used,    \* the namespace each command read
  execOn,  \* whether a call's command may exec
  holder,  \* which call holds the factory's mutex
  factory, \* what the factory keeps: its configuration and its two clients
  builds,  \* how often it built something
  held,    \* what each call's command was handed by the factory
  result   \* what each call was answered

shared == <<ns, holder, factory, builds>>
vars == <<pc, req, argv, dir, bound, used, execOn, held, result, shared>>

NoCall == "nobody"
String(s) == [ptr |-> s, len |-> s]
Words == Namespaces \cup {Unset}

\* What can be wrong with the arguments of a call, one thing at a time.
Faults == {"none", "json", "unoffered", "novalue", "flagarg", "arity", "badflag"}
Requests == [tool : Tools, ns : Words, fault : Faults]
NoRequest == [tool |-> "none", ns |-> Unset, fault |-> "none"]

\* What the factory keeps: which build each part is, and the build of the
\* configuration it was made from.
Parts == {"config", "clientset", "dynamic"}
None == [build |-> 0, config |-> 0]
NoParts == [p \in Parts |-> None]

Pending == [kind |-> "none", code |-> -1, reported |-> FALSE]

Init ==
  /\ pc = [c \in Calls |-> "idle"]
  /\ req = [c \in Calls |-> NoRequest]
  /\ argv = [c \in Calls |-> <<>>]
  /\ dir = [c \in Calls |-> FALSE]
  /\ ns = String(ServerNs)
  /\ bound = [c \in Calls |-> String(Unset)]
  /\ used = [c \in Calls |-> String(Unset)]
  /\ execOn = [c \in Calls |-> FALSE]
  /\ holder = NoCall
  /\ factory = NoParts
  /\ builds = 0
  /\ held = [c \in Calls |-> NoParts]
  /\ result = [c \in Calls |-> Pending]

Goto(c, there) == pc' = [pc EXCEPT ![c] = there]

\* toolError says nothing of the directories; the result of a run names them.
toolError(c, code) ==
  /\ result' = [result EXCEPT ![c] = [kind |-> "error", code |-> code, reported |-> FALSE]]
  /\ Goto(c, "done")

-----------------------------------------------------------------------------
(* handlerFor and commandLine. *)

Call(c) ==
  /\ pc[c] = "idle"
  /\ \E r \in Requests : req' = [req EXCEPT ![c] = r]
  /\ Goto(c, "decode")
  /\ UNCHANGED <<argv, dir, bound, used, execOn, held, result, shared>>

handlerFor(c) ==
  /\ pc[c] = "decode"
  /\ IF req[c].fault = "json"
       THEN toolError(c, 2)
       ELSE Goto(c, "line") /\ UNCHANGED result
  /\ UNCHANGED <<req, argv, dir, bound, used, execOn, held, shared>>

\* Mutant of refused: a positional argument that is a flag goes through.
refusedNotFlagArgs(c) ==
  \/ req[c].tool \in ExecTools \ NoExecTools
  \/ req[c].fault \in {"unoffered", "novalue", "arity"}

\* An exec capable tool that cannot be told not to, a property the tool does not
\* offer (--no-exec among them), a value that is none, a flag among the
\* positional arguments, or the wrong number of those.
refused(c) ==
  \/ req[c].tool \in ExecTools \ NoExecTools
  \/ req[c].fault \in {"unoffered", "novalue", "flagarg", "arity"}

\* --no-exec is forced after the call's own flags and before the positional
\* arguments; pflag lets the last one win.
noExecSettings(c) ==
  (IF req[c].tool \in ExecTools THEN <<TRUE>> ELSE <<>>)
    \o (IF req[c].fault = "flagarg" THEN <<FALSE>> ELSE <<>>)

commandLine(c) ==
  /\ pc[c] = "line"
  /\ \/ /\ refused(c)
        /\ toolError(c, 2)
        /\ UNCHANGED argv
     \/ /\ ~refused(c)
        /\ argv' = [argv EXCEPT ![c] = noExecSettings(c)]
        /\ Goto(c, IF req[c].tool \in DirTools THEN "pin" ELSE "build")
        /\ UNCHANGED result
  /\ UNCHANGED <<req, dir, bound, used, execOn, held, shared>>

\* MkdirTemp and Chmod; a directory whose Chmod failed stays.
pinDir(c) ==
  /\ pc[c] = "pin"
  /\ \/ \E made \in BOOLEAN : dir' = [dir EXCEPT ![c] = made] /\ toolError(c, 2)
     \/ dir' = [dir EXCEPT ![c] = TRUE] /\ Goto(c, "build") /\ UNCHANGED result
  /\ UNCHANGED <<req, argv, bound, used, execOn, held, shared>>

-----------------------------------------------------------------------------
(* newRoot: AddConfigFlags binds --namespace to the shared string, which reads *)
(* the string as the flag's default and stores the default back.               *)

readDefault(c) ==
  /\ pc[c] = "build"
  /\ bound' = [bound EXCEPT ![c] = ns]
  /\ Goto(c, "bindPtr")
  /\ UNCHANGED <<req, argv, dir, used, execOn, held, result, shared>>

\* One word of a string is stored.
Store(c, from, to, word, value) ==
  /\ pc[c] = from
  /\ ns' = [ns EXCEPT ![word] = value]
  /\ Goto(c, to)
  /\ UNCHANGED <<req, argv, dir, bound, used, execOn, held, result, holder, factory, builds>>

bindDefault(c) ==
  \/ Store(c, "bindPtr", "bindLen", "ptr", bound[c].ptr)
  \/ Store(c, "bindLen", "parse", "len", bound[c].len)

(* ExecuteContext: the flags are parsed in order, --namespace where it comes. *)

parseNamespace(c) ==
  \/ req[c].ns # Unset /\ Store(c, "parse", "parseLen", "ptr", req[c].ns)
  \/ Store(c, "parseLen", "parsed", "len", req[c].ns)

\* A flag that does not parse, before --namespace or after it, is a usage error.
parse(c) ==
  /\ \/ pc[c] = "parse" /\ (req[c].ns = Unset \/ req[c].fault = "badflag")
     \/ pc[c] = "parsed"
  /\ IF req[c].fault = "badflag"
       THEN toolError(c, 2)
       ELSE Goto(c, "client") /\ UNCHANGED result
  /\ UNCHANGED <<req, argv, dir, bound, used, execOn, held, shared>>

-----------------------------------------------------------------------------
(* The command: its clients from the shared factory, then its namespace. *)

lockFactory(c) ==
  /\ pc[c] = "client"
  /\ holder = NoCall
  /\ holder' = c
  /\ Goto(c, "locked")
  /\ UNCHANGED <<req, argv, dir, bound, used, execOn, held, result, ns, factory, builds>>

\* Mutant of unlock: the error path returns with the mutex held.
unlockOnSuccess(ok) == IF ok THEN holder' = NoCall ELSE UNCHANGED holder

\* defer f.mu.Unlock(), whatever the method returns.
unlock(ok) == holder' = NoCall

\* What a command asks for next: a gather its configuration, and every command a
\* clientset and then a dynamic client, each under the mutex on its own.
wanted(c) ==
  IF req[c].tool \in ExecTools /\ held[c]["config"] = None THEN "config"
  ELSE IF held[c]["clientset"] = None THEN "clientset" ELSE "dynamic"

afterClient(c) ==
  IF wanted(c) # "dynamic" THEN "client"
  ELSE IF req[c].tool \in NsTools THEN "namespace" ELSE "run"

\* Mutant of restConfig: what was built is not looked for.
restConfigForgets == [build |-> builds + 1, config |-> builds + 1]

\* The configuration, read from the kubeconfig once.
restConfig ==
  IF factory["config"] # None
    THEN factory["config"]
    ELSE [build |-> builds + 1, config |-> builds + 1]

\* A client is made from the configuration, and kept.
made(part) ==
  IF part = "config" THEN restConfig ELSE [build |-> builds + 1, config |-> restConfig.config]

keep(kept) == factory' = kept /\ builds' = IF kept = factory THEN builds ELSE builds + 1

\* RESTConfig, KubernetesClient or DynamicClient.  What could not be built is
\* tried again by whoever asks next; a configuration whose client could not be
\* made stays.
getClient(c) ==
  /\ pc[c] = "locked"
  /\ LET part == wanted(c) IN
       \/ /\ factory[part] # None
          /\ held' = [held EXCEPT ![c][part] = factory[part]]
          /\ Goto(c, afterClient(c))
          /\ unlock(TRUE)
          /\ UNCHANGED <<factory, builds, result>>
       \/ /\ factory[part] = None
          /\ keep([factory EXCEPT !["config"] = restConfig, ![part] = made(part)])
          /\ held' = [held EXCEPT ![c][part] = made(part)]
          /\ Goto(c, afterClient(c))
          /\ unlock(TRUE)
          /\ UNCHANGED result
       \/ /\ factory[part] = None
          /\ \/ factory["config"] = None /\ UNCHANGED <<factory, builds>>
             \/ part # "config" /\ keep([factory EXCEPT !["config"] = restConfig])
          /\ toolError(c, 4)
          /\ unlock(FALSE)
          /\ UNCHANGED held
  /\ UNCHANGED <<req, argv, dir, bound, used, execOn, ns>>

\* The loader was built when the server started, so it has the server's own.
loaderNamespace == IF ServerNs = Unset THEN ContextNs ELSE ServerNs

\* Mutant of namespaceOf: the context's own namespace, whatever the flag said.
namespaceOfContext(c) ==
  /\ pc[c] = "namespace"
  /\ used' = [used EXCEPT ![c] = String(ContextNs)]
  /\ Goto(c, "run")
  /\ UNCHANGED <<req, argv, dir, bound, execOn, held, result, shared>>

namespaceOf(c) ==
  /\ pc[c] = "namespace"
  /\ used' = [used EXCEPT ![c] = IF ns.len = Unset THEN String(loaderNamespace) ELSE ns]
  /\ Goto(c, "run")
  /\ UNCHANGED <<req, argv, dir, bound, execOn, held, result, shared>>

noExec(c) == argv[c] # <<>> /\ argv[c][Len(argv[c])]

\* Mutant of execute: an error that carries no code of its own exits 255.
executeUncoded(c) ==
  /\ pc[c] = "run"
  /\ toolError(c, 255)
  /\ UNCHANGED <<req, argv, dir, bound, used, execOn, held, shared>>

\* The command, external: it exits with any code, a panic included (4).
execute(c) ==
  /\ pc[c] = "run"
  /\ execOn' = [execOn EXCEPT ![c] = req[c].tool \in ExecTools /\ ~noExec(c)]
  /\ \/ \E code \in {2, 4} : toolError(c, code)
     \/ \E code \in {0, 1, 3} :
          /\ result' = [result EXCEPT ![c] =
                          [kind |-> "text", code |-> code, reported |-> dir[c]]]
          /\ Goto(c, "done")
  /\ UNCHANGED <<req, argv, dir, bound, used, held, shared>>

Step(c) ==
  \/ handlerFor(c) \/ commandLine(c) \/ pinDir(c)
  \/ readDefault(c) \/ bindDefault(c) \/ parseNamespace(c) \/ parse(c)
  \/ lockFactory(c) \/ getClient(c) \/ namespaceOf(c)
  \/ execute(c)

\* The server waits for a message.
Wait == UNCHANGED vars

Next == (\E c \in Calls : Call(c) \/ Step(c)) \/ Wait

\* Each handler has a goroutine of its own, which the runtime keeps scheduling.
Spec == Init /\ [][Next]_vars /\ \A c \in Calls : WF_vars(Step(c))

-----------------------------------------------------------------------------
(* Properties. *)

\* The shape of the state; a string's two words come from strings that exist.
TypeOK ==
  /\ ns \in [ptr : Words, len : Words]
  /\ bound \in [Calls -> [ptr : Words, len : Words]]
  /\ used \in [Calls -> [ptr : Words, len : Words]]
  /\ req \in [Calls -> Requests \cup {NoRequest}]
  /\ holder \in Calls \cup {NoCall}
  /\ factory \in [Parts -> [build : 0 .. builds, config : 0 .. builds]]
  /\ result \in [Calls -> [kind : {"none", "text", "error"}, code : -1 .. 4,
                           reported : BOOLEAN]]

\* Whatever a call passes and whichever calls run beside it, a tool that could
\* exec into a pod runs with --no-exec (commandLine, positionalArgs).
NeverExecs == \A c \in Calls : ~execOn[c]

\* The calls of one server read the cluster through one configuration, one
\* clientset and one dynamic client: no command holds two clients of two reads of
\* the kubeconfig, and a call throttles against the bucket of a client it shares
\* with the others and not against one of its own, also when a build failed in
\* between (configFlagsFactory).  What a gather makes for itself from the
\* configuration (k8sUtils.go) is not among these.
OneOfEachClient ==
  /\ \A c, d \in Calls, p \in Parts :
       (held[c][p] # None /\ held[d][p] # None) => held[c][p] = held[d][p]
  /\ \A c, d \in Calls, p, q \in Parts :
       (held[c][p] # None /\ held[d][q] # None) => held[c][p].config = held[d][q].config

\* As long as no call names a namespace, every command reads the one the server
\* was started with: the trees that share the string, each storing back the
\* default it read, do not lose it (AddConfigFlags, namespaceOf).
QuietNamespace ==
  (\A c \in Calls : req[c].ns = Unset) =>
    \A c \in Calls :
      (pc[c] = "run" /\ req[c].tool \in NsTools) => used[c] = String(loaderNamespace)

\* Every call is answered, whatever fails in it and in the calls beside it.
EveryCallAnswered ==
  \A c \in Calls : pc[c] = "decode" ~> pc[c] = "done"

-----------------------------------------------------------------------------
(* What comments of the code say, and the code does not do. *)

\* mcp.go:27-28: "newRoot returns a fresh command tree, one per tool call, so
\* that no flag a call set is still set on the next."
NamespaceIsTheCalls ==
  \A c \in Calls : (pc[c] = "run" /\ req[c].tool \in NsTools) =>
    used[c] = String(IF req[c].ns # Unset THEN req[c].ns ELSE loaderNamespace)

=============================================================================
