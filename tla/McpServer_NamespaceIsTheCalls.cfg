SPECIFICATION Spec
CONSTANTS
  c1 = c1
  c2 = c2
  topology = topology
  gather = gather
  shell = shell
  nsA = nsA
  nsB = nsB
  nsCtx = nsCtx
  Calls <- MCCalls
  Tools <- MCTools
  ExecTools <- MCExecTools
  NoExecTools <- MCNoExecTools
  DirTools <- MCDirTools
  NsTools <- MCNsTools
  Namespaces <- MCNamespaces
  ServerNs = nsA
  ContextNs = nsCtx
INVARIANTS
  NamespaceIsTheCalls
