---------------------------- MODULE MCRemoteTarget ----------------------------
(* RemoteTarget for TLC: session a on the shared target; session b under a    *)
(* policy that gives its repository a branch per session, or keeps it local,  *)
(* or that is refused, because it promises a push which its mode never makes. *)
EXTENDS RemoteTarget, TLC
CONSTANTS a, b, u, v
MCClash == {{b, u}}

Policy(completion, entry) ==
  [defaults |-> [promotion |-> "shared-target", completion |-> completion], entry |-> entry]
MCFiles ==
  a :> {Policy("target-pushed", <<>>)} @@
  b :> {None, Policy("production-merged", [promotion |-> "session-branch"]),
        Policy("target-pushed", [promotion |-> "none", completion |-> "local"]),
        Policy("target-pushed", [promotion |-> "none"]),
        Policy("target-pushed", [promotion |-> "session-branch"])}
===============================================================================
