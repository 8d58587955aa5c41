---------------------------- MODULE MCTrustStore ----------------------------
(* A web process with a handler thread and its poller beside commands on    *)
(* the command line.  Alice is a contact, Bob and Carol have asked to be,   *)
(* Dave and Erin ask at the same time.                                      *)
EXTENDS TrustStore

B(f) == [fp |-> f, as |-> "plain"]
Alice == B("alice")
AliceToo == [fp |-> "alice", as |-> "capital"]
MCBundle == {Alice, AliceToo, B("bob"), B("carol"), B("dave"), B("erin")}
MCInitial == {Alice}
MCWaiting == {B("bob"), B("carol")}

Do(op, b) == [op |-> op, bundle |-> b, replace |-> FALSE]
Replace(b) == [op |-> "add", bundle |-> b, replace |-> TRUE]

MCCommand == [
    handler |-> {Do("accept", B("bob")), Do("dismiss", B("bob")), Do("add", AliceToo),
                 Do("add", B("dave"))},
    poller |-> {Do("learn", B("bob")), Do("offer", B("dave"))},
    shell |-> {Do("accept", B("bob")), Do("remove", Alice), Replace(AliceToo),
               Do("offer", B("erin"))}]
MCThread == DOMAIN MCCommand
Web == {"handler", "poller"}
MCProcess == {Web, {"shell"}}
MCLongLived == {Web}
=============================================================================
