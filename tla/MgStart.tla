------------------------------ MODULE MgStart ------------------------------
(***************************************************************************)
(* mg_start up to its threads: it takes the options of the service over    *)
(* the defaults and opens a listening socket for every port of the list,   *)
(* or none of them.                                                        *)
(*                                                                         *)
(* A port specification is a number and the character behind it.           *)
(***************************************************************************)
EXTENDS Integers, Sequences, SequencesExt

CONSTANTS PortLists,   \* the lists of ports in the configurations of the service
          Taken        \* the ports that other processes listen on

ASSUME MgStartAssumption == \A list \in PortLists : list \in Seq([port : Int, next : STRING])

VARIABLES
  start,       \* "options" | "ports" | "started" | "refused"
  config,      \* ctx->config
  list,        \* the ports of the list that are still to open
  listening,   \* ctx->listening_sockets
  bound        \* the ports this process listens on

server == <<start, config, list, listening, bound>>

\* config_options: the defaults that matter here; NULL is "".
Defaults == [listening_ports |-> <<[port |-> 8080, next |-> ""]>>,
             enable_keep_alive |-> "no", document_root |-> "",
             request_timeout_ms |-> 3000, ssl_certificate |-> ""]

\* get_option_index: the service gives only names that are in the table.
WithOption(options, name, value) == [options EXCEPT ![name] = value]

StartInit == /\ start = "options"
             /\ config = Defaults
             /\ list = <<>> /\ listening = <<>> /\ bound = {}

\* The options that the service gives, then the defaults of the others.
TakeOptions == /\ start = "options"
               /\ \E ports \in PortLists :
                    /\ config' = WithOption(config, "listening_ports", ports)
                    /\ list' = ports
               /\ start' = "ports"
               /\ UNCHANGED <<listening, bound>>

\* parse_port_string: 65535 is no port either.
IsValidPort(port) == port > 0 /\ port < 65535
ParsePort(spec) == [port |-> spec.port,
                    is_ssl |-> spec.next = "s", ssl_redir |-> spec.next = "r",
                    valid |-> IsValidPort(spec.port) /\ spec.next \in {"", "s", "r"}]

\* Can the socket be opened?  Not with SSL, as there is no certificate; and a port has
\* one listener.
Opens(so) == /\ so.valid
             /\ ~so.is_ssl \/ config.ssl_certificate # ""
             /\ so.port \notin Taken \cup bound

OpenPort == /\ start = "ports"
            /\ list # <<>>
            /\ LET so == ParsePort(Head(list))
               IN /\ Opens(so)
                  /\ listening' = Append(listening, [port |-> so.port,
                                                     ssl_redir |-> so.ssl_redir])
                  /\ bound' = bound \cup {so.port}
            /\ list' = Tail(list)
            /\ UNCHANGED <<start, config>>

\* Mutant of RefusePort: the sockets that are open stay so.
RefusePortOpen == /\ start = "ports"
                  /\ list # <<>>
                  /\ ~Opens(ParsePort(Head(list)))
                  /\ start' = "refused"
                  /\ listening' = <<>>
                  /\ UNCHANGED <<config, list, bound>>

\* One fails: close all of them, free the context and return NULL.  The service does
\* not look at it.
RefusePort == /\ start = "ports"
              /\ list # <<>>
              /\ ~Opens(ParsePort(Head(list)))
              /\ start' = "refused"
              /\ listening' = <<>> /\ bound' = {}
              /\ UNCHANGED <<config, list>>

\* No user to change to and no list of clients to check: on to the threads.
PortsOpen == /\ start = "ports"
             /\ list = <<>>
             /\ start' = "started"
             /\ UNCHANGED <<config, list, listening, bound>>

StartNext == TakeOptions \/ OpenPort \/ RefusePort \/ PortsOpen

-----------------------------------------------------------------------------
\* A server that runs listens on every port of its configuration, each with the way of
\* its own entry; one that mg_start gave up keeps no port from its successor, however
\* many it had opened before the one that failed.
AllPortsOrNone ==
  /\ start = "started" =>
       /\ bound = {spec.port : spec \in ToSet(config.listening_ports)}
       /\ Len(listening) = Len(config.listening_ports)
       /\ \A i \in DOMAIN listening :
            listening[i].ssl_redir <=> config.listening_ports[i].next = "r"
  /\ start = "refused" => bound = {}
=============================================================================
