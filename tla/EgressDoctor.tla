---------------------------- MODULE EgressDoctor ----------------------------
(***************************************************************************)
(* The egress diagnostic of a hop (egress_diagnostic.rs): the target it    *)
(* picks, what each probe concludes from what the world answers, and the   *)
(* verdict.  A probe ends in "ok", "failed" or "skipped".                  *)
(***************************************************************************)
EXTENDS Integers, Sequences

Statuses == {"ok", "failed", "skipped"}
Presets  == {"google", "youtube", "openai", "cloudflare", "github"}

NoTarget == [host |-> "", protocol |-> "none", source |-> "none"]

\* A target as written: [form, name, scheme, port], the form being "blank", "word", "url" or
\* "host_port".
parse_target(t) ==
    CASE t.form = "word" /\ (t.name \in Presets \/ t.name = "cloudfalre") ->
            [host |-> t.name, protocol |-> "https", source |-> "named_preset"]
      [] t.form = "word" /\ t.name \notin Presets \cup {"cloudfalre"} ->
            [host |-> t.name, protocol |-> "https", source |-> "manual"]
      [] t.form = "url" /\ t.scheme \in {"http", "https"} /\ t.name # "" ->
            [host |-> t.name, protocol |-> t.scheme, source |-> "manual"]
      [] t.form = "host_port" /\ t.name # "" ->
            [host |-> t.name, protocol |-> IF t.port = 80 THEN "http" ELSE "https", source |-> "manual"]
      [] OTHER -> NoTarget

\* select_target: nothing written means a preset, whichever the clock picks.
select_target(t) ==
    IF t.form = "blank" THEN {[host |-> p, protocol |-> "https", source |-> "random_preset"] : p \in Presets}
                        ELSE {parse_target(t)}

-----------------------------------------------------------------------------
(* The probes.  What the world does is "answers", "empty", "refuses" or "silent"; a local      *)
(* command may also be "absent".                                                              *)

check_dns(world) == IF world = "answers" THEN "ok" ELSE "failed"

\* Without an address there is no route to look up; without the command, the address the
\* kernel would use is evidence enough.
check_route(dns, command, local_addr) ==
    CASE dns # "ok" -> "skipped"
      [] dns = "ok" /\ command = "absent" -> IF local_addr THEN "ok" ELSE "skipped"
      [] OTHER -> IF command = "answers" THEN "ok" ELSE "failed"

check_tcp(world) == IF world \in {"answers", "empty"} THEN "ok" ELSE "failed"

check_tls(target, world) ==
    IF target.protocol = "http" THEN "skipped" ELSE IF world = "answers" THEN "ok" ELSE "failed"

\* A head with a status code; over TLS a new connection and handshake come first.
check_http(target, world) == IF world = "answers" THEN "ok" ELSE "failed"

check_trace(wanted, command) ==
    CASE ~wanted \/ command = "absent" -> "skipped"
      [] wanted /\ command = "answers" -> "ok"
      [] OTHER -> "failed"

-----------------------------------------------------------------------------
(* The verdict on a report [dns, route, tcp, tls, http, trace, wanted]     *)

overall_result(r) ==
    CASE \E stage \in {"dns", "tcp", "tls", "http"} : r[stage] = "failed" -> "failed"
      [] (\A stage \in {"dns", "tcp", "tls", "http"} : r[stage] # "failed")
            /\ (r.route # "ok" \/ (r.wanted /\ r.trace # "ok")) -> "degraded"
      [] OTHER -> "ok"

first_failed_stage(r) ==
    LET order == <<"dns", "tcp", "tls", "http">>
        bad   == {i \in DOMAIN order : r[order[i]] = "failed"}
    IN  IF bad = {} THEN "none" ELSE order[CHOOSE i \in bad : \A j \in bad : i <= j]

\* summarize: the stages the sentence names.
summarize(r) ==
    CASE overall_result(r) = "failed" -> {first_failed_stage(r)}
      [] overall_result(r) = "degraded" ->
            {stage \in {"route", "trace"} : IF stage = "route" THEN r.route # "ok" ELSE r.wanted /\ r.trace # "ok"}
      [] OTHER -> {stage \in {"dns", "route", "tcp", "tls", "http", "trace"} : r[stage] = "ok"}
=============================================================================
