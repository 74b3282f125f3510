----------------------------- MODULE Specialists ----------------------------
(***************************************************************************)
(* The five specialists (specialists/*.py): the one piece of evidence each *)
(* can return, as a function of the number of rows its query found.        *)
(* Confidences are percentages; summaries, links and payloads are left     *)
(* out.  The prior hypothesis is accepted and discarded by all five, so it *)
(* is no argument here.                                                    *)
(***************************************************************************)
EXTENDS Naturals

FallbackKey ==
  [triage             |-> "triage_unavailable",
   topology           |-> "topology_unavailable",
   deploy_correlation |-> "deploy_correlation_unavailable",
   anomaly_window     |-> "anomaly_window_unavailable",
   vuln_sec           |-> "vuln_sec_unavailable"]

SpecialistNames == DOMAIN FallbackKey

FallbackKeys == {FallbackKey[s] : s \in SpecialistNames}
CausalKeys   == {"db_pool_exhaustion", "cve_exposure"}

Least(a, b) == IF a <= b THEN a ELSE b

Claim(s, stance, key, confidence) ==
  [specialist |-> s, stance |-> stance, key |-> key, confidence |-> confidence]

\* One row: an error group, a downstream service, a deploy event, a metric
\* deviation or a newly active CVE.
Triage(rows) ==
  Claim("triage", "supports", "db_pool_exhaustion", 55 + Least(30, 5 * rows))

\* FAULT: an empty neighbourhood speaks against the hypothesis.
FaultyTopology(rows) ==
  Claim("topology", IF rows = 0 THEN "refutes" ELSE "supports",
        "db_pool_exhaustion", 50 + Least(40, 5 * rows))

Topology(rows) ==
  Claim("topology", IF rows = 0 THEN "informational" ELSE "supports",
        "db_pool_exhaustion", 50 + Least(40, 5 * rows))

DeployCorrelation(rows) ==
  IF rows = 0 THEN Claim("deploy_correlation", "refutes", "db_pool_exhaustion", 35)
              ELSE Claim("deploy_correlation", "supports", "db_pool_exhaustion", 78)

AnomalyWindow(rows) ==
  IF rows = 0 THEN Claim("anomaly_window", "refutes", "db_pool_exhaustion", 30)
              ELSE Claim("anomaly_window", "supports", "db_pool_exhaustion", 70)

VulnSec(rows) ==
  IF rows = 0 THEN Claim("vuln_sec", "refutes", "cve_exposure", 25)
              ELSE Claim("vuln_sec", "supports", "cve_exposure", 65)

\* What the probe of s returns when the client answers.
Finding(s, rows) ==
  CASE s = "triage"             -> Triage(rows)
    [] s = "topology"           -> Topology(rows)
    [] s = "deploy_correlation" -> DeployCorrelation(rows)
    [] s = "anomaly_window"     -> AnomalyWindow(rows)
    [] s = "vuln_sec"           -> VulnSec(rows)

\* FAULT: a degraded specialist vouches for its placeholder.
FaultyDegraded(s) == Claim(s, "informational", FallbackKey[s], 50)

\* What _safely returns when the client raised DynatraceUnavailable or
\* RateLimited.
Degraded(s) == Claim(s, "informational", FallbackKey[s], 10)
=============================================================================
