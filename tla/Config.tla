------------------------------- MODULE Config -------------------------------
(***************************************************************************)
(* The configuration file (src/internal/config/config.go): Load with apply *)
(* and splitList, and the ranges Validate checks.                          *)
(*                                                                         *)
(* A line is a record: indented or not, its key, its value.  Comments and  *)
(* blank lines are left out, and a value that stands for text is a word.   *)
(***************************************************************************)
EXTENDS Integers, Sequences, FiniteSets, SequencesExt

\* apply: the keys of each section and what their values have to be.
TextKeys ==
  [sip   |-> {"listen", "bind_device", "advertised_address", "domain", "trunk_uri",
              "outbound_proxy", "user_agent"},
   h248  |-> {"listen", "bind_device", "transport", "encoding", "mg_id", "mgc", "backup_mgc",
              "service_change_method", "service_change_reason", "service_change_profile",
              "service_change_address", "physical_termination",
              "ephemeral_termination_prefix"},
   media |-> {"rtp_ip", "h248_rtp_ip", "h248_dtmf_mode", "codecs"}]
NumberKeys ==
  [sip   |-> {},
   h248  |-> {"version", "service_change_retry_seconds", "service_change_max_attempts",
              "mgc_failure_timeout_seconds", "origination_stabilization_seconds",
              "digit_report_delay_milliseconds"},
   media |-> {"port_min", "port_max", "dtmf_payload_type", "h248_dtmf_payload_type",
              "ptime_ms"}]
Sections == DOMAIN TextKeys

\* The empty value
Empty == "empty"

\* bound: the values strconv.Atoi takes
Numerals == {"1", "20000"}

\* apply fails on an unknown key and on a number that is none.
Applies(section, line) ==
  /\ section \in Sections
  /\ \/ line.key \in TextKeys[section]
     \/ line.key \in NumberKeys[section] /\ line.value \in Numerals

\* What has been read: the section, the settings by section and key, and
\* whether a line was refused, which ends it.
NothingRead == [section |-> "", settings |-> {}, failed |-> FALSE]

\* Mutant: the indentation is not looked at.
IsHeaderAny(line) == line.value = Empty

\* A line that begins at the margin and ends with its colon opens a section.
IsHeader(line) == ~ line.indented /\ line.value = Empty

\* The body of Load's loop
ReadLine(read, line) ==
  IF read.failed THEN read
  ELSE IF IsHeader(line) THEN [read EXCEPT !.section = line.key]
  ELSE IF ~ Applies(read.section, line) THEN [read EXCEPT !.failed = TRUE]
  ELSE [read EXCEPT !.settings =
         {s \in @ : s[1] # read.section \/ s[2] # line.key}
           \cup {<<read.section, line.key, line.value>>}]

Load(lines) == FoldLeft(ReadLine, NothingRead, lines)

----------------------------------------------------------------------------

\* The even port normalizeEvenPort begins with.
FirstRTPPort(portMin) == IF portMin % 2 # 0 THEN portMin + 1 ELSE portMin

\* Mutant: the rounding of an odd port_min is forgotten.
PortsValidUnrounded(cfg) ==
  cfg.portMin > 0 /\ cfg.portMax <= 65534 /\ cfg.portMin + 2 <= cfg.portMax

PortsValid(cfg) ==
  cfg.portMin > 0 /\ cfg.portMax <= 65534 /\ FirstRTPPort(cfg.portMin) + 2 <= cfg.portMax

\* Validate, as far as it is about numbers
Validate(cfg) ==
  /\ cfg.version \in 1..3
  /\ cfg.retrySeconds > 0 /\ cfg.maxAttempts > 0
  /\ cfg.failureTimeout >= 1
  /\ cfg.stabilization \in 0..300 /\ cfg.digitDelay \in 0..10000
  /\ PortsValid(cfg)
  /\ cfg.dtmf \in 1..127 /\ cfg.h248DTMF \in 1..127
  /\ cfg.ptime \in 1..200

----------------------------------------------------------------------------
(* Properties *)

\* Load: a file made of sections, in any order and any of them more than once,
\* sets each key of its own section to the last value given to it and nothing
\* else, empty values included; it is refused at a key its section does not
\* have and at a number that is none.
LoadedAsWritten(sections) ==
  LET Lines(s) == <<[indented |-> FALSE, key |-> s.name, value |-> Empty]>>
                    \o [k \in DOMAIN s.settings |->
                         [indented |-> TRUE, key |-> s.settings[k][1],
                          value |-> s.settings[k][2]]]
      given == FlattenSeq([k \in DOMAIN sections |->
                 [j \in DOMAIN sections[k].settings |->
                   <<sections[k].name>> \o sections[k].settings[j]]])
      acceptable == \A k \in DOMAIN given :
        Applies(given[k][1], [key |-> given[k][2], value |-> given[k][3]])
      read == Load(FlattenSeq([k \in DOMAIN sections |-> Lines(sections[k])]))
  IN /\ read.failed = ~ acceptable
     /\ acceptable => read.settings =
          {given[k] : k \in {j \in DOMAIN given :
             \A i \in j + 1 .. Len(given) :
               given[i][1] # given[j][1] \/ given[i][2] # given[j][2]}}

\* Validate against allocateRTPPortLocked and newMediaRelay: in a range it
\* accepts the circle of even ports has room for the two legs of a call, and
\* every port of it and its RTCP port exist.
ValidatedPortsSuffice(cfg) ==
  Validate(cfg) =>
    LET circle == {p \in FirstRTPPort(cfg.portMin) .. cfg.portMax :
                     p % 2 = 0}
    IN Cardinality(circle) >= 2 /\ \A p \in circle : p >= cfg.portMin /\ p + 1 <= 65535
=============================================================================
