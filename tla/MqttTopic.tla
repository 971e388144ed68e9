----------------------------- MODULE MqttTopic -----------------------------
(***************************************************************************)
(* topic_filter_match of src/protocol_learning_code/mqtt/                  *)
(* mqtt_mongoose_broker.c, and what a topic filter means.  Topics and      *)
(* filters are sequences of characters.                                    *)
(***************************************************************************)
EXTENDS Naturals, Sequences

NUL == "NUL"

(* The k-th character of a C string, its terminating NUL included. *)
CharAt(s, k) == IF k <= Len(s) THEN s[k] ELSE NUL

(* Mutant: "+" stops at the end of the topic only. *)
PassesSlashes(s, p) == Len(s) + 1

(* Where the level that position p lies in ends. *)
EndOfLevel(s, p) ==
    CHOOSE q \in p..(Len(s) + 1) :
        /\ CharAt(s, q) \in {"/", NUL}
        /\ \A r \in p..(q - 1) : CharAt(s, r) \notin {"/", NUL}

(***************************************************************************)
(* One iteration, at the positions fp and tp, when the loop returns        *)
(* matches[p][q] from p and q on.  It passes one character of the filter,  *)
(* in the topic one character or, for "+", the rest of the level; then it  *)
(* passes a "/" in both, or ends with one of them.                         *)
(***************************************************************************)
Iteration(filter, topic, matches, fp, tp) ==
    LET F(k) == CharAt(filter, k)
        T(k) == CharAt(topic, k)
        tq   == IF F(fp) = "+" THEN EndOfLevel(topic, tp) ELSE tp + 1
    IN  CASE F(fp) = NUL -> T(tp) = NUL
          [] F(fp) = "#" -> F(fp + 1) = NUL
          [] F(fp) \notin {NUL, "#", "+", T(tp)} -> FALSE
          [] OTHER ->
               IF F(fp + 1) = "/" /\ T(tq) = "/" THEN matches[fp + 2][tq + 1]
               ELSE IF NUL \notin {F(fp + 1), T(tq)} THEN matches[fp + 1][tq]
               ELSE \/ F(fp + 1) = NUL /\ T(tq) = NUL
                    \/ F(fp + 1) = "#" /\ F(fp + 2) = NUL

topic_filter_match(filter, topic) ==
    LET matches[fp \in 1..(Len(filter) + 1)] ==
            [tp \in 1..(Len(topic) + 1) |-> Iteration(filter, topic, matches, fp, tp)]
    IN  matches[1][1]

(***************************************************************************)
(* The meaning of a filter, level by level (README.md, section 7).         *)
(***************************************************************************)
(* The levels of a topic: what stands between the slashes, perhaps         *)
(* nothing.  from[k] are those of what begins at the k-th character.       *)
Levels(s) ==
    LET from[k \in 1..(Len(s) + 1)] ==
            IF k > Len(s) THEN <<<<>>>>
            ELSE IF s[k] = "/" THEN <<<<>>>> \o from[k + 1]
            ELSE [from[k + 1] EXCEPT ![1] = <<s[k]>> \o @]
    IN  from[1]

Has(level, wildcard) == \E k \in 1..Len(level) : level[k] = wildcard

(* "+" stands alone in its level, "#" alone in the last one. *)
WellFormed(f) ==
    \A n \in 1..Len(f) :
        /\ Has(f[n], "+") => f[n] = <<"+">>
        /\ Has(f[n], "#") => f[n] = <<"#">> /\ n = Len(f)

(* "+" matches one level, "#" one level or more. *)
LevelsMatch(f, t) ==
    IF f[Len(f)] = <<"#">>
    THEN Len(t) >= Len(f) /\ \A n \in 1..(Len(f) - 1) : f[n] \in {<<"+">>, t[n]}
    ELSE Len(t) = Len(f) /\ \A n \in 1..Len(f) : f[n] \in {<<"+">>, t[n]}

(* The last two levels are empty. *)
EndsEmpty(t) == Len(t) >= 2 /\ t[Len(t)] = <<>> /\ t[Len(t) - 1] = <<>>

IsFilter(filter) == WellFormed(Levels(filter))

MatchesByLevels(filter, topic) == LevelsMatch(Levels(filter), Levels(topic))
=============================================================================
