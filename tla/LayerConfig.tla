----------------------------- MODULE LayerConfig -----------------------------
(***************************************************************************)
(* config.rs: the configuration of the layer, from the environment and     *)
(* from the per-application sections of a file that a hand-written reader  *)
(* takes line by line.                                                     *)
(*                                                                         *)
(* A text is the sequence of its pieces: words, and the marks the reader   *)
(* looks for ("[app.", "]", "=", "#" and the double quote).  Spaces are    *)
(* left out, the code trims them.  An optional value is <<>> or <<v>>.     *)
(***************************************************************************)
EXTENDS Integers, SequencesExt

Flags   == {"expose_reflex", "spoof_nvidia", "force_decoupled", "vrr_enabled"}
Numbers == {"fps_cap", "vrr_offset_hz"}
Fields  == Flags \cup Numbers \cup {"spoof_profile"}

\* The fields by their names in the file; any other name is unknown.
FieldOf == ("expose_reflex" :> "expose_reflex") @@ ("spoof_nvidia" :> "spoof_nvidia")
        @@ ("force_decoupled" :> "force_decoupled") @@ ("fps_cap" :> "fps_cap")
        @@ ("vrr" :> "vrr_enabled") @@ ("vrr_offset" :> "vrr_offset_hz")
        @@ ("spoof_model" :> "spoof_profile")

Quote == "quote"
NumberOf == [digits \in {"0", "1", "5", "144"} |->
               CASE digits = "0" -> 0 [] digits = "1" -> 1 [] digits = "5" -> 5 [] OTHER -> 144]
Upper == ("rtx_4090" :> "RTX_4090") @@ ("RTX_4090" :> "RTX_4090") @@ ("RTX_5090" :> "RTX_5090")
NVIDIA_PRESETS == {"RTX_4090", "RTX_5090"}   \* two of the table's 31
DEFAULT_PRESET == "RTX_5090"
DEFAULT_VRR_OFFSET_HZ == 3
DECOUPLED_SIMULATION_APPS == {<<"Marvel">>}

strip_quotes(text) ==
  IF Len(text) >= 2 /\ Head(text) = Quote /\ Last(text) = Quote
    THEN SubSeq(text, 2, Len(text) - 1) ELSE text

parse_bool(text) == CASE text \in {<<"true">>, <<"1">>}  -> <<TRUE>>
                      [] text \in {<<"false">>, <<"0">>} -> <<FALSE>>
                      [] OTHER -> <<>>

parse_u32(text) ==
  IF Len(text) = 1 /\ Head(text) \in DOMAIN NumberOf THEN <<NumberOf[Head(text)]>> ELSE <<>>

Slip_CaseMatters(model) == IF Len(model) = 1 THEN Head(model) ELSE DEFAULT_PRESET
resolve_spoof_profile(model) ==
  IF Len(model) = 1 /\ Head(model) \in DOMAIN Upper /\ Upper[Head(model)] \in NVIDIA_PRESETS
    THEN Upper[Head(model)] ELSE DEFAULT_PRESET

Parse(field, text) == CASE field \in Flags   -> parse_bool(text)
                        [] field \in Numbers -> parse_u32(text)
                        [] OTHER             -> <<resolve_spoof_profile(text)>>

-----------------------------------------------------------------------------
(* load_toml *)

\* What comes before the first p, and after it.
Before(text, p) == LET i == SelectInSeq(text, LAMBDA q : q = p)
                   IN IF i = 0 THEN text ELSE SubSeq(text, 1, i - 1)
After(text, p)  == SubSeq(text, Len(Before(text, p)) + 2, Len(text))

Code(line) == Before(line, "#")
IsSection(line) == Code(line) # <<>> /\ Head(Code(line)) = "[app."

TrimEnd(text) == SubSeq(text, 1, SelectLastInSeq(text, LAMBDA p : p # "]"))
SectionName(line) == strip_quotes(TrimEnd(Tail(Code(line))))

IsSetting(line) == Contains(Code(line), "=")
\* The field that a line sets, or none when its key is unknown.
Key(line) == LET k == Before(Code(line), "=")
             IN IF Len(k) = 1 /\ Head(k) \in DOMAIN FieldOf THEN {FieldOf[Head(k)]} ELSE {}
Value(line) == strip_quotes(After(Code(line), "="))

AppOverride(name) == [app_name |-> name, set |-> [f \in Fields |-> <<>>]]

SetLine(over, line) ==
  [over EXCEPT !.set = [f \in Fields |-> IF f \in Key(line)
                                           THEN Parse(f, Value(line)) ELSE over.set[f]]]

\* The sections read so far, the last of them the current one.
ReadLine(read, line) ==
  CASE IsSection(line) -> Append(read, AppOverride(SectionName(line)))
    [] ~IsSection(line) /\ IsSetting(line) /\ read # <<>>
                       -> Append(Front(read), SetLine(Last(read), line))
    [] OTHER           -> read
\* What has been read after each number of lines.
Reads(lines) ==
  LET read[i \in 0 .. Len(lines)] == IF i = 0 THEN <<>> ELSE ReadLine(read[i - 1], lines[i])
  IN read
load_toml(lines) == Reads(lines)[Len(lines)]

-----------------------------------------------------------------------------
(* from_env and finalize_for_app *)

\* env maps each field to the text of its variable, <<>> when it is not set.
env_flag(text) == text = <<"1">>

from_env(env, lines) ==
  [base |-> [f \in Fields |->
      CASE f \in Flags         -> env_flag(env[f])
        [] f = "fps_cap"       -> IF parse_u32(env[f]) = <<>> THEN 0 ELSE parse_u32(env[f])[1]
        [] f = "vrr_offset_hz" -> IF parse_u32(env[f]) = <<>> THEN DEFAULT_VRR_OFFSET_HZ
                                                              ELSE parse_u32(env[f])[1]
        [] OTHER               -> resolve_spoof_profile(env[f])],
   per_app |-> load_toml(lines)]

\* An application's name is <<>> when it has none, else <<text>>.
Slip_LastSection(config, name) ==
  LET i == SelectLastInSeq(config.per_app, LAMBDA o : name = <<o.app_name>>)
  IN IF i = 0 THEN config.base
     ELSE [f \in Fields |-> LET v == config.per_app[i].set[f]
                            IN IF v = <<>> THEN config.base[f] ELSE v[1]]
finalize_for_app(config, name) ==
  LET i == SelectInSeq(config.per_app, LAMBDA o : name = <<o.app_name>>)
  IN IF i = 0 THEN config.base
     ELSE [f \in Fields |-> LET v == config.per_app[i].set[f]
                            IN IF v = <<>> THEN config.base[f] ELSE v[1]]

is_known_decoupled(config, name) ==
  config.force_decoupled \/ (name # <<>> /\ name[1] \in DECOUPLED_SIMULATION_APPS)

-----------------------------------------------------------------------------
(* What a file says of an application, without a reader: the last line     *)
(* that sets a field inside the first section with the application's name, *)
(* when its value can be read; else the environment.                       *)

Sections(lines, name) == {i \in 1 .. Len(lines) : IsSection(lines[i]) /\ SectionName(lines[i]) = name}
First(S) == CHOOSE i \in S : \A j \in S : i <= j
InSection(lines, h, i) == h < i /\ \A j \in h + 1 .. i : ~IsSection(lines[j])
Settings(lines, h, f) ==
  {i \in 1 .. Len(lines) : InSection(lines, h, i) /\ IsSetting(lines[i]) /\ f \in Key(lines[i])}

Written(base, lines, name, f) ==
  LET S    == IF name = <<>> THEN {} ELSE Sections(lines, name[1])
      K    == IF S = {} THEN {} ELSE Settings(lines, First(S), f)
      last == CHOOSE i \in K : \A j \in K : j <= i
      v    == IF K = {} THEN <<>> ELSE Parse(f, Value(lines[last]))
  IN IF v = <<>> THEN base[f] ELSE v[1]
=============================================================================
