---------------------------- MODULE Transformers ----------------------------
(***************************************************************************)
(* The registry's choice of a normalizer for an attribute                  *)
(* (schema/registry.go) and the normalizers (transformers.go, helpers.go). *)
(* A raw value is a byte string: a FILETIME as the integer it writes in    *)
(* decimal, any other one opaque, valid UTF-8 or not, well formed for a    *)
(* converter or not. int64 has the bounds of the constants and wraps.      *)
(***************************************************************************)
EXTENDS Integers, Sequences

CONSTANTS
    Texts,           \* byte strings that are valid UTF-8
    Blobs,           \* byte strings that are not
    WellFormed,      \* the byte strings that are a SID, a GUID, a time
    SidOf,           \* the SID a byte string starts with
    Empty,           \* the empty byte string as a FILETIME
    NotApplicable,   \* the string N/A
    NilSlice,        \* a nil slice of strings
    MinInt, MaxInt,  \* int64
    EpochOffset,     \* filetimeEpochOffset
    Ticks            \* nanoseconds of a FILETIME unit

Strings == Texts \cup Blobs
Int64 == MinInt .. MaxInt
Converters == {"sid", "guid", "time"}

ASSUME TransformersAssumption ==
    /\ Texts \cap Blobs = {}
    /\ WellFormed \in [Converters -> SUBSET Strings]
    /\ SidOf \in [Strings -> Strings]
    /\ MinInt \in Int /\ MaxInt \in Int /\ MinInt < 0 /\ 0 < MaxInt
    /\ EpochOffset \in Nat /\ Ticks \in Nat \ {0}
    /\ Empty \notin Int64 \cup Strings
    /\ NotApplicable \notin Int

---------------------------------------------------------------------------
(* SchemaRegistry.Lookup.                                                  *)

StringSyntaxes ==
    {<<"2.5.5.8", "1">>, <<"2.5.5.9", "2">>, <<"2.5.5.9", "10">>, <<"2.5.5.13", "127">>,
     <<"2.5.5.14", "127">>, <<"2.5.5.7", "127">>, <<"2.5.5.1", "127">>,
     <<"2.5.5.5", "19">>, <<"2.5.5.5", "22">>, <<"2.5.5.6", "18">>, <<"2.5.5.2", "6">>,
     <<"2.5.5.4", "20">>, <<"2.5.5.12", "64">>, <<"2.5.5.10", "127">>,
     <<"2.5.5.11", "23">>, <<"2.5.5.17", "4">>}

(* registerSchemaSyntax, by attributeSyntax and oMSyntax: even the syntax  *)
(* of SIDs, which are binary, has the string formatter.                    *)
BySyntax(syntax) ==
    CASE syntax \in StringSyntaxes -> "string"
      [] syntax = <<"2.5.5.16", "65">> -> "filetime"
      [] syntax = <<"2.5.5.10", "4">> -> "octet"
      [] syntax = <<"2.5.5.11", "24">> -> "time"
      [] syntax = <<"2.5.5.15", "66">> -> "sd"
      [] OTHER -> "unmapped"

(* registerAttributeOverrides, by name.                                    *)
Overrides ==
    [name \in {"uSNCreated", "uSNChanged", "objectGUID",
               "objectSid", "tokenGroups", "msRTCSIP-OriginatorSid"} |->
        CASE name \in {"uSNCreated", "uSNChanged"} -> "string"
          [] name = "objectGUID" -> "guid"
          [] OTHER -> "sid"]

(* The overrides come before the syntax.                                   *)
Lookup(attr) ==
    IF attr.name \in DOMAIN Overrides THEN Overrides[attr.name] ELSE BySyntax(attr.syntax)

Formatters == Converters \cup {"string", "octet", "sd", "filetime"}

---------------------------------------------------------------------------
(* fromFileDateTime.                                                       *)

(* A result of int64 arithmetic.                                           *)
Wrap(n) == MinInt + ((n - MinInt) % (MaxInt - MinInt + 1))

(* The values that are not a date: nothing is set, or never.               *)
Sentinels == {Empty, 0, MaxInt}

(* Mutant: whole units of ten, as if the fraction did not matter.          *)
FiletimeRounded(v) ==
    IF v \in Sentinels THEN NotApplicable
    ELSE Wrap(Wrap((v \div 10) * 10 - EpochOffset) * Ticks)

(* The date that is written, as nanoseconds since 1970.                    *)
Filetime(v) ==
    IF v \in Sentinels THEN NotApplicable
    ELSE Wrap(Wrap(v - EpochOffset) * Ticks)

(* The dates that the multiplication does not carry out of int64.          *)
Dates == {v \in Int64 \ Sentinels : (v - EpochOffset) * Ticks \in Int64}

---------------------------------------------------------------------------
(* Normalizer.                                                             *)

(* The values a formatter does not return an error for. A security         *)
(* descriptor that is valid UTF-8 is refused.                              *)
Accepts(formatter, v) ==
    CASE formatter = "string" -> v \in Texts
      [] formatter = "octet" -> v \in Strings
      [] formatter = "sd" -> v \in Blobs
      [] formatter = "filetime" -> v \in Int64 \cup {Empty}
      [] OTHER -> v \in WellFormed[formatter]

(* The text is the formatter with what it stands for: base64 and the       *)
(* writing of GUIDs and times tell their values apart, ConvertSIDToString  *)
(* does not read what follows a SID.                                       *)
Text(formatter, v) ==
    CASE formatter = "string" -> v
      [] formatter = "filetime" -> Filetime(v)
      [] formatter = "sid" -> <<"sid", SidOf[v]>>
      [] OTHER -> <<formatter, v>>

AllAccepted(formatter, values) == \A i \in DOMAIN values : Accepts(formatter, values[i])

TextsOf(formatter, values) == [i \in 1 .. Len(values) |-> Text(formatter, values[i])]

(* Normalize: one error gives up the attribute, with nil Values.           *)
NormalizeValues(formatter, values) ==
    IF AllAccepted(formatter, values) THEN TextsOf(formatter, values) ELSE NilSlice
=============================================================================
