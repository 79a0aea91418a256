-------------------------- MODULE MCAdminRegistries --------------------------
(* An instance of AdminRegistries for TLC. *)
EXTENDS AdminRegistries, TLC

CONSTANTS h1, h2, h3

\* Holder ids are drawn at random.
Interchangeable == Permutations(HolderIds)

Web(doc, form, dns, host, escapes) ==
    [method |-> "web", doc |-> doc, form |-> form, dns |-> dns, host |-> host,
     escapes |-> escapes]

\* One document under two spellings that differ in case and one with the port
\* written out, another one whose host is no DNS name, and a DID of a method
\* whose spelling counts.
MCDids ==
    { Web(1, "plain", TRUE, "lower", "upper"),
      Web(1, "plain", TRUE, "mixed", "lower"),
      Web(1, "explicit", TRUE, "lower", "upper"),
      Web(2, "plain", FALSE, "mixed", "lower"),
      [Web(3, "plain", TRUE, "mixed", "lower") EXCEPT !.method = "other"] }

Ask(limit, field, dir, criteria) ==
    [offset |-> Absent, limit |-> limit, sortField |-> field,
     sortOrder |-> dir, criteria |-> criteria]

Equals(left, right) == [left |-> left, operator |-> "=", right |-> right]

\* Pages of one, of the default and of more than the largest size; a filter
\* with its operand as a string; both directions of a sort; what is refused.
MCSpecs ==
    { Ask(1, Absent, Absent, <<>>),
      Ask(Absent, Absent, "ASC", <<Equals("createdAt", String(1))>>),
      Ask(1, "name", "DESC", <<>>),
      Ask(3, "createdAt", "ASC", <<>>),
      Ask(Absent, "status", "DESC", <<Equals("name", Null)>>),
      Ask(-1, Absent, Absent, <<>>),
      Ask(1, Absent, "UP", <<>>) }

\* The registries share nothing but the clock, so that the interleavings of
\* changes to both are left out.
OneRegistryAtATime ==
    order' = <<>> \/ definitions' = <<IntoDefinition(1, Absent, 0)>>
=============================================================================
