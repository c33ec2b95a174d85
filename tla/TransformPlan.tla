----------------------------- MODULE TransformPlan -----------------------------
(***************************************************************************)
(* Colour policies: resolve_transform_plan and the key of the transform    *)
(* that it decides on, for one request after another.  Each resolver is a  *)
(* loop over what the caller observed; one element a step.                 *)
(***************************************************************************)
EXTENDS Naturals, Sequences, FiniteSets

CONSTANTS
  Requests,       \* a TransformPlanRequest with all that was observed for it
  MaxRequests     \* bound on the requests

ASSUME MaxRequestsIsNat == MaxRequests \in Nat

ObservedLinks == UNION {{r.links[i] : i \in DOMAIN r.links} : r \in Requests}

(* A link description is its id and its two colour spaces, no more.         *)
ASSUME LinksAreDescriptions ==
  /\ \A r \in Requests : r.links \in Seq(ObservedLinks)
  /\ \A k, l \in ObservedLinks :
       k.id = l.id /\ k.source = l.source /\ k.destination = l.destination => k = l

AllObserved(lists) == UNION {{lists[r][i] : i \in DOMAIN lists[r]} : r \in Requests}
ObservedIntents == AllObserved([r \in Requests |-> r.intents])
ObservedSpots == AllObserved([r \in Requests |-> r.spots])
ObservedInteractions == AllObserved([r \in Requests |-> r.interactions])

ASSUME ObservationsAreLists ==
  \A r \in Requests : /\ r.intents \in Seq(ObservedIntents)
                      /\ r.spots \in Seq(ObservedSpots)
                      /\ r.interactions \in Seq(ObservedInteractions)

VARIABLES
  request,
  resolving,      \* "idle", "links", "intents", "spots", "overprint" or "key"
  position,       \* element at hand
  device_link, output_intent, spot, overprint,     \* the decisions
  keyed           \* history: the keys given, with the transforms they were for

transformVars ==
  <<request, resolving, position, device_link, output_intent, spot, overprint, keyed>>

Undecided == [decision |-> "Undecided"]

NoRequest == [source |-> "none"]

TransformInit ==
  /\ request = NoRequest
  /\ resolving = "idle" /\ position = 1
  /\ device_link = Undecided /\ output_intent = Undecided
  /\ spot = Undecided /\ overprint = Undecided
  /\ keyed = <<>>

Submit ==
  /\ resolving = "idle" /\ Len(keyed) < MaxRequests
  /\ request' \in Requests
  /\ resolving' = "links" /\ position' = 1
  /\ device_link' = Undecided
  /\ output_intent' = [decision |-> "RequiresEnsureTarget"]    \* no conflict seen
  /\ spot' = [decision |-> "ConvertAlternate", eligible |-> <<>>, skipped |-> <<>>]
  /\ overprint' = [decision |-> "Mitigate", supported |-> <<>>, skipped |-> <<>>]
  /\ UNCHANGED keyed

Here(observed) == observed[position]
Behind(observed) == position > Len(observed)

Stay == position' = position + 1 /\ UNCHANGED <<request, resolving, keyed>>
MoveOn(to) == resolving' = to /\ position' = 1 /\ UNCHANGED <<request, keyed>>

-----------------------------------------------------------------------------
(* resolve_device_link_policy                                               *)
Serves(link) == link.source = request.source /\ link.destination = request.destination
LooksAtLinks == request.device_link # "Forbid"

ConsiderLink ==
  /\ resolving = "links" /\ LooksAtLinks /\ ~Behind(request.links)
  /\ IF Serves(Here(request.links))
     THEN /\ device_link' = [decision |-> "UseDeviceLink", link |-> Here(request.links)]
          /\ MoveOn("intents")
     ELSE UNCHANGED device_link /\ Stay
  /\ UNCHANGED <<output_intent, spot, overprint>>

SettleLink ==
  /\ resolving = "links" /\ (LooksAtLinks => Behind(request.links))
  /\ device_link' = IF request.device_link = "Require" THEN [decision |-> "Rejected"]
                    ELSE [decision |-> "UseProfileConnectionSpace"]
  /\ MoveOn("intents")
  /\ UNCHANGED <<output_intent, spot, overprint>>

-----------------------------------------------------------------------------
(* resolve_output_intent_policy: a conflict is remembered, and a match      *)
(* behind it still wins.                                                    *)
SameSubtype(intent) == intent.subtype = request.output_intent.target.subtype
IsTarget(intent) == intent = request.output_intent.target

ConsiderIntentConflictWins ==    \* mutant: the first intent of the subtype decides
  /\ resolving = "intents" /\ request.output_intent.policy = "EnsureTarget"
  /\ ~Behind(request.intents)
  /\ LET intent == Here(request.intents)
     IN  IF SameSubtype(intent)
         THEN /\ output_intent' =
                   IF IsTarget(intent) THEN [decision |-> "AlreadySatisfied"]
                   ELSE [decision |-> "ConflictsWithExisting", existing |-> intent]
              /\ MoveOn("spots")
         ELSE UNCHANGED output_intent /\ Stay
  /\ UNCHANGED <<device_link, spot, overprint>>

ConsiderIntent ==
  /\ resolving = "intents" /\ request.output_intent.policy = "EnsureTarget"
  /\ ~Behind(request.intents)
  /\ LET intent == Here(request.intents)
     IN  IF SameSubtype(intent) /\ IsTarget(intent)
         THEN output_intent' = [decision |-> "AlreadySatisfied"] /\ MoveOn("spots")
         ELSE /\ output_intent' =
                   IF SameSubtype(intent) /\ output_intent.decision = "RequiresEnsureTarget"
                   THEN [decision |-> "ConflictsWithExisting", existing |-> intent]
                   ELSE output_intent
              /\ Stay
  /\ UNCHANGED <<device_link, spot, overprint>>

SettleIntent ==
  /\ resolving = "intents"
  /\ request.output_intent.policy = "EnsureTarget" => Behind(request.intents)
  /\ output_intent' =
       CASE request.output_intent.policy = "Preserve" -> [decision |-> "Preserve"]
         [] request.output_intent.policy = "RequireExisting" ->
              [decision |-> IF request.intents # <<>> THEN "SatisfiedByExisting" ELSE "Rejected"]
         [] OTHER -> output_intent
  /\ MoveOn("spots")
  /\ UNCHANGED <<device_link, spot, overprint>>

-----------------------------------------------------------------------------
(* resolve_spot_policy                                                      *)
ProcessDeviceColorSpaces == {"DeviceGray", "DeviceRgb", "DeviceCmyk"}
Eligible(color) == color.alternate \in ProcessDeviceColorSpaces

ConsiderSpot ==
  /\ resolving = "spots" /\ request.spot = "ConvertAlternate" /\ ~Behind(request.spots)
  /\ spot' = IF Eligible(Here(request.spots))
             THEN [spot EXCEPT !.eligible = Append(@, Here(request.spots))]
             ELSE [spot EXCEPT !.skipped = Append(@, Here(request.spots))]
  /\ Stay
  /\ UNCHANGED <<device_link, output_intent, overprint>>

SettleSpot ==
  /\ resolving = "spots" /\ (request.spot = "ConvertAlternate" => Behind(request.spots))
  /\ spot' = CASE request.spot = "Preserve" -> [decision |-> "Preserve"]
               [] request.spot = "Reject" ->
                    [decision |-> IF request.spots # <<>> THEN "Rejected" ELSE "NoSpotColors"]
               [] OTHER -> spot
  /\ MoveOn("overprint")
  /\ UNCHANGED <<device_link, output_intent, overprint>>

-----------------------------------------------------------------------------
(* resolve_overprint_policy; RejectUnsafe keeps what is not safe in order.  *)
Mitigation(i) ==
  [interaction |-> i,
   action |-> IF i.sensitivity = "ProcessColorantExpansion" THEN "PreserveZeroProcessColorants"
              ELSE "PreserveSpotOverprintAppearance"]

Mitigated(decision, i) ==
  CASE i.sensitivity = "Safe" -> decision
    [] i.sensitivity = "Unsupported" -> [decision EXCEPT !.skipped = Append(@, i)]
    [] OTHER -> [decision EXCEPT !.supported = Append(@, Mitigation(i))]

ConsiderInteraction ==
  /\ resolving = "overprint" /\ request.overprint = "Mitigate" /\ ~Behind(request.interactions)
  /\ overprint' = Mitigated(overprint, Here(request.interactions))
  /\ Stay
  /\ UNCHANGED <<device_link, output_intent, spot>>

Unsafe(interactions) == SelectSeq(interactions, LAMBDA i : i.sensitivity # "Safe")

SettleOverprint ==
  /\ resolving = "overprint" /\ (request.overprint = "Mitigate" => Behind(request.interactions))
  /\ overprint' =
       CASE request.overprint = "Preserve" -> [decision |-> "Preserve"]
         [] request.overprint = "RejectUnsafe" ->
              IF Unsafe(request.interactions) = <<>> THEN [decision |-> "NoUnsafeOverprint"]
              ELSE [decision |-> "Rejected", interactions |-> Unsafe(request.interactions)]
         [] OTHER -> overprint
  /\ MoveOn("key")
  /\ UNCHANGED <<device_link, output_intent, spot>>

-----------------------------------------------------------------------------
(* derive_transform_cache_key; a profile reference is absent as "none".     *)
Keyless ==
  \/ device_link.decision = "Rejected"
  \/ /\ device_link.decision = "UseProfileConnectionSpace"
     /\ "none" \in {request.source_profile, request.destination_profile}

NoKeyReason ==
  CASE device_link.decision = "Rejected" -> "RejectedDeviceLink"
    [] request.source_profile = "none" -> "MissingSourceProfileId"
    [] OTHER -> "MissingDestinationProfileId"

KeyOfIds ==              \* mutant: colour spaces are left out of the key
  IF device_link.decision = "UseDeviceLink" THEN <<"DeviceLink", device_link.link.id>>
  ELSE <<"ProfileConnectionSpace", request.source_profile, request.destination_profile>>

Key ==
  IF device_link.decision = "UseDeviceLink"
  THEN <<"DeviceLink", device_link.link.id, request.source, request.destination>>
  ELSE <<"ProfileConnectionSpace", request.source_profile, request.destination_profile,
         request.source, request.destination>>

(* What an executor would build: the selected link, or the two profiles     *)
(* applied to the two colour spaces.                                        *)
Transform ==
  IF device_link.decision = "UseDeviceLink" THEN <<"link", device_link.link>>
  ELSE <<"profiles", request.source_profile, request.destination_profile,
         request.source, request.destination>>

DeriveKey ==
  /\ resolving = "key"
  /\ keyed' = Append(keyed, IF Keyless THEN [key |-> <<NoKeyReason>>, transform |-> <<NoKeyReason>>]
                            ELSE [key |-> Key, transform |-> Transform])
  /\ request' = NoRequest /\ resolving' = "idle" /\ position' = 1
  /\ device_link' = Undecided /\ output_intent' = Undecided
  /\ spot' = Undecided /\ overprint' = Undecided

(* The caller has no more requests.                                         *)
AllAnswered == resolving = "idle" /\ Len(keyed) = MaxRequests /\ UNCHANGED transformVars

TransformNext ==
  \/ Submit \/ ConsiderLink \/ SettleLink \/ ConsiderIntent \/ SettleIntent
  \/ ConsiderSpot \/ SettleSpot \/ ConsiderInteraction \/ SettleOverprint \/ DeriveKey
  \/ AllAnswered

TransformSpec == TransformInit /\ [][TransformNext]_transformVars

-----------------------------------------------------------------------------
(***************************************************************************)
(* A key names its transform: transforms that would be built differently   *)
(* never share a key, whatever ids the links of a caller have, and the     *)
(* same transform gets the same key from every request, whatever profiles  *)
(* are lying about.                                                        *)
(***************************************************************************)
KeysIdentifyTransforms ==
  \A i, j \in DOMAIN keyed : keyed[i].key = keyed[j].key <=> keyed[i].transform = keyed[j].transform

First(observed, Test(_)) ==
  {i \in DOMAIN observed : Test(observed[i]) /\ \A j \in 1..(i - 1) : ~Test(observed[j])}

IntentsAnswered ==
  LET Conflicts(intent) == SameSubtype(intent) /\ ~IsTarget(intent)
  IN  request.output_intent.policy = "EnsureTarget" =>
        IF First(request.intents, IsTarget) # {}
        THEN output_intent.decision = "AlreadySatisfied"
        ELSE IF First(request.intents, Conflicts) = {}
        THEN output_intent.decision = "RequiresEnsureTarget"
        ELSE \E i \in First(request.intents, Conflicts) :
               output_intent = [decision |-> "ConflictsWithExisting", existing |-> request.intents[i]]

LinksAnswered ==
  IF LooksAtLinks /\ First(request.links, Serves) # {}
  THEN \E i \in First(request.links, Serves) :
         device_link = [decision |-> "UseDeviceLink", link |-> request.links[i]]
  ELSE device_link.decision =
         IF request.device_link = "Require" THEN "Rejected" ELSE "UseProfileConnectionSpace"

(* What a list holds at these places, in its order.                         *)
IsSifted(sifted, list, places) ==
  /\ Len(sifted) = Cardinality(places)
  /\ \A i \in places : sifted[Cardinality({j \in places : j <= i})] = list[i]

Places(list, Test(_)) == {i \in DOMAIN list : Test(list[i])}

(* Nothing unsafe is passed over: each is mitigated or reported, in order.  *)
UnsafeAnswered ==
  LET Interactions(mitigations) == [i \in DOMAIN mitigations |-> mitigations[i].interaction]
      Reportable(i) == i.sensitivity = "Unsupported"
      Mitigable(i) == i.sensitivity \notin {"Safe", "Unsupported"}
  IN  request.overprint = "Mitigate" =>
        /\ IsSifted(overprint.skipped, request.interactions,
                    Places(request.interactions, Reportable))
        /\ IsSifted(Interactions(overprint.supported), request.interactions,
                    Places(request.interactions, Mitigable))

SpotsAnswered ==
  request.spot = "ConvertAlternate" =>
    /\ IsSifted(spot.eligible, request.spots, Places(request.spots, Eligible))
    /\ IsSifted(spot.skipped, request.spots,
                DOMAIN request.spots \ Places(request.spots, Eligible))

(***************************************************************************)
(* The decisions of a plan answer all that was observed: the first link    *)
(* that serves, a matching intent wherever it stands, else the first that  *)
(* conflicts, and each spot colour and unsafe interaction exactly once.    *)
(***************************************************************************)
DecisionsFollowObservations ==
  resolving = "key" => LinksAnswered /\ IntentsAnswered /\ SpotsAnswered /\ UnsafeAnswered

=============================================================================
