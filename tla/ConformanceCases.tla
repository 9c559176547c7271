-------------------------- MODULE ConformanceCases --------------------------
(***************************************************************************)
(* The vehicles and waits the conformance tester is checked with, and what *)
(* its own tests expect it to find wrong with each of them.                *)
(***************************************************************************)
EXTENDS Naturals

(* The failures and warnings each defect must lead to, and no others.      *)
(* src: tools/conformance/tests/test_checks.py, DEFECT_CASES               *)
Expected ==
  [ none                    |-> <<{}, {}>>,
    no_connection           |-> <<{<<"connection", "published">>}, {}>>,
    bad_connection_state    |-> <<{<<"connection", "state_enum">>, <<"connection", "online">>}, {}>>,
    connection_not_retained |-> <<{<<"connection", "retained">>}, {}>>,
    no_lastwill             |-> <<{<<"connection", "lastwill">>}, {}>>,
    identity_mismatch       |-> <<{<<"state", "identity">>, <<"connection", "identity">>,
                                   <<"factsheet", "header">>}, {}>>,
    no_state                |-> <<{<<"state", "published">>, <<"instant", "stateRequest">>,
                                   <<"instant", "cancelOrder">>, <<"instant", "initPosition">>,
                                   <<"instant", "unknown_rejected">>},
                                  {<<"instant", "factsheetRequest">>}>>,
    missing_state_fields    |-> <<{<<"state", "required_fields">>,
                                   <<"order", "reject_stale_reports_error">>}, {}>>,
    string_battery_charge   |-> <<{<<"state", "field_types">>, <<"state", "battery_range">>}, {}>>,
    drop_recommended_fields |-> <<{}, {<<"state", "recommended_fields">>}>>,
    drop_version            |-> <<{<<"state", "header">>, <<"state", "version_field">>}, {}>>,
    header_id_frozen        |-> <<{<<"state", "header_id_monotonic">>}, {}>>,
    local_timestamps        |-> <<{<<"state", "timestamp_format">>}, {}>>,
    timestamps_go_backwards |-> <<{<<"state", "timestamp_monotonic">>}, {}>>,
    serial_charset          |-> <<{<<"state", "serial_charset">>}, {}>>,
    future_major_version    |-> <<{<<"state", "version_field">>},
                                  {<<"protocol", "supported_version">>}>>,
    retained_state          |-> <<{<<"state", "not_retained">>}, {}>>,
    theta_out_of_range      |-> <<{<<"state", "agv_position">>}, {}>>,
    battery_out_of_range    |-> <<{<<"state", "battery_range">>}, {}>>,
    battery_as_fraction     |-> <<{}, {<<"state", "battery_range">>}>>,
    malformed_error_entry   |-> <<{<<"state", "errors_wellformed">>}, {}>>,
    bad_operating_mode      |-> <<{<<"state", "operating_mode">>}, {}>>,
    bad_estop               |-> <<{<<"state", "safety_state">>}, {}>>,
    wrong_sequence_parity   |-> <<{<<"state", "sequence_ids">>}, {}>>,
    ignore_orders           |-> <<{<<"order", "accept_new">>, <<"order", "accept_update">>}, {}>>,
    ignore_order_updates    |-> <<{<<"order", "accept_update">>}, {}>>,
    accept_stale_order      |-> <<{<<"order", "reject_stale">>,
                                   <<"order", "reject_stale_reports_error">>}, {}>>,
    no_order_update_error   |-> <<{<<"order", "reject_stale_reports_error">>}, {}>>,
    adopt_invalid_order     |-> <<{<<"order", "reject_invalid">>}, {}>>,
    string_order_update_id  |-> <<{<<"order", "echo">>, <<"state", "required_fields">>,
                                   <<"order", "accept_update">>}, {}>>,
    custom_action_status    |-> <<{<<"actions", "status_enum">>, <<"actions", "terminal_reported">>,
                                   <<"instant", "stateRequest">>, <<"instant", "cancelOrder">>,
                                   <<"instant", "initPosition">>},
                                  {<<"instant", "factsheetRequest">>}>>,
    action_without_type     |-> <<{<<"actions", "required_fields">>}, {}>>,
    vanishing_actions       |-> <<{<<"actions", "terminal_reported">>}, {}>>,
    duplicate_action_ids    |-> <<{<<"actions", "unique_ids">>, <<"actions", "no_regression">>}, {}>>,
    action_regresses        |-> <<{<<"actions", "no_regression">>}, {}>>,
    ignore_stateRequest     |-> <<{<<"instant", "stateRequest">>}, {}>>,
    ignore_factsheetRequest |-> <<{<<"instant", "factsheetRequest">>}, {}>>,
    ignore_cancelOrder      |-> <<{<<"instant", "cancelOrder">>}, {}>>,
    ignore_initPosition     |-> <<{<<"instant", "initPosition">>}, {}>>,
    silent_unknown_action   |-> <<{<<"instant", "unknown_rejected">>}, {}>>,
    finish_unknown_action   |-> <<{<<"instant", "unknown_rejected">>}, {}>>,
    no_factsheet            |-> <<{<<"factsheet", "published">>},
                                  {<<"instant", "factsheetRequest">>}>>,
    factsheet_missing_blocks |-> <<{<<"factsheet", "required_blocks">>}, {}>>,
    factsheet_bad_enums     |-> <<{<<"factsheet", "type_specification">>}, {}>>,
    factsheet_incomplete_physical |-> <<{<<"factsheet", "physical_parameters">>}, {}>>,
    factsheet_no_header     |-> <<{<<"factsheet", "header">>}, {}>>,
    factsheet_not_retained  |-> <<{<<"factsheet", "retained">>}, {}>>,
    broken_visualization    |-> <<{<<"visualization", "wellformed">>}, {}>>,
    extra_subtopic          |-> <<{<<"protocol", "topic_scheme">>}, {}>>,
    bad_topic_scheme        |-> <<{<<"protocol", "topic_scheme">>, <<"state", "published">>,
                                   <<"instant", "stateRequest">>, <<"instant", "cancelOrder">>,
                                   <<"instant", "initPosition">>, <<"instant", "unknown_rejected">>},
                                  {<<"instant", "factsheetRequest">>}>>,
    bad_major_segment       |-> <<{<<"protocol", "major_version_segment">>}, {}>>,
    version_skew            |-> <<{<<"protocol", "version_consistency">>}, {}>>,
    malformed_json          |-> <<{<<"protocol", "json_valid">>}, {}>> ]

Defects == DOMAIN Expected

(* With probing, on a broker that hides last-wills, and only watching.     *)
Probing == [active |-> TRUE, wills |-> TRUE]
Blind   == [active |-> TRUE, wills |-> FALSE]
Passive == [active |-> FALSE, wills |-> TRUE]

(* Vehicles that have just been switched on, as in the tests, and vehicles *)
(* that have published before the tester connects. A running vehicle that  *)
(* retains its state is a run of its own; one that does not retain its     *)
(* connection cannot be heard by a tester that connects later.             *)
EveryVehicle ==
  (Defects \X {FALSE} \X {Probing})
  \cup ((Defects \ {"retained_state", "connection_not_retained"}) \X {TRUE} \X {Probing})
  \cup ({"none"} \X BOOLEAN \X {Blind, Passive})

RunningRetainer == {<<"retained_state", TRUE, Probing>>}

ShortWaits == [discover |-> 1, observe |-> 2, settle |-> 2, retain |-> 1]

SoundVehicle == {<<"none", FALSE, Probing>>}
============================================================================
