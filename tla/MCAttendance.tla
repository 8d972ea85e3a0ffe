---------------------------- MODULE MCAttendance ----------------------------
(* Two sections: the smallest school in which a queue outlives the session  *)
(* its marks were tapped in.                                                *)
EXTENDS AttendanceDevice
=============================================================================
