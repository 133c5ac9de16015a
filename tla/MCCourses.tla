----------------------------- MODULE MCCourses -----------------------------
(* A small instance of Courses for TLC: one course of two topics, the      *)
(* first of two subtopics, and a second course of one topic without any.   *)
EXTENDS Courses, TLC

CONSTANTS c1, c2, t1, t2, t3, s1, s2, s3, l1, l2

MCParent ==
  t1 :> c1 @@ t2 :> c1 @@ t3 :> c2
  @@ s1 :> t1 @@ s2 :> t1 @@ s3 :> t2
  @@ l1 :> s1 @@ l2 :> s3
=============================================================================
