----------------------------- MODULE ToolPolicy ------------------------------
(***************************************************************************)
(* The tables the authorization layer reads: which role may call which     *)
(* tool (src/rbac.ts), which tools need the FERPA flag (src/config.ts) and *)
(* which tools confirm that the caller manages the course (the handlers of *)
(* src/tools/grade-writeback.ts).                                          *)
(***************************************************************************)
EXTENDS FiniteSets

Roles == {"student", "instructor", "admin", "parent"}

StudentTools ==
  {"get_upcoming_assignments", "get_my_grades", "get_assignment_feedback"}

CourseTools ==
  {"get_my_courses", "list_courses", "get_course_content",
   "get_course_contents", "get_announcements", "search_course_materials"}

InstructorTools ==
  {"list_roster", "get_grades", "get_submission_status",
   "get_grade_distribution", "get_discussion_summary", "get_at_risk_students",
   "draft_announcement"}

GradeWriteTools ==
  {"create_assignment", "create_grade_column", "update_grade", "delete_grade",
   "exempt_grade", "get_grade_column"}

AdminTools ==
  {"list_users", "get_user", "list_enrollments", "create_enrollment",
   "update_enrollment", "delete_enrollment", "list_audit_logs"}

ParentTools ==
  {"get_my_children", "get_children_courses", "get_children_grades",
   "get_children_upcoming_assignments", "get_children_announcements"}

WebhookTools ==
  {"list_webhook_subscriptions", "get_webhook_subscription",
   "create_webhook_subscription", "update_webhook_subscription",
   "delete_webhook_subscription"}

RegisteredTools ==
  StudentTools \cup CourseTools \cup InstructorTools \cup GradeWriteTools
  \cup AdminTools \cup ParentTools \cup WebhookTools
  \cup {"create_assignment_submission"}

\* TOOL_ROLE_RULES.  A tool that is not in the table has no role.
AllowedRolesForTool(tool) ==
  {role \in Roles :
     \/ role = "student" /\ tool \in StudentTools
     \/ role \in {"student", "instructor", "admin"} /\ tool \in CourseTools
     \/ /\ role \in {"instructor", "admin"}
        /\ tool \in InstructorTools \cup GradeWriteTools
     \/ role = "admin" /\ tool \in AdminTools \cup WebhookTools
     \/ role = "parent" /\ tool \in ParentTools
     \/ /\ role \in {"student", "admin"}
        /\ tool = "create_assignment_submission"}

\* config.security.restrictedTools without the additions of RESTRICTED_TOOLS.
RestrictedTools ==
  {"get_at_risk_students", "get_grade_distribution", "get_submission_status",
   "get_grades", "list_users", "get_user", "list_enrollments",
   "list_audit_logs"}

\* The handlers that call checkCourseEntitlement after checkAuthorization.
EntitlementTools == GradeWriteTools

\* GRADE_MANAGING_COURSE_ROLES of src/auth.ts.
GradeManagingRoles == {"Instructor", "TeachingAssistant", "CourseBuilder"}

=============================================================================
